--------------------------- MODULE SelectionProofs ---------------------------
(***************************************************************************)
(* Theorems about SelectGraph, for every set of candidates, every gate and *)
(* policy, all weights and every scale of the score: the choice is that of *)
(* a total order on the candidates that pass the gate, votes count for     *)
(* their candidate, and the walk is a path.  And about VersionText, for    *)
(* all version texts: what is read from one is read back when printed.     *)
(***************************************************************************)
EXTENDS SelectGraph, VersionText, TridentRuleProofs, SequenceTheorems

-----------------------------------------------------------------------------
(* The score                                                               *)

LEMMA Scaling ==
  ASSUME NEW a \in Nat, NEW b \in Nat, NEW c \in Nat, b <= c
  PROVE  a * b \in Nat /\ a * b <= a * c
<1>1. PICK d \in Nat : c = b + d
  <2>1. c - b \in Nat /\ c = b + (c - b)
    OBVIOUS
  <2>2. QED
    BY <2>1
<1>2. a * c = a * b + a * d
  BY <1>1
<1>3. a * b \in Nat /\ a * d \in Nat
  OBVIOUS
<1>4. QED
  BY <1>1, <1>2, <1>3

\* The quotient is the greatest number whose product with the divisor fits.
LEMMA Quotient ==
  ASSUME NEW a \in Nat, NEW n \in Nat \ {0}
  PROVE  /\ a \div n \in Nat
         /\ (a \div n) * n <= a
         /\ \A q \in Nat : q * n <= a => q <= a \div n
<1> DEFINE d == a \div n
           m == a % n
<1>1. d \in Nat /\ m \in 0 .. n - 1 /\ a = d * n + m
  OBVIOUS
<1> HIDE DEF d, m
<1>2. d * n <= a
  BY <1>1
<1>3. ASSUME NEW q \in Nat, q * n <= a, ~ (q <= d) PROVE FALSE
  <2>1. d + 1 <= q
    BY <1>1, <1>3
  <2>2. n * (d + 1) <= n * q
    BY <1>1, <2>1, Scaling
  <2>3. n * (d + 1) = d * n + n /\ n * q = q * n
    BY <1>1
  <2>4. QED
    BY <1>1, <1>3, <2>2, <2>3
<1>4. QED
  BY <1>1, <1>2, <1>3 DEF d

\* A vote for, with the sum a of n votes worth s at the most each, raises the
\* average or leaves it; a vote against lowers it or leaves it.
LEMMA Average ==
  ASSUME NEW s \in Nat, NEW n \in Nat \ {0}, NEW a \in Nat, a <= n * s
  PROVE  /\ a \div n <= (a + s) \div (n + 1)
         /\ a \div (n + 1) <= a \div n
<1>1. n + 1 \in Nat \ {0} /\ a + s \in Nat
  OBVIOUS
<1>2. a \div n <= (a + s) \div (n + 1)
  <2> DEFINE q == a \div n
  <2>1. q \in Nat /\ q * n <= a
    BY Quotient
  <2> HIDE DEF q
  <2>2. q <= s
    <3>1. SUFFICES ASSUME ~ (q <= s) PROVE FALSE
      OBVIOUS
    <3>2. s + 1 <= q
      BY <2>1, <3>1
    <3>3. n * (s + 1) <= n * q
      BY <2>1, <3>2, Scaling
    <3>4. n * (s + 1) = n * s + n /\ n * q = q * n
      BY <2>1
    <3>5. n * s \in Nat /\ q * n \in Nat
      BY <2>1
    <3>6. QED
      BY <2>1, <3>3, <3>4, <3>5
  <2>3. q * (n + 1) = q * n + q /\ q * n \in Nat
    BY <2>1
  <2>4. q * (n + 1) <= a + s
    BY <2>1, <2>2, <2>3
  <2>5. q <= (a + s) \div (n + 1)
    BY <1>1, <2>1, <2>4, Quotient
  <2>6. QED
    BY <2>5 DEF q
<1>3. a \div (n + 1) <= a \div n
  <2> DEFINE q == a \div (n + 1)
  <2>1. q \in Nat /\ q * (n + 1) <= a
    BY <1>1, Quotient
  <2> HIDE DEF q
  <2>2. q * (n + 1) = q * n + q /\ q * n \in Nat
    BY <2>1
  <2>3. q * n <= a
    BY <2>1, <2>2
  <2>4. q <= a \div n
    BY <2>1, <2>3, Quotient
  <2>5. QED
    BY <2>4 DEF q
<1>4. QED
  BY <1>2, <1>3

Endorsed(votes) == Cast(votes, "yes")

Rejected(votes) == Cast(votes, "no")

LEMMA U16Meaning == \A n : n \in U16 <=> n \in Int /\ 0 <= n /\ n <= 65535
<1> DEFINE m == 65535
<1>1. U16 = 0 .. m
  BY DEF U16
<1>2. m \in Nat
  OBVIOUS
<1> HIDE DEF m
<1>3. \A n : n \in U16 <=> n \in Int /\ 0 <= n /\ n <= m
  BY <1>1, <1>2
<1>4. QED
  BY <1>3 DEF m

LEMMA VotesAreNaturals ==
  ASSUME NEW v \in Votes
  PROVE  v.yes \in Nat /\ v.no \in Nat /\ v.nil \in Nat
<1>1. U16 \subseteq Nat
  BY DEF U16
<1>2. QED
  BY <1>1 DEF Votes

LEMMA CastMeaning ==
  ASSUME NEW v \in Votes
  PROVE  /\ Endorsed(v) \in Votes /\ Rejected(v) \in Votes
         /\ Endorsed(v).no = v.no /\ Endorsed(v).nil = v.nil
         /\ Endorsed(v).yes = IF v.yes = 65535 THEN v.yes ELSE v.yes + 1
         /\ Rejected(v).yes = v.yes /\ Rejected(v).nil = v.nil
         /\ Rejected(v).no = IF v.no = 65535 THEN v.no ELSE v.no + 1
<1>1. \A n \in U16 : /\ Capped(n + 1, 65535) \in U16
                     /\ Capped(n + 1, 65535) = IF n = 65535 THEN n ELSE n + 1
  BY U16Meaning DEF Capped
<1>2. v.yes \in U16 /\ v.no \in U16 /\ v.nil \in U16
  BY DEF Votes
<1>3. /\ Capped(v.yes + 1, 65535) \in U16
      /\ Capped(v.yes + 1, 65535) = IF v.yes = 65535 THEN v.yes ELSE v.yes + 1
  BY <1>1, <1>2
<1>4. /\ Capped(v.no + 1, 65535) \in U16
      /\ Capped(v.no + 1, 65535) = IF v.no = 65535 THEN v.no ELSE v.no + 1
  BY <1>1, <1>2
<1>5. Endorsed(v) = [v EXCEPT !.yes = Capped(v.yes + 1, 65535)]
  BY DEF Endorsed, Cast
<1>6. Rejected(v) = [v EXCEPT !.no = Capped(v.no + 1, 65535)]
  BY DEF Rejected, Cast
<1> HIDE DEF Endorsed, Rejected
<1>7. QED
  BY <1>3, <1>4, <1>5, <1>6 DEF Votes

LEMMA VotesCount ==
  ASSUME NEW v \in Votes
  PROVE  /\ ConsensusScore(v) \in Nat
         /\ ConsensusScore(Rejected(v)) \in Nat /\ ConsensusScore(Endorsed(v)) \in Nat
         /\ ConsensusScore(v) <= ConsensusScore(Endorsed(v))
         /\ ConsensusScore(Rejected(v)) <= ConsensusScore(v)
<1> DEFINE n == v.yes + v.no + v.nil
           h == ScoreOne \div 2
           y == v.yes * ScoreOne
           z == v.nil * h
           a == y + z
<1>1. v.yes \in Nat /\ v.no \in Nat /\ v.nil \in Nat /\ ScoreOne \in Nat
  BY ScoreAssumption, VotesAreNaturals
<1>2. h \in Nat /\ h <= ScoreOne
  BY <1>1
<1> HIDE DEF h
<1>3. y \in Nat /\ z \in Nat /\ a \in Nat /\ n \in Nat
  BY <1>1, <1>2
<1>4. a <= n * ScoreOne
  <2>1. z <= v.nil * ScoreOne
    BY <1>1, <1>2, Scaling
  <2>2. v.nil * ScoreOne \in Nat /\ v.no * ScoreOne \in Nat
    BY <1>1
  <2>3. n * ScoreOne = y + v.no * ScoreOne + v.nil * ScoreOne
    BY <1>1
  <2> HIDE DEF y, z, n
  <2>4. QED
    BY <1>3, <2>1, <2>2, <2>3
<1>5. \A w \in Votes : ConsensusScore(w) \in Nat
  <2>1. SUFFICES ASSUME NEW w \in Votes PROVE ConsensusScore(w) \in Nat
    OBVIOUS
  <2>2. w.yes \in Nat /\ w.no \in Nat /\ w.nil \in Nat
    BY VotesAreNaturals
  <2>3. w.yes * ScoreOne + w.nil * h \in Nat /\ w.yes + w.no + w.nil \in Nat
    BY <1>1, <1>2, <2>2
  <2> DEFINE b == w.yes * ScoreOne + w.nil * h
             k == w.yes + w.no + w.nil
  <2>4. ConsensusScore(w) = IF k = 0 THEN h ELSE b \div k
    BY DEF ConsensusScore, h
  <2> HIDE DEF b, k
  <2>5. b \in Nat /\ k \in Nat
    BY <2>3 DEF b, k
  <2>6. k # 0 => b \div k \in Nat
    BY <2>5, Quotient
  <2>7. QED
    BY <1>2, <2>4, <2>6
<1>6. ConsensusScore(v) = IF n = 0 THEN h ELSE a \div n
  BY DEF ConsensusScore, h
<1>7. ConsensusScore(v) <= ConsensusScore(Endorsed(v))
  <2> DEFINE w == Endorsed(v)
  <2>1. w.no = v.no /\ w.nil = v.nil /\ w.yes = IF v.yes = 65535 THEN v.yes ELSE v.yes + 1
    BY CastMeaning
  <2>2. ConsensusScore(w) = IF w.yes + w.no + w.nil = 0 THEN h
                            ELSE (w.yes * ScoreOne + w.nil * h) \div (w.yes + w.no + w.nil)
    BY DEF ConsensusScore, h
  <2> HIDE DEF w
  <2>3. CASE v.yes = 65535
    <3>1. ConsensusScore(w) = ConsensusScore(v)
      BY <2>1, <2>2, <2>3, <1>6
    <3>2. QED
      BY <3>1, <1>5 DEF w
  <2>4. CASE v.yes # 65535
    <3>0. w.yes = v.yes + 1 /\ (v.yes + 1) * ScoreOne = y + ScoreOne
      BY <1>1, <2>1, <2>4
    <3>1. w.yes + w.no + w.nil = n + 1 /\ w.yes * ScoreOne + w.nil * h = a + ScoreOne
      <4> HIDE DEF y
      <4>1. w.yes * ScoreOne + w.nil * h = a + ScoreOne
        BY <1>1, <1>2, <1>3, <2>1, <3>0
      <4>2. QED
        BY <1>1, <2>1, <3>0, <4>1
    <3>2. ConsensusScore(w) = (a + ScoreOne) \div (n + 1)
      BY <1>3, <2>2, <3>1
    <3> HIDE DEF a, n
    <3>3. CASE n = 0
      <4>1. v.yes = 0 /\ v.nil = 0
        BY <1>1, <3>3 DEF n
      <4>2. a = 0
        BY <1>1, <1>2, <4>1 DEF a
      <4>3. ConsensusScore(w) = ScoreOne
        BY <1>1, <3>2, <3>3, <4>2
      <4>4. QED
        BY <1>1, <1>2, <1>6, <3>3, <4>3 DEF w
    <3>4. CASE n # 0
      <4>1. a \div n <= (a + ScoreOne) \div (n + 1)
        BY <1>1, <1>3, <1>4, <3>4, Average
      <4>2. QED
        BY <1>6, <3>2, <3>4, <4>1 DEF w
    <3>5. QED
      BY <3>3, <3>4
  <2>5. QED
    BY <2>3, <2>4
<1>8. ConsensusScore(Rejected(v)) <= ConsensusScore(v)
  <2> DEFINE w == Rejected(v)
  <2>1. w.yes = v.yes /\ w.nil = v.nil /\ w.no = IF v.no = 65535 THEN v.no ELSE v.no + 1
    BY CastMeaning
  <2>2. ConsensusScore(w) = IF w.yes + w.no + w.nil = 0 THEN h
                            ELSE (w.yes * ScoreOne + w.nil * h) \div (w.yes + w.no + w.nil)
    BY DEF ConsensusScore, h
  <2> HIDE DEF w
  <2>3. CASE v.no = 65535
    <3>1. ConsensusScore(w) = ConsensusScore(v)
      BY <2>1, <2>2, <2>3, <1>6
    <3>2. QED
      BY <3>1, <1>5 DEF w
  <2>4. CASE v.no # 65535
    <3>1. w.yes + w.no + w.nil = n + 1 /\ w.yes * ScoreOne + w.nil * h = a
      BY <1>1, <1>2, <2>1, <2>4
    <3>2. ConsensusScore(w) = a \div (n + 1)
      BY <1>3, <2>2, <3>1
    <3> HIDE DEF a, n
    <3>3. CASE n = 0
      <4>1. v.yes = 0 /\ v.nil = 0
        BY <1>1, <3>3 DEF n
      <4>2. a = 0
        BY <1>1, <1>2, <4>1 DEF a
      <4>3. ConsensusScore(w) = 0
        BY <3>2, <3>3, <4>2
      <4>4. QED
        BY <1>2, <1>6, <3>3, <4>3 DEF w
    <3>4. CASE n # 0
      <4>1. a \div (n + 1) <= a \div n
        BY <1>1, <1>3, <1>4, <3>4, Average
      <4>2. QED
        BY <1>6, <3>2, <3>4, <4>1 DEF w
    <3>5. QED
      BY <3>3, <3>4
  <2>5. QED
    BY <2>3, <2>4
<1>9. QED
  BY <1>5, <1>7, <1>8, CastMeaning

LEMMA SemVerWeightIsNatural ==
  ASSUME NEW v \in Version
  PROVE  SemVerWeight(v) \in Nat
<1> DEFINE base == v.major * 100 + v.minor * 10 + v.patch
           m == Multiplier(v.majorState)
           q == (base * ScoreOne) \div (base + 100)
<1>1. ScoreOne \in Nat \ {0}
  BY ScoreAssumption
<1>2. base \in Nat
  <2>1. U16 \subseteq Nat
    BY DEF U16
  <2>2. v.major \in Nat /\ v.minor \in Nat /\ v.patch \in Nat
    BY <2>1 DEF Version
  <2>3. QED
    BY <2>2
<1>3. m \in Nat
  <2>1. (ScoreOne * 80) \div 100 \in Nat /\ (ScoreOne * 75) \div 100 \in Nat
        /\ (ScoreOne * 60) \div 100 \in Nat
    BY <1>1
  <2>2. QED
    BY <1>1, <2>1 DEF Multiplier
<1>4. SemVerWeight(v) = (q * m) \div ScoreOne
  BY DEF SemVerWeight
<1> HIDE DEF base, m
<1>5. base * ScoreOne \in Nat /\ base + 100 \in Nat \ {0}
  BY <1>1, <1>2
<1>6. q \in Nat
  <2> DEFINE x == base * ScoreOne
             y == base + 100
  <2>1. x \in Nat /\ y \in Nat \ {0} /\ q = x \div y
    BY <1>5
  <2> HIDE DEF x, y, q
  <2>2. QED
    BY <2>1, Quotient
<1> HIDE DEF q
<1>7. q * m \in Nat
  BY <1>3, <1>6
<1>8. QED
  BY <1>1, <1>4, <1>7, Quotient

LEMMA ScoreMeaning ==
  ASSUME NEW ws \in WeightTriple, NEW c \in Candidate
  PROVE  /\ Score(c, ws) \in Nat
         /\ \A d \in Candidate :
              d.version = c.version /\ d.artifact = c.artifact
              /\ ConsensusScore(c.votes) <= ConsensusScore(d.votes)
              => Score(c, ws) <= Score(d, ws)
<1> DEFINE w == IF Normalised(ws) THEN ws ELSE DefaultWeights
           Rest(d) == w.artifact * Capped(d.artifact, ScoreOne)
                      + w.semver * SemVerWeight(d.version)
           Con(d) == ConsensusScore(d.votes)
<1>1. w.consensus \in Nat /\ w.artifact \in Nat /\ w.semver \in Nat
  <2>1. CASE Normalised(ws)
    BY <2>1 DEF WeightTriple
  <2>2. CASE ~ Normalised(ws)
    BY <2>2 DEF DefaultWeights
  <2>3. QED
    BY <2>1, <2>2
<1>2. \A d \in Candidate :
        Score(d, ws) = (w.consensus * Con(d) + w.artifact * Capped(d.artifact, ScoreOne)
                        + w.semver * SemVerWeight(d.version)) \div 10
  BY DEF Score
<1> HIDE DEF w
<1>3. ASSUME NEW d \in Candidate PROVE Rest(d) \in Nat /\ Con(d) \in Nat
  <2>1. d.version \in Version /\ d.votes \in Votes /\ d.artifact \in Nat
    BY DEF Candidate
  <2>2. SemVerWeight(d.version) \in Nat /\ Con(d) \in Nat
    BY <2>1, SemVerWeightIsNatural, VotesCount
  <2>3. Capped(d.artifact, ScoreOne) \in Nat
    BY <2>1, ScoreAssumption DEF Capped
  <2>4. w.artifact * Capped(d.artifact, ScoreOne) \in Nat /\ w.semver * SemVerWeight(d.version) \in Nat
    BY <1>1, <2>2, <2>3
  <2>5. QED
    BY <2>2, <2>4
<1>4. ASSUME NEW d \in Candidate
      PROVE  Score(d, ws) = (w.consensus * Con(d) + Rest(d)) \div 10
  <2>1. Rest(d) \in Nat /\ Con(d) \in Nat
    BY <1>3
  <2>2. w.consensus * Con(d) \in Nat
    BY <1>1, <2>1
  <2>3. w.artifact * Capped(d.artifact, ScoreOne) \in Nat /\ w.semver * SemVerWeight(d.version) \in Nat
    <3>1. d.version \in Version /\ d.artifact \in Nat
      BY DEF Candidate
    <3>2. SemVerWeight(d.version) \in Nat
      BY <3>1, SemVerWeightIsNatural
    <3>3. Capped(d.artifact, ScoreOne) \in Nat
      BY <3>1, ScoreAssumption DEF Capped
    <3>4. QED
      BY <1>1, <3>2, <3>3
  <2>4. w.consensus * Con(d) + w.artifact * Capped(d.artifact, ScoreOne)
          + w.semver * SemVerWeight(d.version)
        = w.consensus * Con(d) + Rest(d)
    BY <2>2, <2>3
  <2>5. QED
    BY <1>2, <2>4
<1>5. \A d \in Candidate : d.version = c.version /\ d.artifact = c.artifact => Rest(d) = Rest(c)
  OBVIOUS
<1> HIDE DEF Rest, Con
<1>6. Score(c, ws) \in Nat
  <2>1. w.consensus * Con(c) + Rest(c) \in Nat
    BY <1>1, <1>3
  <2>2. QED
    BY <1>4, <2>1
<1>7. ASSUME NEW d \in Candidate, d.version = c.version, d.artifact = c.artifact, Con(c) <= Con(d)
      PROVE  Score(c, ws) <= Score(d, ws)
  <2>1. Con(c) \in Nat /\ Con(d) \in Nat /\ Rest(c) \in Nat /\ Rest(d) = Rest(c)
    BY <1>3, <1>5, <1>7
  <2>2. w.consensus * Con(c) <= w.consensus * Con(d) /\ w.consensus * Con(c) \in Nat
    BY <1>1, <1>7, <2>1, Scaling
  <2>3. w.consensus * Con(d) \in Nat
    BY <1>1, <2>1
  <2>4. QED
    BY <1>4, <2>1, <2>2, <2>3
<1>8. QED
  BY <1>6, <1>7 DEF Con

-----------------------------------------------------------------------------
(* The order of the candidates                                             *)

Ranks == [1 .. 5 -> Int]

LEMMA AboveIsOrder ==
  ASSUME NEW x \in Ranks, NEW y \in Ranks, NEW z \in Ranks
  PROVE  /\ ~ Above(x, x)
         /\ Above(x, y) /\ Above(y, z) => Above(x, z)
         /\ x # y => Above(x, y) \/ Above(y, x)
<1>1. ~ Above(x, x)
  BY DEF Above, Ranks
<1>2. ASSUME Above(x, y), Above(y, z) PROVE Above(x, z)
  <2>1. PICK k \in 1 .. 5 : x[k] > y[k] /\ \A j \in 1 .. k - 1 : x[j] = y[j]
    BY <1>2 DEF Above, Ranks
  <2>2. PICK l \in 1 .. 5 : y[l] > z[l] /\ \A j \in 1 .. l - 1 : y[j] = z[j]
    BY <1>2 DEF Above, Ranks
  <2>3. PICK m \in 1 .. 5 : m <= k /\ m <= l /\ (m = k \/ m = l)
    BY <2>1, <2>2
  <2>4. \A j \in 1 .. m - 1 : x[j] = z[j]
    BY <2>1, <2>2, <2>3
  <2>5. x[m] > z[m]
    <3>1. x[m] \in Int /\ y[m] \in Int /\ z[m] \in Int
      BY DEF Ranks
    <3>2. x[m] = y[m] \/ x[m] > y[m]
      BY <2>1, <2>3
    <3>3. y[m] = z[m] \/ y[m] > z[m]
      BY <2>2, <2>3
    <3>4. x[m] > y[m] \/ y[m] > z[m]
      BY <2>1, <2>2, <2>3
    <3>5. QED
      BY <3>1, <3>2, <3>3, <3>4
  <2>6. QED
    BY <2>4, <2>5 DEF Above, Ranks
<1>3. ASSUME x # y PROVE Above(x, y) \/ Above(y, x)
  <2>1. \E i \in 1 .. 5 : x[i] # y[i]
    BY <1>3 DEF Ranks
  <2>2. PICK k \in 1 .. 5 : x[k] # y[k] /\ \A j \in 1 .. k - 1 : x[j] = y[j]
    <3>1. x[1] # y[1] \/ x[2] # y[2] \/ x[3] # y[3] \/ x[4] # y[4] \/ x[5] # y[5]
      BY <2>1
    <3>2. CASE x[1] # y[1]
      BY <3>2
    <3>3. CASE x[1] = y[1] /\ x[2] # y[2]
      BY <3>3
    <3>4. CASE x[1] = y[1] /\ x[2] = y[2] /\ x[3] # y[3]
      BY <3>4
    <3>5. CASE x[1] = y[1] /\ x[2] = y[2] /\ x[3] = y[3] /\ x[4] # y[4]
      BY <3>5
    <3>6. CASE x[1] = y[1] /\ x[2] = y[2] /\ x[3] = y[3] /\ x[4] = y[4] /\ x[5] # y[5]
      BY <3>6
    <3>7. QED
      BY <3>1, <3>2, <3>3, <3>4, <3>5, <3>6
  <2>3. x[k] > y[k] \/ y[k] > x[k]
    BY <2>2 DEF Ranks
  <2>4. QED
    BY <2>2, <2>3 DEF Above, Ranks
<1>4. QED
  BY <1>1, <1>2, <1>3

Rank(c, ws) ==
  <<Score(c, ws), c.version.major, c.version.minor, c.version.patch, Ids[c.id]>>

LEMMA RankMeaning ==
  ASSUME NEW ws \in WeightTriple, NEW c \in Candidate
  PROVE  /\ Rank(c, ws) \in Ranks
         /\ Rank(c, ws)[1] = Score(c, ws)
         /\ \A d \in Candidate : d.version = c.version /\ d.id = c.id
              => \A k \in 2 .. 5 : Rank(d, ws)[k] = Rank(c, ws)[k]
         /\ \A d \in Candidate : Rank(c, ws) = Rank(d, ws) => c.id = d.id
<1>1. ASSUME NEW d \in Candidate
      PROVE  /\ Rank(d, ws) \in Ranks
             /\ Rank(d, ws)[1] = Score(d, ws) /\ Rank(d, ws)[2] = d.version.major
             /\ Rank(d, ws)[3] = d.version.minor /\ Rank(d, ws)[4] = d.version.patch
             /\ Rank(d, ws)[5] = Ids[d.id]
  <2>1. Score(d, ws) \in Int
    BY ScoreMeaning
  <2>2. d.version.major \in Int /\ d.version.minor \in Int /\ d.version.patch \in Int
    <3>1. U16 \subseteq Int
      BY DEF U16
    <3>2. QED
      BY <3>1 DEF Candidate, Version
  <2>3. Ids[d.id] \in Int
    BY IdsAssumption DEF Candidate
  <2>4. QED
    BY <2>1, <2>2, <2>3 DEF Rank, Ranks
<1>2. ASSUME NEW d \in Candidate, d.version = c.version, d.id = c.id, NEW k \in 2 .. 5
      PROVE  Rank(d, ws)[k] = Rank(c, ws)[k]
  <2>1. k = 2 \/ k = 3 \/ k = 4 \/ k = 5
    OBVIOUS
  <2>2. QED
    BY <1>1, <1>2, <2>1
<1>3. ASSUME NEW d \in Candidate, Rank(c, ws) = Rank(d, ws) PROVE c.id = d.id
  <2>1. Ids[c.id] = Ids[d.id]
    BY <1>1, <1>3
  <2>2. c.id \in DOMAIN Ids /\ d.id \in DOMAIN Ids
    BY DEF Candidate
  <2>3. QED
    BY <2>1, <2>2, IdsAssumption
<1>4. QED
  BY <1>1, <1>2, <1>3

\* Better is a strict order, and it tells candidates with different identifiers
\* apart.
LEMMA BetterIsOrder ==
  ASSUME NEW ws \in WeightTriple, NEW a \in Candidate, NEW b \in Candidate, NEW c \in Candidate
  PROVE  /\ ~ Better(a, a, ws)
         /\ Better(a, b, ws) /\ Better(b, c, ws) => Better(a, c, ws)
         /\ a.id # b.id => Better(a, b, ws) \/ Better(b, a, ws)
<1>1. \A x, y \in Candidate : Better(x, y, ws) = Above(Rank(x, ws), Rank(y, ws))
  BY DEF Better, Rank
<1>2. Rank(a, ws) \in Ranks /\ Rank(b, ws) \in Ranks /\ Rank(c, ws) \in Ranks
  BY RankMeaning
<1>3. a.id # b.id => Rank(a, ws) # Rank(b, ws)
  BY RankMeaning
<1>4. QED
  BY <1>1, <1>2, <1>3, AboveIsOrder

\* A candidate that differs only in a score at least as high is better than
\* whatever the other one is better than, and only better candidates beat it.
LEMMA HigherScore ==
  ASSUME NEW ws \in WeightTriple, NEW low \in Candidate, NEW high \in Candidate, NEW c \in Candidate,
         low.id = high.id, low.version = high.version, Score(low, ws) <= Score(high, ws)
  PROVE  /\ Better(low, c, ws) => Better(high, c, ws)
         /\ Better(c, high, ws) => Better(c, low, ws)
<1> DEFINE x == Rank(low, ws)
           y == Rank(high, ws)
           z == Rank(c, ws)
<1>1. x \in Ranks /\ y \in Ranks /\ z \in Ranks
  BY RankMeaning
<1>2. x[1] <= y[1] /\ \A k \in 2 .. 5 : x[k] = y[k]
  BY RankMeaning
<1>3. /\ Better(low, c, ws) = Above(x, z) /\ Better(high, c, ws) = Above(y, z)
      /\ Better(c, low, ws) = Above(z, x) /\ Better(c, high, ws) = Above(z, y)
  BY DEF Better, Rank
<1> HIDE DEF x, y, z
<1>4. ASSUME Above(x, z) PROVE Above(y, z)
  <2>1. PICK k \in 1 .. 5 : x[k] > z[k] /\ \A j \in 1 .. k - 1 : x[j] = z[j]
    BY <1>1, <1>4 DEF Above, Ranks
  <2>2. x[1] \in Int /\ y[1] \in Int /\ z[1] \in Int
    BY <1>1 DEF Ranks
  <2>3. CASE y[1] > z[1]
    BY <1>1, <2>3 DEF Above, Ranks
  <2>4. CASE ~ (y[1] > z[1])
    <3>1. k # 1
      BY <1>2, <2>1, <2>2, <2>4
    <3>2. 1 \in 1 .. k - 1
      BY <3>1
    <3>3. x[1] = z[1]
      BY <2>1, <3>2
    <3>4. y[1] = z[1]
      BY <1>2, <2>2, <2>4, <3>3
    <3>5. y[k] > z[k]
      BY <1>2, <2>1, <3>1
    <3>6. \A j \in 1 .. k - 1 : y[j] = z[j]
      <4>1. SUFFICES ASSUME NEW j \in 1 .. k - 1 PROVE y[j] = z[j]
        OBVIOUS
      <4>2. j = 1 \/ j \in 2 .. 5
        OBVIOUS
      <4>3. QED
        BY <1>2, <2>1, <3>4, <4>2
    <3>7. QED
      BY <1>1, <3>5, <3>6 DEF Above, Ranks
  <2>5. QED
    BY <2>3, <2>4
<1>5. ASSUME Above(z, y) PROVE Above(z, x)
  <2>1. PICK k \in 1 .. 5 : z[k] > y[k] /\ \A j \in 1 .. k - 1 : z[j] = y[j]
    BY <1>1, <1>5 DEF Above, Ranks
  <2>2. x[1] \in Int /\ y[1] \in Int /\ z[1] \in Int
    BY <1>1 DEF Ranks
  <2>3. CASE z[1] > x[1]
    BY <1>1, <2>3 DEF Above, Ranks
  <2>4. CASE ~ (z[1] > x[1])
    <3>1. k # 1
      BY <1>2, <2>1, <2>2, <2>4
    <3>2. 1 \in 1 .. k - 1
      BY <3>1
    <3>3. z[1] = y[1]
      BY <2>1, <3>2
    <3>4. z[1] = x[1]
      BY <1>2, <2>2, <2>4, <3>3
    <3>5. z[k] > x[k]
      BY <1>2, <2>1, <3>1
    <3>6. \A j \in 1 .. k - 1 : z[j] = x[j]
      <4>1. SUFFICES ASSUME NEW j \in 1 .. k - 1 PROVE z[j] = x[j]
        OBVIOUS
      <4>2. j = 1 \/ j \in 2 .. 5
        OBVIOUS
      <4>3. QED
        BY <1>2, <2>1, <3>4, <4>2
    <3>7. QED
      BY <1>1, <3>5, <3>6 DEF Above, Ranks
  <2>5. QED
    BY <2>3, <2>4
<1>6. QED
  BY <1>3, <1>4, <1>5

-----------------------------------------------------------------------------
(* The choice                                                              *)

\* b is the best of the first i candidates of the list.
IsBest(list, ws, b, i) ==
  /\ b \in 0 .. i
  /\ b = None <=> \A j \in 1 .. i : ~ PassesGate(list[j])
  /\ b # None => /\ PassesGate(list[b])
                 /\ \A j \in 1 .. i : PassesGate(list[j]) => ~ Better(list[j], list[b], ws)

\* One turn of the loop keeps that true of one candidate more.
LEMMA TurnKeepsBest ==
  ASSUME NEW ws \in WeightTriple, NEW list \in Seq(Candidate), NEW i \in 1 .. Len(list),
         NEW b, IsBest(list, ws, b, i - 1)
  PROVE  IsBest(list, ws, BestWith(list, ws, b, i), i)
<1> DEFINE r == BestWith(list, ws, b, i)
<1>1. \A j \in 1 .. i : list[j] \in Candidate
  BY ElementOfSeq
<1>2. b \in 0 .. i - 1 /\ (b = None <=> \A j \in 1 .. i - 1 : ~ PassesGate(list[j]))
  BY DEF IsBest
<1>3. b # None => /\ PassesGate(list[b])
                  /\ \A j \in 1 .. i - 1 : PassesGate(list[j]) => ~ Better(list[j], list[b], ws)
  BY DEF IsBest
<1>4. \A j \in 1 .. i : j = i \/ j \in 1 .. i - 1
  OBVIOUS
<1>5. None = 0
  BY DEF None
<1>6. CASE ~ PassesGate(list[i])
  <2>1. r = b
    BY <1>6 DEF BestWith
  <2>2. b \in 0 .. i /\ (b = None <=> \A j \in 1 .. i : ~ PassesGate(list[j]))
    BY <1>2, <1>4, <1>6
  <2>3. b # None => \A j \in 1 .. i : PassesGate(list[j]) => ~ Better(list[j], list[b], ws)
    BY <1>3, <1>4, <1>6
  <2>4. QED
    BY <1>3, <2>1, <2>2, <2>3 DEF IsBest
<1>7. CASE PassesGate(list[i]) /\ b = None
  <2>1. r = i
    BY <1>7 DEF BestWith
  <2>2. ~ Better(list[i], list[i], ws)
    BY <1>1, BetterIsOrder
  <2>3. \A j \in 1 .. i : PassesGate(list[j]) => ~ Better(list[j], list[i], ws)
    BY <1>2, <1>4, <1>7, <2>2
  <2>4. QED
    BY <1>5, <1>7, <2>1, <2>3 DEF IsBest
<1>8. CASE PassesGate(list[i]) /\ b # None /\ Better(list[i], list[b], ws)
  <2>1. r = i
    BY <1>8 DEF BestWith
  <2>2. ~ Better(list[i], list[i], ws)
    BY <1>1, BetterIsOrder
  <2>3. b \in 1 .. i - 1 /\ list[b] \in Candidate
    BY <1>1, <1>2, <1>5, <1>8
  <2>4. ASSUME NEW j \in 1 .. i - 1, PassesGate(list[j]), Better(list[j], list[i], ws)
        PROVE  FALSE
    <3>1. Better(list[j], list[b], ws)
      BY <1>1, <1>8, <2>3, <2>4, BetterIsOrder
    <3>2. QED
      BY <1>3, <1>8, <2>4, <3>1
  <2>5. QED
    BY <1>4, <1>5, <1>8, <2>1, <2>2, <2>4 DEF IsBest
<1>9. CASE PassesGate(list[i]) /\ b # None /\ ~ Better(list[i], list[b], ws)
  <2>1. r = b
    BY <1>9 DEF BestWith
  <2>2. \A j \in 1 .. i : PassesGate(list[j]) => ~ Better(list[j], list[b], ws)
    BY <1>3, <1>4, <1>9
  <2>3. b \in 1 .. i /\ PassesGate(list[b])
    BY <1>2, <1>3, <1>5, <1>9
  <2>4. QED
    BY <1>5, <2>1, <2>2, <2>3 DEF IsBest
<1>10. QED
  BY <1>6, <1>7, <1>8, <1>9

\* The function that BestOf computes exists, and after i turns of the loop it
\* has the best of i candidates.
LEMMA BestOfMeaning ==
  ASSUME NEW ws \in WeightTriple, NEW list \in Seq(Candidate)
  PROVE  IsBest(list, ws, BestOf(list, ws), Len(list))
<1> DEFINE n == Len(list)
           V == 0 .. n
           F == [i \in 1 .. n |-> [b \in V |-> BestWith(list, ws, b, i)]]
           g == CHOOSE g : g = [i \in 0 .. n |-> IF i = 0 THEN None
                                                 ELSE BestWith(list, ws, g[i - 1], i)]
<1>1. n \in Nat
  OBVIOUS
<1>2. F \in [1 .. n -> [V -> V]]
  <2>1. ASSUME NEW i \in 1 .. n, NEW b \in V PROVE BestWith(list, ws, b, i) \in V
    <3>1. BestWith(list, ws, b, i) = b \/ BestWith(list, ws, b, i) = i
      BY DEF BestWith
    <3>2. QED
      BY <1>1, <3>1
  <2>2. QED
    BY <2>1
<1>3. PICK f \in [0 .. n -> V] : f[0] = None /\ \A i \in 1 .. n : f[i] = F[i][f[i - 1]]
  <2>1. None \in V
    BY <1>1 DEF None
  <2> HIDE DEF F, n, V
  <2>2. \E f \in Iterations(n, V) : Iterates(f, n, None, F)
    BY <1>1, <1>2, <2>1, IterationExists
  <2>3. QED
    BY <2>2 DEF Iterates, Iterations, V
<1>4. ASSUME NEW i \in 1 .. n PROVE f[i] = BestWith(list, ws, f[i - 1], i)
  <2>1. f[i - 1] \in V
    BY <1>1
  <2>2. QED
    BY <1>3, <2>1
<1>5. f = [i \in 0 .. n |-> IF i = 0 THEN None ELSE BestWith(list, ws, f[i - 1], i)]
  BY <1>3, <1>4
<1>6. g = [i \in 0 .. n |-> IF i = 0 THEN None ELSE BestWith(list, ws, g[i - 1], i)]
  BY <1>5
<1>7. BestOf(list, ws) = g[n]
  BY DEF BestOf
<1> HIDE DEF g, F
<1>8. g[0] = None /\ \A i \in 1 .. n : g[i] = BestWith(list, ws, g[i - 1], i)
  <2>1. g[0] = None
    BY <1>1, <1>6
  <2>2. ASSUME NEW i \in 1 .. n PROVE g[i] = BestWith(list, ws, g[i - 1], i)
    BY <1>1, <1>6
  <2>3. QED
    BY <2>1, <2>2
<1>9. \A i \in 0 .. n : IsBest(list, ws, g[i], i)
  <2> DEFINE S == {i \in 0 .. n : IsBest(list, ws, g[i], i)}
  <2>1. 0 \in S
    <3>1. IsBest(list, ws, None, 0)
      BY DEF IsBest, None
    <3>2. QED
      BY <1>1, <1>8, <3>1
  <2>2. ASSUME NEW i \in 1 .. n, i - 1 \in S PROVE i \in S
    <3>1. IsBest(list, ws, g[i - 1], i - 1)
      BY <2>2
    <3>2. IsBest(list, ws, BestWith(list, ws, g[i - 1], i), i)
      BY <3>1, TurnKeepsBest
    <3>3. QED
      BY <1>1, <1>8, <3>2
  <2> HIDE DEF S
  <2>3. \A i \in 0 .. n : i \in S
    BY <1>1, <2>1, <2>2, StepwiseInduction
  <2>4. QED
    BY <2>3 DEF S
<1>10. QED
  BY <1>1, <1>7, <1>9

Gated(list) == {list[i] : i \in {k \in DOMAIN list : PassesGate(list[k])}}

\* a is in the set, and nothing in the set is better.
Tops(S, ws, a) == a \in S /\ \A c \in S : ~ Better(c, a, ws)

LEMMA ChosenMeaning ==
  ASSUME NEW ws \in WeightTriple, NEW list \in Seq(Candidate)
  PROVE  /\ Gated(list) \subseteq {c \in Candidate : PassesGate(c)}
         /\ Gated(list) = {} => Chosen(list, ws) = NoDesc
         /\ Gated(list) # {} => Tops(Gated(list), ws, Chosen(list, ws))
<1> DEFINE b == BestOf(list, ws)
           n == Len(list)
<1>1. n \in Nat /\ DOMAIN list = 1 .. n /\ \A j \in 1 .. n : list[j] \in Candidate
  BY LenProperties, ElementOfSeq
<1>2. IsBest(list, ws, b, n)
  BY BestOfMeaning
<1>3. Chosen(list, ws) = IF b = None THEN NoDesc ELSE list[b]
  BY DEF Chosen
<1> HIDE DEF b, n
<1>4. Gated(list) \subseteq {c \in Candidate : PassesGate(c)}
  BY <1>1 DEF Gated
<1>5. ASSUME Gated(list) = {} PROVE Chosen(list, ws) = NoDesc
  <2>1. \A j \in 1 .. n : ~ PassesGate(list[j])
    BY <1>1, <1>5 DEF Gated
  <2>2. QED
    BY <1>2, <1>3, <2>1 DEF IsBest
<1>6. ASSUME Gated(list) # {} PROVE Tops(Gated(list), ws, Chosen(list, ws))
  <2>1. \E j \in 1 .. n : PassesGate(list[j])
    BY <1>1, <1>6 DEF Gated
  <2>2. /\ b # None /\ b \in 1 .. n /\ PassesGate(list[b])
        /\ \A j \in 1 .. n : PassesGate(list[j]) => ~ Better(list[j], list[b], ws)
    BY <1>1, <1>2, <2>1 DEF IsBest, None
  <2>3. Chosen(list, ws) = list[b]
    BY <1>3, <2>2
  <2>4. QED
    BY <1>1, <2>2, <2>3 DEF Gated, Tops
<1>7. QED
  BY <1>4, <1>5, <1>6

\* Of two candidates at the top of a set, whatever else the set holds, one would
\* be better than the other if their identifiers differed.
LEMMA TopIsUnique ==
  ASSUME NEW ws \in WeightTriple, NEW S \in SUBSET Candidate,
         NEW a, Tops(S, ws, a), NEW b, Tops(S, ws, b)
  PROVE  a.id = b.id
<1>1. a \in S /\ b \in S /\ a \in Candidate /\ b \in Candidate
  BY DEF Tops
<1>2. ~ Better(a, b, ws) /\ ~ Better(b, a, ws)
  BY <1>1 DEF Tops
<1>3. QED
  BY <1>1, <1>2, BetterIsOrder

LEMMA FunctionsAreLists ==
  ASSUME NEW n \in Nat, NEW S, NEW f \in [1 .. n -> S]
  PROVE  f \in Seq(S) /\ DOMAIN f = 1 .. n
BY SeqDef

\* Exchanging two candidates of a list.
LEMMA OrderDoesNotMatter ==
  ASSUME NEW ws \in WeightTriple, nodes \in Seq(Candidates),
         NEW i \in DOMAIN nodes, NEW j \in DOMAIN nodes
  PROVE  Chosen(Exchanged(i, j), ws) = Chosen(nodes, ws)
<1> DEFINE n == Len(nodes)
           e == Exchanged(i, j)
<1>1. n \in Nat /\ DOMAIN nodes = 1 .. n /\ \A k \in 1 .. n : nodes[k] \in Candidates
  BY LenProperties, ElementOfSeq
<1>2. e \in [1 .. n -> Candidates] /\ e[i] = nodes[j] /\ e[j] = nodes[i]
      /\ \A k \in 1 .. n : k # i /\ k # j => e[k] = nodes[k]
  <2>1. nodes \in [1 .. n -> Candidates]
    BY <1>1
  <2> HIDE DEF n
  <2>2. QED
    BY <1>1, <2>1 DEF Exchanged
<1> HIDE DEF e, n
<1>3. e \in Seq(Candidates) /\ DOMAIN e = 1 .. n
  BY <1>1, <1>2, FunctionsAreLists
<1>4. Gated(e) = Gated(nodes)
  <2>1. ASSUME NEW k \in 1 .. n, PassesGate(e[k]) PROVE e[k] \in Gated(nodes)
    BY <1>1, <1>2, <2>1 DEF Gated
  <2>2. ASSUME NEW k \in 1 .. n, PassesGate(nodes[k]) PROVE nodes[k] \in Gated(e)
    <3>1. \E l \in 1 .. n : e[l] = nodes[k]
      BY <1>1, <1>2
    <3>2. QED
      BY <1>3, <2>2, <3>1 DEF Gated
  <2>3. Gated(e) \subseteq Gated(nodes)
    BY <1>3, <2>1 DEF Gated
  <2>4. Gated(nodes) \subseteq Gated(e)
    BY <1>1, <2>2 DEF Gated
  <2>5. QED
    BY <2>3, <2>4
<1>5. e \in Seq(Candidate) /\ nodes \in Seq(Candidate)
  <2>1. Candidates \subseteq Candidate
    BY CandidatesAssumption
  <2>2. QED
    BY <1>3, <2>1
<1>6. CASE Gated(nodes) = {}
  BY <1>4, <1>5, <1>6, ChosenMeaning DEF e
<1>7. CASE Gated(nodes) # {}
  <2> DEFINE a == Chosen(e, ws)
             b == Chosen(nodes, ws)
  <2>1. Tops(Gated(nodes), ws, a) /\ Tops(Gated(nodes), ws, b) /\ Gated(nodes) \in SUBSET Candidate
    BY <1>4, <1>5, <1>7, ChosenMeaning
  <2>2. Gated(nodes) \subseteq Candidates
    BY <1>1 DEF Gated
  <2> HIDE DEF a, b
  <2>3. a.id = b.id
    BY <2>1, TopIsUnique
  <2>4. a \in Candidates /\ b \in Candidates
    BY <2>1, <2>2 DEF Tops
  <2>5. a = b
    BY <2>3, <2>4, CandidatesAssumption
  <2>6. QED
    BY <2>5 DEF a, b, e
<1>8. QED
  BY <1>6, <1>7

\* The candidate with one more vote.
After(c, ballot) == [c EXCEPT !.votes = Cast(@, ballot)]

LEMMA AfterMeaning ==
  ASSUME NEW c \in Candidate, NEW ballot \in {"yes", "no"}
  PROVE  /\ After(c, ballot) \in Candidate
         /\ After(c, ballot).id = c.id /\ After(c, ballot).version = c.version
         /\ After(c, ballot).artifact = c.artifact
         /\ After(c, ballot).votes = Cast(c.votes, ballot)
         /\ PassesGate(After(c, ballot)) = PassesGate(c)
<1>1. Cast(c.votes, ballot) \in Votes
  <2>1. c.votes \in Votes
    BY DEF Candidate
  <2>2. Cast(c.votes, "yes") \in Votes /\ Cast(c.votes, "no") \in Votes
    BY <2>1, CastMeaning DEF Endorsed, Rejected
  <2>3. QED
    BY <2>2
<1>2. After(c, ballot).export = c.export
  BY DEF After, Candidate
<1>3. PassesGate(After(c, ballot)) = PassesGate(c)
  BY <1>2 DEF PassesGate
<1>4. QED
  BY <1>1, <1>3 DEF After, Candidate

LEMMA VotedMeaning ==
  ASSUME nodes \in Seq(Candidates), NEW c \in Gated(nodes), NEW ballot \in {"yes", "no"}
  PROVE  /\ Voted(c, ballot) \in Seq(Candidate)
         /\ Gated(Voted(c, ballot)) = (Gated(nodes) \ {c}) \union {After(c, ballot)}
<1> DEFINE n == Len(nodes)
           v == Voted(c, ballot)
           d == After(c, ballot)
<1>1. n \in Nat /\ DOMAIN nodes = 1 .. n /\ \A k \in 1 .. n : nodes[k] \in Candidate
  <2>1. n \in Nat /\ DOMAIN nodes = 1 .. n /\ \A k \in 1 .. n : nodes[k] \in Candidates
    BY LenProperties, ElementOfSeq
  <2>2. QED
    BY <2>1, CandidatesAssumption
<1>2. c \in Candidate /\ PassesGate(c)
  BY <1>1 DEF Gated
<1>3. d \in Candidate /\ PassesGate(d)
  BY <1>2, AfterMeaning
<1>4. v = [i \in DOMAIN nodes |-> IF nodes[i] = c THEN d ELSE nodes[i]]
  BY DEF Voted, After
<1> HIDE DEF n, v, d
<1>5. v \in [1 .. n -> Candidate]
  BY <1>1, <1>3, <1>4
<1>6. v \in Seq(Candidate) /\ DOMAIN v = 1 .. n
  BY <1>1, <1>5, FunctionsAreLists
<1>7. \A k \in 1 .. n : v[k] = IF nodes[k] = c THEN d ELSE nodes[k]
  BY <1>1, <1>4
<1>8. Gated(v) \subseteq (Gated(nodes) \ {c}) \union {d}
  BY <1>1, <1>6, <1>7 DEF Gated
<1>9. Gated(nodes) \ {c} \subseteq Gated(v)
  <2>1. ASSUME NEW k \in 1 .. n, PassesGate(nodes[k]), nodes[k] # c PROVE nodes[k] \in Gated(v)
    BY <1>6, <1>7, <2>1 DEF Gated
  <2>2. QED
    BY <1>1, <2>1 DEF Gated
<1>10. d \in Gated(v)
  <2>1. PICK k \in 1 .. n : nodes[k] = c
    BY <1>1 DEF Gated
  <2>2. v[k] = d
    BY <1>7, <2>1
  <2>3. QED
    BY <1>3, <1>6, <2>2 DEF Gated
<1>11. QED
  BY <1>6, <1>8, <1>9, <1>10 DEF v, d

LEMMA OneMoreEndorsement ==
  ASSUME NEW ws \in WeightTriple, nodes \in Seq(Candidates),
         NEW win, Tops(Gated(nodes), ws, win)
  PROVE  Chosen(Voted(win, "yes"), ws).id = win.id
<1> DEFINE v == Voted(win, "yes")
           d == After(win, "yes")
           e == Chosen(v, ws)
<1>1. win \in Gated(nodes) /\ \A c \in Gated(nodes) : ~ Better(c, win, ws)
  BY DEF Tops
<1>2. v \in Seq(Candidate) /\ Gated(v) = (Gated(nodes) \ {win}) \union {d}
  BY <1>1, VotedMeaning
<1>3. Gated(nodes) \subseteq Candidates
  <2>1. \A k \in DOMAIN nodes : nodes[k] \in Candidates
    BY LenProperties, ElementOfSeq
  <2>2. QED
    BY <2>1 DEF Gated
<1>4. win \in Candidate
  BY <1>1, <1>3, CandidatesAssumption
<1>5. d \in Candidate /\ d.id = win.id /\ Score(win, ws) <= Score(d, ws) /\ d.version = win.version
  <2>1. /\ d \in Candidate /\ d.id = win.id /\ d.version = win.version
        /\ d.artifact = win.artifact /\ d.votes = Endorsed(win.votes)
    BY <1>4, AfterMeaning DEF Endorsed
  <2>2. win.votes \in Votes
    BY <1>4 DEF Candidate
  <2>3. ConsensusScore(win.votes) <= ConsensusScore(d.votes)
    BY <2>1, <2>2, VotesCount
  <2> HIDE DEF d
  <2>4. QED
    BY <1>4, <2>1, <2>3, ScoreMeaning
<1>6. Tops(Gated(v), ws, e)
  BY <1>2, ChosenMeaning
<1> HIDE DEF v, d, e
<1>7. e \in Gated(v) /\ ~ Better(d, e, ws)
  BY <1>2, <1>6 DEF Tops
<1>8. ASSUME e # d PROVE FALSE
  <2>1. e \in Gated(nodes) /\ e # win
    BY <1>2, <1>7, <1>8
  <2>2. e \in Candidate /\ e.id # win.id
    BY <1>1, <1>3, <2>1, CandidatesAssumption
  <2>3. Better(win, e, ws)
    BY <1>1, <1>4, <2>1, <2>2, BetterIsOrder
  <2>4. Better(d, e, ws)
    BY <1>4, <1>5, <2>2, <2>3, HigherScore
  <2>5. QED
    BY <1>7, <2>4
<1>9. QED
  BY <1>5, <1>8 DEF e, v

LEMMA OneMoreRejection ==
  ASSUME NEW ws \in WeightTriple, nodes \in Seq(Candidates),
         NEW win, Tops(Gated(nodes), ws, win), NEW c \in Gated(nodes), c # win
  PROVE  Chosen(Voted(c, "no"), ws).id = win.id
<1> DEFINE v == Voted(c, "no")
           d == After(c, "no")
           e == Chosen(v, ws)
<1>1. win \in Gated(nodes) /\ \A x \in Gated(nodes) : ~ Better(x, win, ws)
  BY DEF Tops
<1>2. v \in Seq(Candidate) /\ Gated(v) = (Gated(nodes) \ {c}) \union {d}
  BY VotedMeaning
<1>3. Gated(nodes) \subseteq Candidates
  <2>1. \A k \in DOMAIN nodes : nodes[k] \in Candidates
    BY LenProperties, ElementOfSeq
  <2>2. QED
    BY <2>1 DEF Gated
<1>4. /\ win \in Candidate /\ c \in Candidate
      /\ \A x \in Gated(nodes) : x # win => x \in Candidate /\ x.id # win.id
  BY <1>1, <1>3, CandidatesAssumption
<1>5. d \in Candidate /\ d.id = c.id /\ Score(d, ws) <= Score(c, ws) /\ d.version = c.version
  <2>1. /\ d \in Candidate /\ d.id = c.id /\ d.version = c.version
        /\ d.artifact = c.artifact /\ d.votes = Rejected(c.votes)
    BY <1>4, AfterMeaning DEF Rejected
  <2>2. c.votes \in Votes
    BY <1>4 DEF Candidate
  <2>3. ConsensusScore(d.votes) <= ConsensusScore(c.votes)
    BY <2>1, <2>2, VotesCount
  <2> HIDE DEF d
  <2>4. QED
    BY <1>4, <2>1, <2>3, ScoreMeaning
<1>6. Tops(Gated(v), ws, e)
  BY <1>2, ChosenMeaning
<1> HIDE DEF v, d, e
<1>7. e \in Gated(v) /\ ~ Better(win, e, ws)
  BY <1>1, <1>2, <1>6 DEF Tops
<1>8. ASSUME NEW x \in Gated(nodes), x # win PROVE Better(win, x, ws)
  BY <1>1, <1>4, <1>8, BetterIsOrder
<1>9. e # d
  <2>1. Better(win, c, ws)
    BY <1>8
  <2>2. Better(win, d, ws)
    BY <1>4, <1>5, <2>1, HigherScore
  <2>3. QED
    BY <1>7, <2>2
<1>10. e = win
  BY <1>2, <1>7, <1>8, <1>9
<1>11. QED
  BY <1>10 DEF e, v

LEMMA ListsHaveABest ==
  ASSUME nodes \in Seq(Candidates)
  PROVE  WinnerIsTheBest
<1> DEFINE gated == {nodes[i] : i \in {k \in DOMAIN nodes : PassesGate(nodes[k])}}
<1>1. gated = Gated(nodes)
  BY DEF Gated
<1>2. SUFFICES ASSUME NEW w \in Summable
      PROVE  /\ \A i, j \in DOMAIN nodes : Chosen(Exchanged(i, j), w) = Chosen(nodes, w)
             /\ gated = {} => Chosen(nodes, w) = NoDesc
             /\ gated # {} =>
                  /\ Chosen(nodes, w) \in gated
                  /\ ~ \E c \in gated : Better(c, Chosen(nodes, w), w)
                  /\ Chosen(Voted(Chosen(nodes, w), "yes"), w).id = Chosen(nodes, w).id
                  /\ \A c \in gated \ {Chosen(nodes, w)} :
                       Chosen(Voted(c, "no"), w).id = Chosen(nodes, w).id
  BY DEF WinnerIsTheBest
<1>3. w \in WeightTriple
  BY WalksAssumption DEF Summable
<1>4. nodes \in Seq(Candidate)
  BY CandidatesAssumption
<1> HIDE DEF gated
<1>5. \A i, j \in DOMAIN nodes : Chosen(Exchanged(i, j), w) = Chosen(nodes, w)
  BY <1>3, OrderDoesNotMatter
<1>6. gated = {} => Chosen(nodes, w) = NoDesc
  BY <1>1, <1>3, <1>4, ChosenMeaning
<1>7. ASSUME gated # {}
      PROVE  /\ Chosen(nodes, w) \in gated
             /\ ~ \E c \in gated : Better(c, Chosen(nodes, w), w)
             /\ Chosen(Voted(Chosen(nodes, w), "yes"), w).id = Chosen(nodes, w).id
             /\ \A c \in gated \ {Chosen(nodes, w)} :
                  Chosen(Voted(c, "no"), w).id = Chosen(nodes, w).id
  <2> DEFINE win == Chosen(nodes, w)
  <2>1. Tops(Gated(nodes), w, win)
    BY <1>1, <1>3, <1>4, <1>7, ChosenMeaning
  <2> HIDE DEF win
  <2>2. win \in gated /\ ~ \E c \in gated : Better(c, win, w)
    BY <1>1, <2>1 DEF Tops
  <2>3. Chosen(Voted(win, "yes"), w).id = win.id
    BY <1>3, <2>1, OneMoreEndorsement
  <2>4. \A c \in gated \ {win} : Chosen(Voted(c, "no"), w).id = win.id
    BY <1>1, <1>3, <2>1, OneMoreRejection
  <2>5. QED
    BY <2>2, <2>3, <2>4 DEF win
<1>8. QED
  BY <1>5, <1>6, <1>7

-----------------------------------------------------------------------------
(* The graph and the walk                                                  *)

\* Edges lead from nodes to nodes.
GraphShape ==
  /\ nodes \in Seq(Candidates) /\ weights \in WeightTriple
  /\ children \in Seq(Seq(Nat)) /\ Len(children) = Len(nodes)
  /\ \A n \in DOMAIN nodes : \A k \in DOMAIN children[n] : children[n][k] \in DOMAIN nodes

\* The node n is a child of m that passes the gate.
Leads(m, n) == PassesGate(nodes[n]) /\ \E k \in DOMAIN children[m] : children[m][k] = n

\* A walk that is under way stands on a child of the node it wrote last.
WalkShape ==
  /\ walked \in Seq(DOMAIN nodes)
  /\ mode = "build" => walked = <<>>
  /\ mode = "walk" /\ walked # <<>> => cur \in DOMAIN nodes /\ Leads(walked[Len(walked)], cur)

GraphInv == GraphShape /\ WalkShape /\ WalkIsAPath

LEMMA ShapeMeaning ==
  ASSUME GraphShape
  PROVE  /\ Len(nodes) \in Nat /\ DOMAIN nodes = 1 .. Len(nodes)
         /\ DOMAIN children = DOMAIN nodes
         /\ \A n \in DOMAIN nodes : children[n] \in Seq(Nat)
BY LenProperties, ElementOfSeq DEF GraphShape

\* No path is one.
LEMMA NothingWalked == walked = <<>> => WalkIsAPath
BY DEF WalkIsAPath

LEMMA InitGraph == GraphInit => GraphInv
<1> SUFFICES ASSUME GraphInit PROVE GraphInv
  OBVIOUS
<1>1. nodes = <<>> /\ children = <<>> /\ walked = <<>> /\ weights = DefaultWeights /\ mode = "build"
  BY DEF GraphInit, GraphEmpty
<1>2. weights \in WeightTriple
  BY <1>1 DEF WeightTriple, DefaultWeights
<1>3. GraphShape
  BY <1>1, <1>2 DEF GraphShape
<1>4. WalkShape
  BY <1>1 DEF WalkShape
<1>5. QED
  BY <1>1, <1>3, <1>4, NothingWalked DEF GraphInv

LEMMA AddKeepsGraph ==
  ASSUME GraphInv, NEW c \in Candidates, Add(c)
  PROVE  GraphInv'
<1>1. /\ mode = "build" /\ mode' = mode /\ walked' = walked /\ weights' = weights
      /\ nodes' = Append(nodes, c) /\ children' = Append(children, <<>>)
  BY DEF Add
<1>2. walked' = <<>>
  BY <1>1 DEF GraphInv, WalkShape
<1>3. GraphShape'
  <2>1. nodes \in Seq(Candidates) /\ children \in Seq(Seq(Nat)) /\ Len(children) = Len(nodes)
    BY DEF GraphInv, GraphShape
  <2>2. nodes' \in Seq(Candidates) /\ Len(nodes') = Len(nodes) + 1
    BY <1>1, <2>1, AppendProperties
  <2>3. /\ children' \in Seq(Seq(Nat)) /\ Len(children') = Len(children) + 1
        /\ children'[Len(children) + 1] = <<>>
        /\ \A n \in 1 .. Len(children) : children'[n] = children[n]
    <3>1. <<>> \in Seq(Nat)
      OBVIOUS
    <3>2. QED
      BY <1>1, <2>1, <3>1, AppendProperties
  <2>4. DOMAIN nodes = 1 .. Len(nodes) /\ DOMAIN nodes' = 1 .. Len(nodes) + 1 /\ Len(nodes) \in Nat
    BY <2>1, <2>2, LenProperties
  <2>5. ASSUME NEW n \in DOMAIN nodes', NEW k \in DOMAIN children'[n]
        PROVE  children'[n][k] \in DOMAIN nodes'
    <3>1. n # Len(nodes) + 1
      BY <2>1, <2>3, <2>5
    <3>a. n \in 1 .. Len(nodes)
      BY <2>4, <3>1
    <3>b. children'[n] = children[n]
      BY <2>1, <2>3, <3>a
    <3>2. n \in DOMAIN nodes /\ children'[n] = children[n]
      BY <2>4, <3>a, <3>b
    <3>3. children[n][k] \in DOMAIN nodes
      BY <2>5, <3>2 DEF GraphInv, GraphShape
    <3>4. QED
      BY <2>4, <3>2, <3>3
  <2>6. weights' \in WeightTriple
    BY <1>1 DEF GraphInv, GraphShape
  <2>7. QED
    BY <2>1, <2>2, <2>3, <2>5, <2>6 DEF GraphShape
<1>4. WalkShape'
  BY <1>1, <1>2 DEF WalkShape
<1>5. WalkIsAPath'
  BY <1>2 DEF WalkIsAPath
<1>6. QED
  BY <1>3, <1>4, <1>5 DEF GraphInv

LEMMA EdgeKeepsGraph ==
  ASSUME GraphInv, NEW from, NEW to, Edge(from, to)
  PROVE  GraphInv'
<1>1. /\ mode = "build" /\ mode' = mode /\ walked' = walked /\ weights' = weights
      /\ nodes' = nodes /\ from \in DOMAIN nodes /\ to \in DOMAIN nodes
      /\ children' = [children EXCEPT ![from] = Append(children[from], to)]
  BY DEF Edge
<1>2. walked' = <<>>
  BY <1>1 DEF GraphInv, WalkShape
<1>3. GraphShape'
  <2>1. /\ Len(nodes) \in Nat /\ DOMAIN nodes = 1 .. Len(nodes) /\ DOMAIN children = DOMAIN nodes
        /\ \A n \in DOMAIN nodes : children[n] \in Seq(Nat)
    BY ShapeMeaning DEF GraphInv
  <2>2. \A n \in DOMAIN nodes : \A k \in DOMAIN children[n] : children[n][k] \in DOMAIN nodes
    BY DEF GraphInv, GraphShape
  <2>3. PICK l : l = Append(children[from], to)
    OBVIOUS
  <2>4. l \in Seq(Nat) /\ \A k \in DOMAIN l : l[k] \in DOMAIN nodes
    <3>1. children[from] \in Seq(Nat) /\ to \in Nat
      BY <1>1, <2>1
    <3>2. /\ l \in Seq(Nat) /\ Len(l) = Len(children[from]) + 1
          /\ l[Len(children[from]) + 1] = to
          /\ \A k \in 1 .. Len(children[from]) : l[k] = children[from][k]
      BY <2>3, <3>1, AppendProperties
    <3>3. /\ DOMAIN l = 1 .. Len(children[from]) + 1 /\ Len(children[from]) \in Nat
          /\ DOMAIN children[from] = 1 .. Len(children[from])
      BY <3>1, <3>2, LenProperties
    <3>4. QED
      BY <1>1, <2>2, <3>2, <3>3
  <2>5. children' = [children EXCEPT ![from] = l]
    BY <1>1, <2>3
  <2>6. /\ children' \in [1 .. Len(nodes) -> Seq(Nat)]
        /\ \A n \in DOMAIN nodes : children'[n] = IF n = from THEN l ELSE children[n]
    <3>1. children \in [1 .. Len(nodes) -> Seq(Nat)]
      <4>1. children \in Seq(Seq(Nat))
        BY DEF GraphInv, GraphShape
      <4>2. children = [n \in DOMAIN children |-> children[n]]
        BY <4>1
      <4>3. QED
        BY <2>1, <4>2
    <3>2. QED
      BY <2>1, <2>4, <2>5, <3>1
  <2>7. children' \in Seq(Seq(Nat)) /\ DOMAIN children' = 1 .. Len(nodes)
    BY <2>1, <2>6, FunctionsAreLists
  <2>8. Len(children') = Len(nodes)
    BY <2>1, <2>7, LenProperties
  <2>9. ASSUME NEW n \in DOMAIN nodes, NEW k \in DOMAIN children'[n]
        PROVE  children'[n][k] \in DOMAIN nodes
    BY <2>2, <2>4, <2>6, <2>9
  <2>10. nodes' \in Seq(Candidates) /\ weights' \in WeightTriple
    BY <1>1 DEF GraphInv, GraphShape
  <2>11. QED
    BY <1>1, <2>7, <2>8, <2>9, <2>10 DEF GraphShape
<1>4. WalkShape'
  BY <1>1, <1>2 DEF WalkShape
<1>5. WalkIsAPath'
  BY <1>2 DEF WalkIsAPath
<1>6. QED
  BY <1>3, <1>4, <1>5 DEF GraphInv

LEMMA StartKeepsGraph ==
  ASSUME GraphInv, NEW start, NEW w \in WeightSets, NEW len, StartWalk(start, w, len)
  PROVE  GraphInv'
<1>1. /\ mode' = "walk" /\ weights' = w /\ nodes' = nodes /\ children' = children
      /\ walked' = <<>>
  BY DEF StartWalk, GraphInv, WalkShape
<1>2. GraphShape'
  BY <1>1, WalksAssumption DEF GraphInv, GraphShape
<1>3. WalkShape'
  BY <1>1 DEF WalkShape
<1>4. WalkIsAPath'
  BY <1>1 DEF WalkIsAPath
<1>5. QED
  BY <1>2, <1>3, <1>4 DEF GraphInv

\* The best child is a child that passes the gate, and there is one unless every
\* child fails it.
LEMMA BestChildMeaning ==
  ASSUME GraphShape, NEW n \in DOMAIN nodes
  PROVE  /\ BestChild(n) = None =>
              \A k \in DOMAIN children[n] : ~ PassesGate(nodes[children[n][k]])
         /\ BestChild(n) # None =>
              /\ BestChild(n) \in DOMAIN children[n]
              /\ PassesGate(nodes[children[n][BestChild(n)]])
<1> DEFINE list == ChildList(n)
           b == BestChild(n)
<1>1. children[n] \in Seq(Nat)
  BY ShapeMeaning
<1>2. \A k \in DOMAIN children[n] : nodes[children[n][k]] \in Candidate
  <2>1. \A k \in DOMAIN nodes : nodes[k] \in Candidates
    <3>1. nodes \in Seq(Candidates)
      BY DEF GraphShape
    <3>2. QED
      BY <3>1, ElementOfSeq, LenProperties
  <2>2. QED
    BY <2>1, CandidatesAssumption DEF GraphShape
<1>3. PICK len \in Nat : DOMAIN children[n] = 1 .. len
  BY <1>1, LenProperties
<1>4. /\ list \in Seq(Candidate) /\ DOMAIN list = 1 .. len
      /\ \A k \in 1 .. len : list[k] = nodes[children[n][k]]
  <2>1. list \in [1 .. len -> Candidate]
    BY <1>2, <1>3 DEF ChildList
  <2>2. \A k \in 1 .. len : list[k] = nodes[children[n][k]]
    BY <1>3 DEF ChildList
  <2> HIDE DEF list
  <2>3. QED
    BY <2>1, <2>2, FunctionsAreLists
<1>5. Len(list) = len
  <2> HIDE DEF list
  <2>1. QED
    BY <1>3, <1>4, LenProperties
<1>6. IsBest(list, weights, b, len)
  <2>1. weights \in WeightTriple
    BY DEF GraphShape
  <2>2. b = BestOf(list, weights)
    BY DEF BestChild
  <2> HIDE DEF list, b
  <2>3. QED
    BY <1>4, <1>5, <2>1, <2>2, BestOfMeaning
<1> HIDE DEF list
<1>7. b = None => \A k \in DOMAIN children[n] : ~ PassesGate(nodes[children[n][k]])
  BY <1>3, <1>4, <1>6 DEF IsBest
<1>8. b # None => b \in 1 .. len /\ PassesGate(list[b])
  BY <1>6 DEF IsBest, None
<1>9. QED
  BY <1>3, <1>4, <1>7, <1>8

LEMMA WalkOnKeepsGraph ==
  ASSUME GraphInv, WalkOn
  PROVE  GraphInv'
<1>1. /\ mode = "walk" /\ cur \in DOMAIN nodes /\ cur \notin Visited
      /\ walked' = Append(walked, cur)
      /\ nodes' = nodes /\ children' = children /\ weights' = weights
  BY DEF WalkOn
<1>2. GraphShape /\ walked \in Seq(DOMAIN nodes)
  BY DEF GraphInv, WalkShape
<1>3. GraphShape'
  BY <1>1, <1>2 DEF GraphShape
<1> DEFINE n == Len(walked)
<1>4. n \in Nat /\ DOMAIN walked = 1 .. n
  BY <1>2, LenProperties
<1>5. /\ walked' \in Seq(DOMAIN nodes) /\ Len(walked') = n + 1
      /\ walked'[n + 1] = cur /\ \A i \in 1 .. n : walked'[i] = walked[i]
  BY <1>1, <1>2, AppendProperties
<1>6. DOMAIN walked' = 1 .. n + 1
  BY <1>5, LenProperties
<1>7. \/ mode' = "panic"
      \/ mode' = "done" /\ BestChild(cur) = None
      \/ mode' = "walk" /\ BestChild(cur) # None /\ cur' = children[cur][BestChild(cur)]
  BY <1>1 DEF WalkOn
<1> HIDE DEF n
<1>8. WalkShape'
  <2>1. walked' \in Seq(DOMAIN nodes')
    BY <1>1, <1>5
  <2>2. mode' # "build"
    BY <1>7
  <2>3. ASSUME mode' = "walk"
        PROVE  cur' \in DOMAIN nodes' /\ Leads(walked[Len(walked)], cur)'
    <3>1. BestChild(cur) # None /\ cur' = children[cur][BestChild(cur)]
      BY <1>7, <2>3
    <3>2. BestChild(cur) \in DOMAIN children[cur] /\ PassesGate(nodes[cur'])
      BY <1>1, <1>2, <3>1, BestChildMeaning
    <3>3. cur' \in DOMAIN nodes
      BY <1>1, <1>2, <3>1, <3>2 DEF GraphShape
    <3>4. walked'[Len(walked')] = cur
      BY <1>5
    <3>5. PassesGate(nodes[cur])'
      BY <1>1, <3>2 DEF PassesGate
    <3>6. \E k \in DOMAIN children'[cur] : children'[cur][k] = cur'
      BY <1>1, <3>1, <3>2
    <3>7. QED
      BY <1>1, <3>3, <3>4, <3>5, <3>6 DEF Leads
  <2>4. QED
    BY <2>1, <2>2, <2>3 DEF WalkShape
<1>9. \A i, j \in DOMAIN walked' : walked'[i] = walked'[j] => i = j
  <2>1. \A i, j \in DOMAIN walked : walked[i] = walked[j] => i = j
    BY DEF GraphInv, WalkIsAPath
  <2>2. \A i \in 1 .. n : walked[i] # cur
    BY <1>1, <1>4 DEF Visited
  <2>3. \A i \in 1 .. n + 1 : i \in 1 .. n \/ i = n + 1
    BY <1>4
  <2>4. QED
    BY <1>4, <1>5, <1>6, <2>1, <2>2, <2>3
<1>10. ASSUME NEW i \in DOMAIN walked', i > 1
       PROVE  /\ PassesGate(nodes[walked[i]])'
              /\ \E k \in DOMAIN children'[walked'[i - 1]] :
                   children'[walked'[i - 1]][k] = walked'[i]
  <2>1. i - 1 \in 1 .. n /\ walked'[i - 1] = walked[i - 1]
    BY <1>4, <1>5, <1>6, <1>10
  <2>2. CASE i \in 1 .. n
    <3>1. /\ PassesGate(nodes[walked[i]])
          /\ \E k \in DOMAIN children[walked[i - 1]] : children[walked[i - 1]][k] = walked[i]
      BY <1>4, <1>10, <2>2 DEF GraphInv, WalkIsAPath
    <3>2. walked'[i] = walked[i]
      BY <1>5, <2>2
    <3>3. nodes'[walked'[i]] = nodes[walked[i]]
      BY <1>1, <3>2
    <3>4. PassesGate(nodes[walked[i]])'
      BY <3>1, <3>3 DEF PassesGate
    <3>5. QED
      BY <1>1, <2>1, <3>1, <3>2, <3>4
  <2>3. CASE i = n + 1
    <3>1. walked # <<>> /\ walked[Len(walked)] = walked[i - 1]
      BY <1>4, <2>1, <2>3 DEF n
    <3>2. Leads(walked[i - 1], cur)
      BY <1>1, <3>1 DEF GraphInv, WalkShape
    <3>3. walked'[i] = cur
      BY <1>5, <2>3
    <3>4. nodes'[walked'[i]] = nodes[cur]
      BY <1>1, <3>3
    <3>5. PassesGate(nodes[walked[i]])'
      BY <3>2, <3>4 DEF Leads, PassesGate
    <3>6. QED
      BY <1>1, <2>1, <3>2, <3>3, <3>5 DEF Leads
  <2>4. QED
    BY <1>4, <1>6, <2>2, <2>3
<1>11. mode' = "done" =>
         ~ \E k \in DOMAIN children'[walked'[Len(walked')]] :
             PassesGate(nodes[children[walked[Len(walked)]][k]])'
  <2>1. SUFFICES ASSUME mode' = "done", NEW k \in DOMAIN children'[walked'[Len(walked')]]
                 PROVE  ~ PassesGate(nodes[children[walked[Len(walked)]][k]])'
    OBVIOUS
  <2>2. walked'[Len(walked')] = cur
    BY <1>5
  <2>3. ~ PassesGate(nodes[children[cur][k]])
    BY <1>1, <1>2, <1>7, <2>1, <2>2, BestChildMeaning
  <2>4. nodes'[children'[walked'[Len(walked')]][k]] = nodes[children[cur][k]]
    BY <1>1, <2>2
  <2>5. QED
    BY <2>3, <2>4 DEF PassesGate
<1>12. WalkIsAPath'
  BY <1>9, <1>10, <1>11 DEF WalkIsAPath
<1>13. QED
  BY <1>3, <1>8, <1>12 DEF GraphInv

LEMMA StopKeepsGraph ==
  ASSUME GraphInv, WalkStops
  PROVE  GraphInv'
<1>1. /\ mode = "walk" /\ mode' = "done"
      /\ nodes' = nodes /\ children' = children /\ weights' = weights
      /\ walked' = walked /\ cur' = cur /\ room' = room
      /\ Len(walked) = room \/ cur \notin DOMAIN nodes \/ cur \in Visited
  BY DEF WalkStops
<1>2. GraphShape'
  BY <1>1 DEF GraphInv, GraphShape
<1>3. WalkShape'
  BY <1>1 DEF GraphInv, WalkShape
<1>4. WalkIsAPath'
  <2> DEFINE last == walked[Len(walked)]
  <2>1. /\ \A i, j \in DOMAIN walked : walked[i] = walked[j] => i = j
        /\ \A i \in DOMAIN walked : i > 1 =>
             /\ PassesGate(nodes[walked[i]])
             /\ \E k \in DOMAIN children[walked[i - 1]] : children[walked[i - 1]][k] = walked[i]
    BY DEF GraphInv, WalkIsAPath
  <2>2. walked # <<>> /\ Len(walked) < room =>
          \E k \in DOMAIN children[last] : children[last][k] \in Visited
    <3>1. SUFFICES ASSUME walked # <<>>, Len(walked) < room
                   PROVE  \E k \in DOMAIN children[last] : children[last][k] \in Visited
      OBVIOUS
    <3>2. cur \in DOMAIN nodes /\ \E k \in DOMAIN children[last] : children[last][k] = cur
      BY <1>1, <3>1 DEF GraphInv, WalkShape, Leads
    <3>3. Len(walked) \in Nat
      BY LenProperties DEF GraphInv, WalkShape
    <3>4. Len(walked) # room
      BY <3>1, <3>3
    <3>5. QED
      BY <1>1, <3>2, <3>4
  <2>3. ASSUME NEW n PROVE PassesGate(nodes[n])' <=> PassesGate(nodes[n])
    BY <1>1 DEF PassesGate
  <2>4. Visited' = Visited
    BY <1>1 DEF Visited
  <2>5. QED
    BY <1>1, <2>1, <2>2, <2>3, <2>4 DEF WalkIsAPath
<1>5. QED
  BY <1>2, <1>3, <1>4 DEF GraphInv

LEMMA StutterKeepsGraph ==
  ASSUME GraphInv, UNCHANGED graphVars
  PROVE  GraphInv'
<1>1. /\ nodes' = nodes /\ children' = children /\ weights' = weights /\ mode' = mode
      /\ cur' = cur /\ walked' = walked /\ room' = room
  BY DEF graphVars
<1>2. GraphShape'
  BY <1>1 DEF GraphInv, GraphShape
<1>3. ASSUME NEW n PROVE PassesGate(nodes[n])' <=> PassesGate(nodes[n])
  BY <1>1 DEF PassesGate
<1>4. WalkShape'
  BY <1>1 DEF GraphInv, WalkShape, Leads, PassesGate
<1>5. Visited' = Visited
  BY <1>1 DEF Visited
<1>6. WalkIsAPath'
  BY <1>1, <1>3, <1>5 DEF GraphInv, WalkIsAPath
<1>7. QED
  BY <1>2, <1>4, <1>6 DEF GraphInv

LEMMA StepGraph == GraphInv /\ [GraphNext]_graphVars => GraphInv'
<1> SUFFICES ASSUME GraphInv, [GraphNext]_graphVars PROVE GraphInv'
  OBVIOUS
<1>1. ASSUME NEW c \in Candidates, Add(c) PROVE GraphInv'
  BY <1>1, AddKeepsGraph
<1>2. ASSUME NEW from, NEW to, Edge(from, to) PROVE GraphInv'
  BY <1>2, EdgeKeepsGraph
<1>3. ASSUME NEW start, NEW w \in WeightSets, NEW len, StartWalk(start, w, len) PROVE GraphInv'
  BY <1>3, StartKeepsGraph
<1>4. CASE WalkOn
  BY <1>4, WalkOnKeepsGraph
<1>5. CASE WalkStops
  BY <1>5, StopKeepsGraph
<1>6. CASE UNCHANGED graphVars
  BY <1>6, StutterKeepsGraph
<1>7. QED
  BY <1>1, <1>2, <1>3, <1>4, <1>5, <1>6 DEF GraphNext

LEMMA GraphInvHolds == GraphSpec => []GraphInv
BY InitGraph, StepGraph, PTL DEF GraphSpec

\* best_path, whatever the graph, cycles and nodes that fail the gate included,
\* enters no node twice, follows edges, enters gated nodes only, and stops early
\* only where it must.
THEOREM WalksArePaths == GraphSpec => []WalkIsAPath
<1>1. GraphInv => WalkIsAPath
  BY DEF GraphInv
<1>2. QED
  BY <1>1, GraphInvHolds, PTL

\* select chooses by the candidates, never by their order; it chooses the best of
\* those that pass the gate; and one more vote moves the choice its own way only.
THEOREM WinnersAreTheBest == GraphSpec => []WinnerIsTheBest
<1>1. GraphInv => WinnerIsTheBest
  BY ListsHaveABest DEF GraphInv, GraphShape
<1>2. QED
  BY <1>1, GraphInvHolds, PTL

-----------------------------------------------------------------------------
(* Version texts                                                           *)

LEMMA SixteenBits ==
  ASSUME NEW n PROVE n \in U16 <=> n \in Nat /\ n <= 65535
<1> DEFINE max == 65535
<1>1. max \in Nat
  OBVIOUS
<1>2. U16 = 0 .. max
  BY DEF U16
<1> HIDE DEF max
<1>3. n \in U16 <=> n \in Nat /\ n <= max
  BY <1>1, <1>2
<1>4. QED
  BY <1>3 DEF max

LEMMA NumbersMeaning ==
  ASSUME NEW word
  PROVE  /\ word \in DOMAIN Numerals =>
              /\ word # ""
              /\ RustNumerals[word] = Numerals[word]
              /\ Numerals[word] \in Nat /\ Len(word) \in Nat
         /\ RustReadsU16(word) =>
              /\ word \in DOMAIN Numerals \/ word \in DOMAIN Signed
              /\ RustNumerals[word] \in U16
         /\ ReadsU16(word) <=>
              word \in DOMAIN Numerals /\ Len(word) <= 5 /\ RustReadsU16(word)
<1>1. word \in DOMAIN Numerals => RustNumerals[word] = Numerals[word]
  BY DEF RustNumerals
<1>2. word \in DOMAIN Numerals => word # "" /\ Numerals[word] \in Nat /\ Len(word) \in Nat
  BY TextsAssumption DEF NumeralsAssumption
<1>3. word \in DOMAIN Signed => Signed[word] \in Nat
  BY TextsAssumption DEF NumeralsAssumption
<1>4. word \in DOMAIN RustNumerals =>
        /\ word \in DOMAIN Numerals \/ word \in DOMAIN Signed
        /\ RustNumerals[word] \in Nat
  <2>1. word \in DOMAIN RustNumerals <=> word \in DOMAIN Numerals \/ word \in DOMAIN Signed
    BY DEF RustNumerals
  <2>2. word \in DOMAIN RustNumerals /\ word \notin DOMAIN Numerals => RustNumerals[word] = Signed[word]
    BY DEF RustNumerals
  <2>3. QED
    BY <1>1, <1>2, <1>3, <2>1, <2>2
<1>5. word \in DOMAIN Numerals => word \in DOMAIN RustNumerals
  BY DEF RustNumerals
<1>6. RustReadsU16(word) => RustNumerals[word] \in U16
  BY <1>4, SixteenBits DEF RustReadsU16
<1>7. ReadsU16(word) <=> word \in DOMAIN Numerals /\ Len(word) <= 5 /\ RustReadsU16(word)
  BY <1>1, <1>5 DEF ReadsU16, RustReadsU16
<1>8. RustReadsU16(word) => word \in DOMAIN RustNumerals
  BY DEF RustReadsU16
<1> HIDE DEF RustNumerals
<1>9. QED
  BY <1>1, <1>2, <1>4, <1>6, <1>7, <1>8

\* A number that was read is printed as a word that both parsers read as it.
LEMMA NumbersReadBack ==
  ASSUME NEW word, RustReadsU16(word)
  PROVE  LET printed == Decimal(RustNumerals[word])
         IN  /\ ReadsU16(printed) /\ RustReadsU16(printed)
             /\ printed # "" /\ Len(printed) \in Nat /\ Len(printed) <= 5
             /\ Numerals[printed] = RustNumerals[word]
             /\ RustNumerals[printed] = RustNumerals[word]
<1> DEFINE n == RustNumerals[word]
           printed == Decimal(n)
<1>1. n \in U16
  BY NumbersMeaning
<1>2. (\E w \in DOMAIN Numerals : Numerals[w] = n) \/ (\E w \in DOMAIN Signed : Signed[w] = n)
  BY DEF RustReadsU16, RustNumerals
<1> HIDE DEF n
<1>3. /\ printed \in DOMAIN Numerals /\ Numerals[printed] = n
      /\ Len(printed) \in Nat /\ Len(printed) <= 5
  BY <1>1, <1>2, TextsAssumption DEF NumeralsAssumption
<1>4. Len(printed) <= 5 /\ Numerals[printed] <= 65535
  <2>1. n <= 65535
    BY <1>1, SixteenBits
  <2>2. Len(printed) <= 5
    BY <1>3
  <2>3. QED
    BY <1>3, <2>1, <2>2
<1>5. ReadsU16(printed)
  BY <1>3, <1>4 DEF ReadsU16
<1>6. RustReadsU16(printed) /\ printed # "" /\ RustNumerals[printed] = Numerals[printed]
  BY <1>3, <1>5, NumbersMeaning
<1>7. QED
  BY <1>3, <1>5, <1>6 DEF n

LEMMA StatesAreFive ==
  /\ ValidStates = {1, 2, 3, 4, 5}
  /\ StateName[1] = "experimental" /\ StateName[2] = "beta" /\ StateName[3] = "stable"
  /\ StateName[4] = "legacy" /\ StateName[5] = "lts"
BY DEF ValidStates, Experimental, Lts, StateName

LEMMA NamesReadBack ==
  ASSUME NEW s \in ValidStates
  PROVE  /\ NamesState(StateName[s]) /\ ParseState(StateName[s]) = s
         /\ StateName[s] # "" /\ Len(StateName[s]) \in Nat /\ Len(StateName[s]) <= 12
<1>1. \A r \in ValidStates : StateName[r] = StateName[s] <=> r = s
  BY StatesAreFive
<1>2. NamesState(StateName[s])
  BY DEF NamesState
<1>3. ParseState(StateName[s]) = s
  BY <1>1 DEF ParseState
<1>4. StateName[s] # ""
  BY StatesAreFive
<1>5. QED
  BY <1>2, <1>3, <1>4, NamesAssumption

LEMMA NamesMeaning ==
  ASSUME NEW word, NamesState(word)
  PROVE  ParseState(word) \in ValidStates /\ StateName[ParseState(word)] = word /\ word # ""
<1>1. PICK s \in ValidStates : StateName[s] = word
  BY DEF NamesState
<1>2. QED
  BY <1>1, NamesReadBack

\* The C parser reads six words: numbers at the odd places, states at the even.
LEMMA ParseMeaning ==
  ASSUME NEW words, Len(words) \in Nat
  PROVE  ParseError(words) = 0 <=>
           /\ Len(words) = 6
           /\ \A i \in {1, 3, 5} : ReadsU16(words[i])
           /\ \A i \in {2, 4, 6} : NamesState(words[i])
<1> DEFINE Fine(i) == /\ Len(words) >= 2 * i
                      /\ ReadsU16(words[2 * i - 1]) /\ NamesState(words[2 * i])
<1>1. ASSUME NEW i \in {1, 2, 3}
      PROVE  PartError(words, i) = 0 <=> Fine(i)
  <2>1. ReadsU16(words[2 * i - 1]) => words[2 * i - 1] # ""
    BY NumbersMeaning
  <2>2. NamesState(words[2 * i]) => words[2 * i] # ""
    BY NamesMeaning
  <2>3. PICK n \in Nat, s \in Nat : n = 2 * i - 1 /\ s = 2 * i /\ n < s
    OBVIOUS
  <2> DEFINE Blank(word) == word = ""
  <2>4. PartError(words, i) = 0 <=>
          /\ ~ (Len(words) < n) /\ ~ Blank(words[n]) /\ ReadsU16(words[n])
          /\ ~ (Len(words) < s) /\ ~ Blank(words[s]) /\ NamesState(words[s])
    <3>1. PartError(words, i) =
            IF Len(words) < n THEN -7
            ELSE IF Blank(words[n]) THEN -2
            ELSE IF ~ ReadsU16(words[n]) THEN -3
            ELSE IF Len(words) < s THEN -4
            ELSE IF Blank(words[s]) THEN -5
            ELSE IF ~ NamesState(words[s]) THEN -6
            ELSE 0
      BY <2>3 DEF PartError
    <3> HIDE DEF Blank
    <3>2. QED
      BY <3>1
  <2>5. ~ (Len(words) < s) => ~ (Len(words) < n)
    BY <2>3
  <2>6. Fine(i) <=> ~ (Len(words) < s) /\ ReadsU16(words[n]) /\ NamesState(words[s])
    BY <2>3
  <2>7. QED
    BY <2>1, <2>2, <2>3, <2>4, <2>5, <2>6
<1>2. ParseError(words) = 0 <=> Len(words) <= 6 /\ \A i \in {1, 2, 3} : PartError(words, i) = 0
  <2> DEFINE wrong == {i \in 1 .. 3 : PartError(words, i) # 0}
  <2>1. wrong = {i \in {1, 2, 3} : PartError(words, i) # 0}
    OBVIOUS
  <2> HIDE DEF wrong
  <2>2. CASE wrong = {}
    BY <2>1, <2>2 DEF ParseError, wrong
  <2>3. CASE wrong # {}
    <3> DEFINE first == CHOOSE i \in wrong : \A j \in wrong : i <= j
    <3>1. \E i \in wrong : \A j \in wrong : i <= j
      BY <2>1, <2>3
    <3>2. first \in wrong
      BY <3>1
    <3> HIDE DEF first
    <3>3. PartError(words, first) # 0 /\ first \in {1, 2, 3}
      BY <3>2, <2>1
    <3>4. ParseError(words) = PartError(words, first)
      BY <2>3 DEF ParseError, wrong, first
    <3>5. QED
      BY <3>3, <3>4
  <2>4. QED
    BY <2>2, <2>3
<1>3. (\A i \in {1, 2, 3} : Fine(i)) <=>
        /\ Len(words) >= 6
        /\ \A i \in {1, 3, 5} : ReadsU16(words[i])
        /\ \A i \in {2, 4, 6} : NamesState(words[i])
  <2>1. (\A i \in {1, 2, 3} : Fine(i)) <=> Fine(1) /\ Fine(2) /\ Fine(3)
    OBVIOUS
  <2>2. /\ Fine(1) <=> Len(words) >= 2 /\ ReadsU16(words[1]) /\ NamesState(words[2])
        /\ Fine(2) <=> Len(words) >= 4 /\ ReadsU16(words[3]) /\ NamesState(words[4])
        /\ Fine(3) <=> Len(words) >= 6 /\ ReadsU16(words[5]) /\ NamesState(words[6])
    OBVIOUS
  <2>3. QED
    BY <2>1, <2>2
<1> HIDE DEF Fine
<1>4. Len(words) = 6 <=> Len(words) <= 6 /\ Len(words) >= 6
  <2>1. \A n \in Nat : n = 6 <=> n <= 6 /\ n >= 6
    OBVIOUS
  <2>2. Len(words) \in Nat
    OBVIOUS
  <2>3. QED
    BY <2>1, <2>2, Zenon
<1>5. (\A i \in {1, 2, 3} : PartError(words, i) = 0) <=> \A i \in {1, 2, 3} : Fine(i)
  BY <1>1
<1>6. QED
  BY <1>2, <1>3, <1>4, <1>5

\* A version whose numbers were read and whose states have names.
Readable(v) ==
  \E w1, w2, w3 : \E s1, s2, s3 \in ValidStates :
    /\ RustReadsU16(w1) /\ RustReadsU16(w2) /\ RustReadsU16(w3)
    /\ v = VersionOf(RustNumerals[w1], s1, RustNumerals[w2], s2, RustNumerals[w3], s3)

\* It is printed as six words that both parsers read as the version.
LEMMA PrintedVersions ==
  ASSUME NEW v, Readable(v)
  PROVE  /\ ReadByC(Format(v)) = {v} /\ ReadByRust(Format(v)) = {v}
         /\ TextLen(Format(v)) < StrLen
<1>words. PICK w1, w2, w3 : \E s1, s2, s3 \in ValidStates :
        /\ RustReadsU16(w1) /\ RustReadsU16(w2) /\ RustReadsU16(w3)
        /\ v = VersionOf(RustNumerals[w1], s1, RustNumerals[w2], s2, RustNumerals[w3], s3)
  BY DEF Readable
<1>states. PICK s1 \in ValidStates, s2 \in ValidStates, s3 \in ValidStates :
        /\ RustReadsU16(w1) /\ RustReadsU16(w2) /\ RustReadsU16(w3)
        /\ v = VersionOf(RustNumerals[w1], s1, RustNumerals[w2], s2, RustNumerals[w3], s3)
  BY <1>words
<1> DEFINE n1 == RustNumerals[w1]
           n2 == RustNumerals[w2]
           n3 == RustNumerals[w3]
           printed == Format(v)
<1>1. /\ v.major = n1 /\ v.majorState = s1 /\ v.minor = n2 /\ v.minorState = s2
      /\ v.patch = n3 /\ v.patchState = s3
  BY <1>states DEF VersionOf
<1>2. printed = <<Decimal(n1), StateName[s1], Decimal(n2), StateName[s2], Decimal(n3), StateName[s3]>>
  BY <1>1 DEF Format
<1>3. /\ Len(printed) = 6
      /\ printed[1] = Decimal(n1) /\ printed[2] = StateName[s1]
      /\ printed[3] = Decimal(n2) /\ printed[4] = StateName[s2]
      /\ printed[5] = Decimal(n3) /\ printed[6] = StateName[s3]
  BY <1>2
<1> HIDE DEF printed
<1>4. /\ \A i \in {1, 3, 5} : ReadsU16(printed[i]) /\ RustReadsU16(printed[i])
      /\ \A i \in {2, 4, 6} : NamesState(printed[i])
  <2>1. /\ ReadsU16(Decimal(n1)) /\ RustReadsU16(Decimal(n1))
        /\ ReadsU16(Decimal(n2)) /\ RustReadsU16(Decimal(n2))
        /\ ReadsU16(Decimal(n3)) /\ RustReadsU16(Decimal(n3))
    BY <1>states, NumbersReadBack
  <2>2. NamesState(StateName[s1]) /\ NamesState(StateName[s2]) /\ NamesState(StateName[s3])
    BY NamesReadBack
  <2> HIDE DEF n1, n2, n3
  <2>3. QED
    BY <1>3, <2>1, <2>2
<1>5. ParseError(printed) = 0 /\ RustParses(printed)
  BY <1>3, <1>4, ParseMeaning DEF RustParses
<1>6. /\ Numerals[printed[1]] = n1 /\ RustNumerals[printed[1]] = n1
      /\ Numerals[printed[3]] = n2 /\ RustNumerals[printed[3]] = n2
      /\ Numerals[printed[5]] = n3 /\ RustNumerals[printed[5]] = n3
  BY <1>states, <1>3, NumbersReadBack
<1>7. /\ ParseState(printed[2]) = s1 /\ ParseState(printed[4]) = s2 /\ ParseState(printed[6]) = s3
  BY <1>3, NamesReadBack
<1>8. v = VersionOf(n1, s1, n2, s2, n3, s3)
  BY <1>states
<1> HIDE DEF n1, n2, n3
<1>9. Parsed(printed, Numerals) = v /\ Parsed(printed, RustNumerals) = v
  BY <1>6, <1>7, <1>8 DEF Parsed
<1>10. ReadByC(printed) = {v} /\ ReadByRust(printed) = {v}
  BY <1>5, <1>9 DEF ReadByC, ReadByRust
<1>11. TextLen(printed) < StrLen
  <2>1. /\ Len(Decimal(n1)) \in Nat /\ Len(Decimal(n1)) <= 5
        /\ Len(Decimal(n2)) \in Nat /\ Len(Decimal(n2)) <= 5
        /\ Len(Decimal(n3)) \in Nat /\ Len(Decimal(n3)) <= 5
    BY <1>states, NumbersReadBack DEF n1, n2, n3
  <2>2. /\ Len(StateName[s1]) \in Nat /\ Len(StateName[s1]) <= 12
        /\ Len(StateName[s2]) \in Nat /\ Len(StateName[s2]) <= 12
        /\ Len(StateName[s3]) \in Nat /\ Len(StateName[s3]) <= 12
    BY NamesReadBack
  <2>3. TextLen(printed) = Len(Decimal(n1)) + Len(StateName[s1]) + Len(Decimal(n2))
                           + Len(StateName[s2]) + Len(Decimal(n3)) + Len(StateName[s3]) + 5
    BY <1>3 DEF TextLen
  <2>4. \A a, b, c, d, e, f \in Nat :
          a <= 5 /\ b <= 12 /\ c <= 5 /\ d <= 12 /\ e <= 5 /\ f <= 12 => a + b + c + d + e + f + 5 < 64
    OBVIOUS
  <2>5. QED
    <3>1. Len(Decimal(n1)) + Len(StateName[s1]) + Len(Decimal(n2)) + Len(StateName[s2])
          + Len(Decimal(n3)) + Len(StateName[s3]) + 5 < 64
      BY <2>1, <2>2, <2>4, Zenon
    <3>2. QED
      BY <3>1, <2>3, Zenon DEF StrLen
<1>12. QED
  BY <1>10, <1>11 DEF printed

\* What any of the parsers reads is such a version.
LEMMA ReadVersions ==
  ASSUME NEW t, Len(t.words) \in Nat,
         NEW v \in ReadByC(t.words) \union ReadByRust(t.words) \union ReadCompact(t)
  PROVE  Readable(v)
<1> DEFINE ws == t.words
<1>1. ASSUME \A i \in {1, 3, 5} : RustReadsU16(ws[i]),
             \A i \in {2, 4, 6} : NamesState(ws[i]),
             v = VersionOf(RustNumerals[ws[1]], ParseState(ws[2]), RustNumerals[ws[3]],
                           ParseState(ws[4]), RustNumerals[ws[5]], ParseState(ws[6]))
      PROVE  Readable(v)
  <2>1. /\ RustReadsU16(ws[1]) /\ RustReadsU16(ws[3]) /\ RustReadsU16(ws[5])
        /\ ParseState(ws[2]) \in ValidStates /\ ParseState(ws[4]) \in ValidStates
        /\ ParseState(ws[6]) \in ValidStates
    BY <1>1, NamesMeaning
  <2>2. QED
    <3>1. PICK w1, w2, w3 : w1 = ws[1] /\ w2 = ws[3] /\ w3 = ws[5]
      OBVIOUS
    <3>2. PICK s1 \in ValidStates, s2 \in ValidStates, s3 \in ValidStates :
            s1 = ParseState(ws[2]) /\ s2 = ParseState(ws[4]) /\ s3 = ParseState(ws[6])
      BY <2>1
    <3>3. RustReadsU16(w1) /\ RustReadsU16(w2) /\ RustReadsU16(w3)
      BY <2>1, <3>1
    <3>4. v = VersionOf(RustNumerals[w1], s1, RustNumerals[w2], s2, RustNumerals[w3], s3)
      BY <1>1, <3>1, <3>2
    <3>5. QED
      BY <3>3, <3>4 DEF Readable
<1>2. CASE v \in ReadByC(ws)
  <2>1. /\ \A i \in {1, 3, 5} : ReadsU16(ws[i])
        /\ \A i \in {2, 4, 6} : NamesState(ws[i])
        /\ v = Parsed(ws, Numerals)
    BY <1>2, ParseMeaning DEF ReadByC
  <2>2. \A i \in {1, 3, 5} : RustReadsU16(ws[i]) /\ RustNumerals[ws[i]] = Numerals[ws[i]]
    BY <2>1, NumbersMeaning
  <2>3. v = VersionOf(RustNumerals[ws[1]], ParseState(ws[2]), RustNumerals[ws[3]],
                      ParseState(ws[4]), RustNumerals[ws[5]], ParseState(ws[6]))
    BY <2>1, <2>2 DEF Parsed
  <2>4. QED
    BY <1>1, <2>1, <2>2, <2>3
<1>3. CASE v \in ReadByRust(ws)
  <2>1. /\ \A i \in {1, 3, 5} : RustReadsU16(ws[i])
        /\ \A i \in {2, 4, 6} : NamesState(ws[i])
        /\ v = Parsed(ws, RustNumerals)
    BY <1>3 DEF ReadByRust, RustParses
  <2>2. QED
    BY <1>1, <2>1 DEF Parsed
<1>4. CASE v \in ReadCompact(t)
  <2>1. /\ \A i \in 1 .. 3 : RustReadsU16(ws[i])
        /\ NamesState(t.channel)
        /\ v = Compact(ws, t.channel)
    BY <1>4 DEF ReadCompact, CompactParses
  <2>2. 1 \in 1 .. 3 /\ 2 \in 1 .. 3 /\ 3 \in 1 .. 3
    OBVIOUS
  <2>3. RustReadsU16(ws[1]) /\ RustReadsU16(ws[2]) /\ RustReadsU16(ws[3])
    BY <2>1, <2>2, Zenon
  <2>4. PICK state \in ValidStates : state = ParseState(t.channel)
    BY <2>1, NamesMeaning
  <2>5. PICK w1, w2, w3 : w1 = ws[1] /\ w2 = ws[2] /\ w3 = ws[3]
    OBVIOUS
  <2>6. v = VersionOf(RustNumerals[w1], state, RustNumerals[w2], state, RustNumerals[w3], state)
    BY <2>1, <2>4, <2>5 DEF Compact
  <2>7. RustReadsU16(w1) /\ RustReadsU16(w2) /\ RustReadsU16(w3)
    BY <2>3, <2>5
  <2>8. QED
    BY <2>6, <2>7 DEF Readable
<1>5. QED
  BY <1>2, <1>3, <1>4

\* The two parsers differ on signs and on leading zeros only.
LEMMA DialectsAgree ==
  ASSUME NEW words, Len(words) \in Nat
  PROVE  /\ ReadByC(words) \subseteq ReadByRust(words)
         /\ ReadByC(words) # ReadByRust(words) => \E i \in {1, 3, 5} : Loose(words[i])
<1>1. ASSUME ParseError(words) = 0
      PROVE  RustParses(words) /\ Parsed(words, Numerals) = Parsed(words, RustNumerals)
  <2>1. /\ Len(words) = 6
        /\ \A i \in {1, 3, 5} : ReadsU16(words[i])
        /\ \A i \in {2, 4, 6} : NamesState(words[i])
    BY <1>1, ParseMeaning
  <2>2. \A i \in {1, 3, 5} : RustReadsU16(words[i]) /\ RustNumerals[words[i]] = Numerals[words[i]]
    BY <2>1, NumbersMeaning
  <2>3. QED
    BY <2>1, <2>2 DEF RustParses, Parsed
<1>2. ASSUME RustParses(words), \A i \in {1, 3, 5} : ~ Loose(words[i])
      PROVE  ParseError(words) = 0
  <2>1. ASSUME NEW i \in {1, 3, 5} PROVE ReadsU16(words[i])
    <3>1. RustReadsU16(words[i]) /\ words[i] \notin DOMAIN Signed /\ ~ (Len(words[i]) > 5)
      BY <1>2 DEF RustParses, Loose
    <3>2. words[i] \in DOMAIN Numerals /\ Len(words[i]) \in Nat
      BY <3>1, NumbersMeaning
    <3>3. \A n \in Nat : n > 5 \/ n <= 5
      OBVIOUS
    <3>4. Len(words[i]) <= 5
      BY <3>1, <3>2, <3>3, Zenon
    <3>5. QED
      BY <3>1, <3>2, <3>4, NumbersMeaning
  <2>2. QED
    BY <1>2, <2>1, ParseMeaning DEF RustParses
<1>3. QED
  BY <1>1, <1>2 DEF ReadByC, ReadByRust

\* What any of the three dialects reads is printed as a text that fits its
\* buffer and that both parsers read as the same version, and the two parsers
\* of the long dialect differ on signs and leading zeros only.
THEOREM VersionsReadBack == TextSpec => []VersionTextRoundTrips
<1>1. TextInit => VersionTextRoundTrips
  <2> SUFFICES ASSUME TextInit PROVE VersionTextRoundTrips
    OBVIOUS
  <2>1. Len(given.words) \in Nat
    BY TextsAssumption DEF TextInit
  <2>2. QED
    BY <2>1, ReadVersions, PrintedVersions, DialectsAgree DEF VersionTextRoundTrips
<1>2. VersionTextRoundTrips /\ [UNCHANGED given]_given => VersionTextRoundTrips'
  BY DEF VersionTextRoundTrips, ReadCompact, CompactParses, Compact
<1>3. QED
  BY <1>1, <1>2, PTL DEF TextSpec
=============================================================================
