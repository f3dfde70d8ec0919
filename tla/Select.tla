-------------------------------- MODULE Select --------------------------------
(***************************************************************************)
(* Candidate selection (select.rs): the gate, the score and the choice.    *)
(*                                                                         *)
(* A candidate is [id, version, artifact, votes, export].  Scores are in   *)
(* units of 1 / ScoreOne; the code's ScoreOne is a million.  Weights are   *)
(* machine words, below Word (2^32 in the code); both build profiles of    *)
(* the crate check for overflow, so a sum that does not fit panics.        *)
(***************************************************************************)
EXTENDS TridentRule, Integers, Sequences

CONSTANTS
  ScoreOne,     \* SCORE_ONE
  Word,         \* 2^32
  Ids,          \* identifiers, each with its place in the order of strings
  SelRequired,  \* the call site
  SelPolicy     \* and the policy

\* Identifiers are strings, and strings are ordered.
ASSUME IdsAssumption ==
  /\ \A id \in DOMAIN Ids : Ids[id] \in Nat
  /\ \A i, j \in DOMAIN Ids : Ids[i] = Ids[j] => i = j

ASSUME ScoreAssumption == ScoreOne \in Nat \ {0}

None == 0       \* indices start at 1

Votes == [yes : U16, no : U16, nil : U16]

Candidate ==
  [id : DOMAIN Ids, version : Version, artifact : Nat, votes : Votes,
   export : Descriptor \union {NoDesc}]

WeightTriple == [consensus : Nat, artifact : Nat, semver : Nat]

Capped(n, top) == IF n < top THEN n ELSE top

-----------------------------------------------------------------------------
(* The score                                                               *)

\* Votes::cast saturates.
Cast(votes, ballot) ==
  IF ballot = "yes" THEN [votes EXCEPT !.yes = Capped(@ + 1, 65535)]
  ELSE IF ballot = "no" THEN [votes EXCEPT !.no = Capped(@ + 1, 65535)]
  ELSE [votes EXCEPT !.nil = Capped(@ + 1, 65535)]

\* Votes::consensus
ConsensusScore(votes) ==
  LET n == votes.yes + votes.no + votes.nil
  IN  IF n = 0 THEN ScoreOne \div 2
      ELSE (votes.yes * ScoreOne + votes.nil * (ScoreOne \div 2)) \div n

Multiplier(state) ==
  IF state \in {Stable, Lts} THEN ScoreOne
  ELSE IF state = Legacy THEN (ScoreOne * 80) \div 100
  ELSE IF state = Beta THEN (ScoreOne * 75) \div 100
  ELSE IF state = Experimental THEN (ScoreOne * 60) \div 100
  ELSE 0

SemVerWeight(v) ==
  LET base == v.major * 100 + v.minor * 10 + v.patch
  IN  (((base * ScoreOne) \div (base + 100)) * Multiplier(v.majorState)) \div ScoreOne

DefaultWeights == [consensus |-> 5, artifact |-> 3, semver |-> 2]

\* is_normalised takes the sum of the three words before it compares it.
SumPanics(w) ==
  \/ w.consensus + w.artifact >= Word
  \/ w.consensus + w.artifact + w.semver >= Word

Normalised(w) == w.consensus + w.artifact + w.semver = 10

\* The score of a candidate whose weights can be summed.
Score(c, ws) ==
  LET w == IF Normalised(ws) THEN ws ELSE DefaultWeights
  IN  (w.consensus * ConsensusScore(c.votes) + w.artifact * Capped(c.artifact, ScoreOne)
       + w.semver * SemVerWeight(c.version)) \div 10

-----------------------------------------------------------------------------
(* The gate and the choice                                                 *)

\* passes_gate: the resolver decides, on a node of its own.
PassesGate(c) ==
  /\ c.export # NoDesc
  /\ SwapNode(InitNode(SelRequired), c.export, SelPolicy, TRUE).state = "BOUND"

\* Tuples in lexicographic order.
Above(x, y) == \E k \in DOMAIN x : x[k] > y[k] /\ \A j \in 1 .. k - 1 : x[j] = y[j]

\* better: the score, then the numbers of the version, then the identifier.
Better(a, b, ws) ==
  Above(<<Score(a, ws), a.version.major, a.version.minor, a.version.patch, Ids[a.id]>>,
        <<Score(b, ws), b.version.major, b.version.minor, b.version.patch, Ids[b.id]>>)

\* Mutant: the best is chosen first and the gate judges it afterwards.
BestOfGatingLast(list, ws) ==
  LET best == CHOOSE i \in DOMAIN list :
                \A j \in DOMAIN list \ {i} : ~ Better(list[j], list[i], ws)
  IN  IF list = <<>> THEN None
      ELSE IF PassesGate(list[best]) THEN best ELSE None

\* What the loop of select, and of every step of best_path, makes of the best
\* so far when it comes to candidate i.
BestWith(list, ws, best, i) ==
  IF ~ PassesGate(list[i]) THEN best
  ELSE IF best = None THEN i
  ELSE IF Better(list[i], list[best], ws) THEN i ELSE best

BestOf(list, ws) ==
  LET best[i \in 0 .. Len(list)] == IF i = 0 THEN None ELSE BestWith(list, ws, best[i - 1], i)
  IN  best[Len(list)]

\* Only a candidate that passes the gate is scored.
ScoringPanics(list, ws) ==
  SumPanics(ws) /\ \E i \in DOMAIN list : PassesGate(list[i])
=============================================================================
