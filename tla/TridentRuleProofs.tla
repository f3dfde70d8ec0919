-------------------------- MODULE TridentRuleProofs --------------------------
(***************************************************************************)
(* Facts about the version predicate and the consensus rule, for every     *)
(* descriptor, version and policy, and about functions defined by          *)
(* recursion over 0 .. n, which the proofs of loops need.                  *)
(***************************************************************************)
EXTENDS TridentRule, FiniteSetTheorems, WellFoundedInduction, TLAPS

LEMMA FieldsAreNaturals ==
  ASSUME NEW v \in Version
  PROVE  v.minor \in Nat /\ v.patch \in Nat
<1>1. U16 \subseteq Nat
  BY DEF U16
<1>2. QED
  BY <1>1 DEF Version

\* A version satisfies itself under every mask that admits its states: a
\* provider built from the requirement's own header is never refused for age.
THEOREM SatisfiesReflexive ==
  ASSUME NEW v \in Version, NEW mask \in SUBSET ValidStates, States(v) \subseteq mask
  PROVE  Satisfies(v, v, mask) = "OK"
<1>1. Valid(v)
  BY DEF Valid
<1>2. v.minor \in Nat /\ v.patch \in Nat
  BY FieldsAreNaturals
<1>3. ~ TooOld(v, v)
  BY <1>2 DEF TooOld
<1>4. QED
  BY <1>1, <1>3 DEF Satisfies

LEMMA SatisfiesMeaning ==
  ASSUME NEW r, NEW p, NEW mask
  PROVE  Satisfies(r, p, mask) = "OK"
           <=> /\ Valid(r) /\ Valid(p)
               /\ States(p) \subseteq mask
               /\ r.major = p.major /\ r.majorState = p.majorState
               /\ ~ TooOld(r, p)
BY DEF Satisfies

\* Satisfaction composes: a provider good enough for a provider that was good
\* enough is good enough, so a chain of upgrades never needs the original
\* requirement to be compared again.
THEOREM SatisfiesTransitive ==
  ASSUME NEW a \in Version, NEW b \in Version, NEW c \in Version, NEW mask,
         Satisfies(a, b, mask) = "OK", Satisfies(b, c, mask) = "OK"
  PROVE  Satisfies(a, c, mask) = "OK"
<1>1. ~ TooOld(a, b) /\ ~ TooOld(b, c)
  BY SatisfiesMeaning
<1>2. ~ TooOld(a, c)
  BY <1>1, FieldsAreNaturals DEF TooOld
<1>3. QED
  BY <1>2, SatisfiesMeaning

-----------------------------------------------------------------------------
LEMMA FpExportType ==
  ASSUME NEW d \in Descriptor, WellFormed(d), NEW arch \in Profiles
  PROVE  FpExport(d, arch) \in Fingerprint \union {FpZero}
BY DEF FpExport, Descriptor, WellFormed, Fingerprint

\* What the checks before the encoder guarantee to the encoder.
LEMMA PrecheckMeaning ==
  ASSUME NEW u1 \in Descriptor \union {NoDesc}, NEW u2 \in Descriptor \union {NoDesc},
         NEW pol \in Policy, NEW b \in BOOLEAN
  PROVE  /\ Precheck(u1, u2, pol, b) \in {"NONE", "UPSTREAM", "MALFORMED", "MISSING", "ARCH", "CC"}
         /\ Precheck(u1, u2, pol, b) = "UPSTREAM" <=> ~ b
         /\ Precheck(u1, u2, pol, b) = "NONE" =>
              /\ u1 \in Descriptor /\ u2 \in Descriptor
              /\ u1 # NoDesc /\ u2 # NoDesc
              /\ WellFormed(u1) /\ WellFormed(u2)
              /\ u2.address \in Addresses
              /\ pol.arch \in Profiles
<1>1. Precheck(u1, u2, pol, b) \in {"NONE", "UPSTREAM", "MALFORMED", "MISSING", "ARCH", "CC"}
  BY DEF Precheck
<1>2. Precheck(u1, u2, pol, b) = "UPSTREAM" <=> ~ b
  BY DEF Precheck
<1>3. ASSUME Precheck(u1, u2, pol, b) = "NONE"
      PROVE  /\ u1 \in Descriptor /\ u2 \in Descriptor
             /\ u1 # NoDesc /\ u2 # NoDesc
             /\ WellFormed(u1) /\ WellFormed(u2)
             /\ u2.address \in Addresses
             /\ pol.arch \in Profiles
  <2>1. /\ u1 # NoDesc /\ u2 # NoDesc
        /\ WellFormed(u1) /\ WellFormed(u2) /\ u2.address # NoAddress
        /\ pol.arch \in Profiles
    BY <1>3 DEF Precheck
  <2>2. QED
    BY <2>1 DEF Descriptor
<1>4. QED
  BY <1>1, <1>2, <1>3

LEMMA ConsensusMeaning ==
  ASSUME NEW u1, NEW u2, NEW pol, NEW fpReq, NEW fpPrv
  PROVE  LET c == Consensus(u1, u2, pol, fpReq, fpPrv)
         IN  /\ c \in {"NONE", "MALFORMED", "FINGERPRINT", "STATE", "VERSION"}
             /\ c = "NONE" <=> /\ fpReq # FpZero /\ fpReq = fpPrv
                               /\ Satisfies(u1.since, u2.since, pol.mask) = "OK"
             /\ c \in {"STATE", "VERSION"} => fpReq # FpZero /\ fpReq = fpPrv
             /\ c = "FINGERPRINT" => fpReq # fpPrv /\ FpZero \notin {fpReq, fpPrv}
BY DEF Consensus

\* The fingerprints a verdict leaves behind are those of its fault.
BackedVerdict(v) ==
  /\ v.fault \in {"VERSION", "STATE"} => v.fpReq = v.fpPrv /\ v.fpReq # FpZero
  /\ v.fault = "FINGERPRINT" => v.fpReq # v.fpPrv /\ FpZero \notin {v.fpReq, v.fpPrv}
  /\ v.fault \in {"UPSTREAM", "MISSING", "ARCH", "CC"} => {v.fpReq, v.fpPrv} = {FpZero}

\* The verdict, and what a verdict of NONE rests on.
LEMMA VerdictMeaning ==
  ASSUME NEW u1 \in Descriptor \union {NoDesc}, NEW u2 \in Descriptor \union {NoDesc},
         NEW pol \in Policy, NEW b \in BOOLEAN
  PROVE  LET v == Verdict(u1, u2, pol, b)
         IN  /\ v.fault \in Faults
             /\ v.fpReq \in Fingerprint \union {FpZero}
             /\ v.fpPrv \in Fingerprint \union {FpZero}
             /\ v.fault = "NONE" =>
                  /\ b
                  /\ u1 # NoDesc /\ u2 # NoDesc
                  /\ WellFormed(u1) /\ WellFormed(u2)
                  /\ u2.address \in Addresses
                  /\ v.fpReq = FpExport(u1, pol.arch) /\ v.fpPrv = FpExport(u2, pol.arch)
                  /\ v.fpReq = v.fpPrv /\ v.fpReq # FpZero
                  /\ Satisfies(u1.since, u2.since, pol.mask) = "OK"
             /\ BackedVerdict(v)
<1> DEFINE early == Precheck(u1, u2, pol, b)
           v     == Verdict(u1, u2, pol, b)
<1>1. CASE early # "NONE"
  <2>1. v = [fault |-> early, fpReq |-> FpZero, fpPrv |-> FpZero]
    BY <1>1 DEF Verdict
  <2>2. early \in {"UPSTREAM", "MALFORMED", "MISSING", "ARCH", "CC"}
    BY <1>1, PrecheckMeaning
  <2>3. QED
    BY <2>1, <2>2 DEF Faults, BackedVerdict
<1>2. CASE early = "NONE"
  <2>1. /\ b /\ u1 \in Descriptor /\ u2 \in Descriptor
        /\ u1 # NoDesc /\ u2 # NoDesc
        /\ WellFormed(u1) /\ WellFormed(u2)
        /\ u2.address \in Addresses /\ pol.arch \in Profiles
    BY <1>2, PrecheckMeaning
  <2>2. /\ FpExport(u1, pol.arch) \in Fingerprint \union {FpZero}
        /\ FpExport(u2, pol.arch) \in Fingerprint \union {FpZero}
    BY <2>1, FpExportType
  <2> DEFINE req == FpExport(u1, pol.arch)
             prv == IF req = FpZero THEN FpZero ELSE FpExport(u2, pol.arch)
             c   == Consensus(u1, u2, pol, req, prv)
  <2>3. v = [fault |-> c, fpReq |-> req, fpPrv |-> prv]
    BY <1>2 DEF Verdict
  <2>4. /\ c \in {"NONE", "MALFORMED", "FINGERPRINT", "STATE", "VERSION"}
        /\ c = "NONE" <=> /\ req # FpZero /\ req = prv
                          /\ Satisfies(u1.since, u2.since, pol.mask) = "OK"
        /\ c \in {"STATE", "VERSION"} => req # FpZero /\ req = prv
        /\ c = "FINGERPRINT" => req # prv /\ FpZero \notin {req, prv}
    BY ConsensusMeaning
  <2>5. v.fault = c /\ v.fpReq = req /\ v.fpPrv = prv
    BY <2>3
  <2>6. c = "NONE" => prv = FpExport(u2, pol.arch)
    BY <2>4
  <2> HIDE DEF req, prv, c, v
  <2>7. c \in Faults
    BY <2>4 DEF Faults
  <2>8. req \in Fingerprint \union {FpZero} /\ prv \in Fingerprint \union {FpZero}
    BY <2>2 DEF req, prv
  <2>9. c \notin {"UPSTREAM", "MISSING", "ARCH", "CC"}
    BY <2>4
  <2>10. req = FpExport(u1, pol.arch)
    BY DEF req
  <2>11. BackedVerdict(v)
    BY <2>4, <2>5, <2>9 DEF BackedVerdict
  <2>12. QED
    BY <2>1, <2>4, <2>5, <2>6, <2>7, <2>8, <2>10, <2>11 DEF v
<1>3. QED
  BY <1>1, <1>2

\* A node binds exactly when its dependencies are bound and its hooks agree.
LEMMA VerdictSplits ==
  ASSUME NEW u1, NEW u2, NEW pol, NEW b \in BOOLEAN
  PROVE  Verdict(u1, u2, pol, b).fault = "NONE" <=> b /\ Admits(u1, u2, pol)
<1>1. CASE b = TRUE
  BY <1>1 DEF Admits
<1>2. CASE b = FALSE
  <2>1. Precheck(u1, u2, pol, b) = "UPSTREAM"
    BY <1>2 DEF Precheck
  <2>2. Verdict(u1, u2, pol, b).fault = "UPSTREAM"
    BY <2>1 DEF Verdict
  <2>3. QED
    BY <1>2, <2>2
<1>3. QED
  BY <1>1, <1>2

\* No policy can admit a contract the machine rejects: whatever the profile and
\* the mask, hooks that agree have the same name and the same signature.
THEOREM AdmittedContractsAreIdentical ==
  ASSUME NEW u1 \in Descriptor \union {NoDesc}, NEW u2 \in Descriptor \union {NoDesc},
         NEW pol \in Policy, Admits(u1, u2, pol)
  PROVE  u1.symbol = u2.symbol /\ u1.sig = u2.sig
<1>0. PICK b \in BOOLEAN : b = TRUE
  OBVIOUS
<1> DEFINE v == Verdict(u1, u2, pol, b)
<1>1. v.fault = "NONE"
  BY <1>0 DEF Admits
<1> HIDE DEF v
<1>2. v.fault = "NONE" => /\ v.fpReq = FpExport(u1, pol.arch) /\ v.fpPrv = FpExport(u2, pol.arch)
                          /\ v.fpReq = v.fpPrv /\ v.fpReq # FpZero
  BY VerdictMeaning DEF v
<1>3. QED
  BY <1>1, <1>2 DEF FpExport

-----------------------------------------------------------------------------
\* What a resolution does to a node.
LEMMA ResolveNodeMeaning ==
  ASSUME NEW t \in Node, NEW pol \in Policy, NEW b \in BOOLEAN
  PROVE  LET r == ResolveNode(t, pol, b)
             v == Verdict(t.u1, t.u2, pol, b)
         IN  /\ r \in Node
             /\ r.u1 = t.u1 /\ r.u2 = t.u2
             /\ r.state = IF v.fault = "NONE" THEN "BOUND" ELSE "FAULT"
             /\ r.state = "BOUND" <=> b /\ Admits(t.u1, t.u2, pol)
             /\ r.fault = v.fault /\ r.fpRequired = v.fpReq /\ r.fpProvided = v.fpPrv
             /\ r.w = IF v.fault = "NONE" THEN t.u2.address ELSE Trap
             /\ r.generation = IF r.state = "BOUND" /\ t.state # "BOUND"
                               THEN t.generation + 1 ELSE t.generation
<1> DEFINE r == ResolveNode(t, pol, b)
           v == Verdict(t.u1, t.u2, pol, b)
<1>1. /\ t.u1 \in Descriptor \union {NoDesc} /\ t.u2 \in Descriptor \union {NoDesc}
      /\ t.generation \in Nat
  BY DEF Node
<1>2. /\ v.fault \in Faults
      /\ v.fpReq \in Fingerprint \union {FpZero}
      /\ v.fpPrv \in Fingerprint \union {FpZero}
      /\ v.fault = "NONE" => t.u2.address \in Addresses
  <2>1. v.fault \in Faults
    BY <1>1, VerdictMeaning
  <2>2. v.fpReq \in Fingerprint \union {FpZero} /\ v.fpPrv \in Fingerprint \union {FpZero}
    BY <1>1, VerdictMeaning
  <2>3. v.fault = "NONE" => t.u2.address \in Addresses
    BY <1>1, VerdictMeaning
  <2> HIDE DEF v
  <2>4. QED
    BY <2>1, <2>2, <2>3
<1>3. v.fault = "NONE" <=> b /\ Admits(t.u1, t.u2, pol)
  BY VerdictSplits
<1> HIDE DEF v
<1>4. r = [t EXCEPT !.fpRequired = v.fpReq,
                    !.fpProvided = v.fpPrv,
                    !.fault      = v.fault,
                    !.generation = IF v.fault = "NONE" /\ t.state # "BOUND" THEN @ + 1 ELSE @,
                    !.state      = IF v.fault = "NONE" THEN "BOUND" ELSE "FAULT",
                    !.w          = IF v.fault = "NONE" THEN t.u2.address ELSE Trap]
  BY DEF ResolveNode, v
<1> HIDE DEF r
<1>5. /\ r.u1 = t.u1 /\ r.u2 = t.u2
      /\ r.state = IF v.fault = "NONE" THEN "BOUND" ELSE "FAULT"
      /\ r.fault = v.fault /\ r.fpRequired = v.fpReq /\ r.fpProvided = v.fpPrv
      /\ r.w = IF v.fault = "NONE" THEN t.u2.address ELSE Trap
      /\ r.generation = IF v.fault = "NONE" /\ t.state # "BOUND"
                        THEN t.generation + 1 ELSE t.generation
  BY <1>4 DEF Node
<1>6. r \in Node
  <2> DEFINE generation == IF v.fault = "NONE" /\ t.state # "BOUND"
                           THEN t.generation + 1 ELSE t.generation
             state      == IF v.fault = "NONE" THEN "BOUND" ELSE "FAULT"
             w          == IF v.fault = "NONE" THEN t.u2.address ELSE Trap
  <2>1. r = [u1 |-> t.u1, u2 |-> t.u2, state |-> state, fault |-> v.fault,
             fpRequired |-> v.fpReq, fpProvided |-> v.fpPrv,
             w |-> w, generation |-> generation]
    BY <1>4 DEF Node
  <2>2. generation \in Nat
    BY <1>1
  <2>3. state \in BindStates
    BY DEF BindStates
  <2>4. w \in Addresses \union {Trap}
    BY <1>2
  <2> HIDE DEF generation, state, w
  <2>5. QED
    BY <1>1, <1>2, <2>1, <2>2, <2>3, <2>4 DEF Node
<1>7. QED
  BY <1>3, <1>5, <1>6 DEF r, v
\* What an offer of u2 and the resolution that follows do to it.
LEMMA SwapNodeMeaning ==
  ASSUME NEW t \in Node, NEW u2 \in Descriptor \union {NoDesc}, NEW pol \in Policy,
         NEW b \in BOOLEAN
  PROVE  LET r == SwapNode(t, u2, pol, b)
             v == Verdict(t.u1, u2, pol, b)
         IN  /\ r \in Node
             /\ r.u1 = t.u1 /\ r.u2 = u2
             /\ r.state = IF v.fault = "NONE" THEN "BOUND" ELSE "FAULT"
             /\ r.state = "BOUND" <=> b /\ Admits(t.u1, u2, pol)
             /\ r.state = "BOUND" => u2 # NoDesc /\ r.w \in Addresses
             /\ r.fault = v.fault
             /\ r.w = IF v.fault = "NONE" THEN u2.address ELSE Trap
             /\ r.generation = IF r.state = "BOUND" /\ t.state # "BOUND"
                               THEN t.generation + 1 ELSE t.generation
<1> DEFINE s == [t EXCEPT !.u2 = u2]
           r == SwapNode(t, u2, pol, b)
           v == Verdict(t.u1, u2, pol, b)
<1>1. s \in Node /\ s.u1 = t.u1 /\ s.u2 = u2 /\ s.state = t.state /\ s.generation = t.generation
  BY DEF Node
<1>2. r = ResolveNode(s, pol, b)
  BY DEF SwapNode
<1> HIDE DEF s, r
<1>3. /\ r \in Node
      /\ r.u1 = t.u1 /\ r.u2 = u2
      /\ r.state = IF v.fault = "NONE" THEN "BOUND" ELSE "FAULT"
      /\ r.state = "BOUND" <=> b /\ Admits(t.u1, u2, pol)
      /\ r.fault = v.fault
      /\ r.w = IF v.fault = "NONE" THEN u2.address ELSE Trap
      /\ r.generation = IF r.state = "BOUND" /\ t.state # "BOUND"
                        THEN t.generation + 1 ELSE t.generation
  BY <1>1, <1>2, ResolveNodeMeaning
<1>4. t.u1 \in Descriptor \union {NoDesc}
  BY DEF Node
<1>5. v.fault = "NONE" => u2 # NoDesc /\ u2.address \in Addresses
  BY <1>4, VerdictMeaning
<1> HIDE DEF v
<1>6. r.state = "BOUND" => u2 # NoDesc /\ r.w \in Addresses
  BY <1>3, <1>5
<1>7. QED
  BY <1>3, <1>6 DEF r, v

-----------------------------------------------------------------------------
(* Functions defined by recursion over 0 .. n                              *)

\* A set that contains 0 and, with a number, the next one.  The argument looks
\* for the least number that is missing.
LEMMA StepwiseInduction ==
  ASSUME NEW n \in Nat, NEW S, 0 \in S,
         \A i \in 1 .. n : i - 1 \in S => i \in S
  PROVE  \A i \in 0 .. n : i \in S
<1> DEFINE Below(k) == {j \in 0 .. n : j < k}
           T == {Below(k) : k \in {k \in 0 .. n : k \notin S}}
           R == StrictSubsetOrdering(0 .. n)
<1>1. IsWellFoundedOn(R, SUBSET (0 .. n))
  <2>1. IsFiniteSet(0 .. n)
    BY FS_Interval
  <2>2. QED
    BY <2>1, FS_StrictSubsetOrderingWellFounded, FS_FiniteSubsetsOfFinite
<1>2. ASSUME NEW k \in 0 .. n, k \notin S PROVE FALSE
  <2>1. T # {} /\ T \subseteq SUBSET (0 .. n)
    BY <1>2
  <2>2. PICK X \in T : \A Y \in T : <<Y, X>> \notin R
    <3> HIDE DEF T, R
    <3>1. QED
      BY <1>1, <2>1, WFMin
  <2>3. PICK m \in 0 .. n : m \notin S /\ X = Below(m)
    BY <2>2
  <2>4. m \in 1 .. n /\ m - 1 \in 0 .. n /\ m - 1 \notin S
    BY <2>3
  <2>5. Below(m - 1) \in T
    BY <2>4
  <2>6. Below(m - 1) \subseteq Below(m) /\ m - 1 \in Below(m) /\ m - 1 \notin Below(m - 1)
    BY <2>4
  <2>7. <<Below(m - 1), Below(m)>> \in R
    <3>1. Below(m - 1) \in SUBSET (0 .. n) /\ Below(m) \in SUBSET (0 .. n) /\ Below(m - 1) # Below(m)
      BY <2>6
    <3> HIDE DEF Below
    <3>2. QED
      BY <3>1, <2>6 DEF StrictSubsetOrdering
  <2>8. QED
    BY <2>2, <2>3, <2>5, <2>7
<1>3. QED
  BY <1>2

\* f goes from x through n turns of F.
Iterates(f, n, x, F) == f[0] = x /\ \A i \in 1 .. n : f[i] = F[i][f[i - 1]]

Iterations(n, V) == [0 .. n -> V]

\* By induction over the number of turns that can be made.
LEMMA IterationExists ==
  ASSUME NEW n \in Nat, NEW V, NEW x \in V, NEW F \in [1 .. n -> [V -> V]]
  PROVE  \E f \in Iterations(n, V) : Iterates(f, n, x, F)
<1> DEFINE Upto(k, f) == f[0] = x /\ \A i \in 1 .. k : f[i] = F[i][f[i - 1]]
           S == {k \in 0 .. n : \E f \in [0 .. n -> V] : Upto(k, f)}
<1>1. 0 \in S
  <2> DEFINE f == [i \in 0 .. n |-> x]
  <2>1. f \in [0 .. n -> V] /\ f[0] = x
    OBVIOUS
  <2> HIDE DEF f
  <2>2. Upto(0, f)
    BY <2>1
  <2>3. QED
    BY <2>1, <2>2
<1>2. ASSUME NEW k \in 1 .. n, k - 1 \in S PROVE k \in S
  <2>1. PICK f \in [0 .. n -> V] : Upto(k - 1, f)
    BY <1>2
  <2>2. PICK v \in V : v = F[k][f[k - 1]]
    OBVIOUS
  <2> DEFINE g == [f EXCEPT ![k] = v]
  <2>3. g \in [0 .. n -> V] /\ g[k] = v /\ \A i \in 0 .. n : i # k => g[i] = f[i]
    OBVIOUS
  <2> HIDE DEF g
  <2>4. g[0] = x
    BY <2>1, <2>3
  <2>5. ASSUME NEW i \in 1 .. k PROVE g[i] = F[i][g[i - 1]]
    <3>1. g[i - 1] = f[i - 1]
      BY <2>3
    <3>2. CASE i = k
      BY <2>2, <2>3, <3>1, <3>2
    <3>3. CASE i # k
      BY <2>1, <2>3, <3>1, <3>3
    <3>4. QED
      BY <3>2, <3>3
  <2>6. QED
    BY <2>3, <2>4, <2>5
<1>3. n \in S
  <2> HIDE DEF S
  <2>1. \A k \in 1 .. n : k - 1 \in S => k \in S
    BY <1>2
  <2>2. \A k \in 0 .. n : k \in S
    BY <1>1, <2>1, StepwiseInduction
  <2>3. QED
    BY <2>2
<1>4. QED
  BY <1>3 DEF Iterates, Iterations
=============================================================================
