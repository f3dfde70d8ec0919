------------------------- MODULE TridentGraphProofs -------------------------
(***************************************************************************)
(* Theorems about TridentGraph, for every number of nodes, every edge set, *)
(* every sequence of offers and every set of policies.                     *)
(*                                                                         *)
(* First what every resolution keeps, in a run or alone: types, cycles     *)
(* that never bind, slots and faults that are agreed.  Then what a run of  *)
(* graph_resolve guarantees: the least fixpoint if its changes all go one  *)
(* way, one more rank of nodes with every pass in any case, and its return *)
(* from the fixpoint test.                                                 *)
(***************************************************************************)
EXTENDS TridentGraph, TridentRuleProofs, FiniteSetTheorems

LEMMA PoliciesArePolicies == Policies \subseteq Policy
BY GraphAssumption

LEMMA OffersAreDescriptors == Offers \subseteq Descriptor \union {NoDesc}
BY GraphAssumption

-----------------------------------------------------------------------------
(* Type correctness                                                        *)

\* Every resolution (Resolve, Swap, and each step of a run) replaces node n by
\* the resolution of t, which is the node itself but for its provided hook.
Resolution(n, t, pol) ==
  /\ t \in Node
  /\ t.u1 = trident[n].u1
  /\ t.state = trident[n].state
  /\ t.generation = trident[n].generation
  /\ trident' = [trident EXCEPT ![n] = ResolveNode(t, pol, DepsBound(n))]

LEMMA ResolutionMeaning ==
  ASSUME TypeOK, NEW n \in Nodes, NEW t, NEW pol \in Policies, Resolution(n, t, pol)
  PROVE  /\ trident' \in [Nodes -> Node]
         /\ \A m \in Nodes \ {n} : trident'[m] = trident[m]
         /\ trident'[n] = ResolveNode(t, pol, DepsBound(n))
         /\ trident'[n].u1 = trident[n].u1 /\ trident'[n].u2 = t.u2
         /\ trident'[n].state \in {"BOUND", "FAULT"}
         /\ trident'[n].state = "BOUND" <=> DepsBound(n) /\ Admits(t.u1, t.u2, pol)
         /\ trident'[n].generation =
              IF trident'[n].state = "BOUND" /\ trident[n].state # "BOUND"
              THEN trident[n].generation + 1 ELSE trident[n].generation
<1> DEFINE r == ResolveNode(t, pol, DepsBound(n))
<1>1. pol \in Policy /\ t \in Node /\ DepsBound(n) \in BOOLEAN
  BY PoliciesArePolicies DEF Resolution, DepsBound
<1>2. /\ r \in Node
      /\ r.u1 = t.u1 /\ r.u2 = t.u2
      /\ r.state \in {"BOUND", "FAULT"}
      /\ r.state = "BOUND" <=> DepsBound(n) /\ Admits(t.u1, t.u2, pol)
      /\ r.generation = IF r.state = "BOUND" /\ t.state # "BOUND"
                        THEN t.generation + 1 ELSE t.generation
  BY <1>1, ResolveNodeMeaning
<1> HIDE DEF r
<1>3. trident' = [trident EXCEPT ![n] = r] /\ trident \in [Nodes -> Node]
  BY DEF Resolution, TypeOK, r
<1>4. QED
  BY <1>2, <1>3 DEF Resolution, r

\* The steps of a call.
LEMMA ResolveIsResolution ==
  ASSUME TypeOK, NEW n \in Nodes, Resolve(n)
  PROVE  \E pol \in Policies : Resolution(n, trident[n], pol)
BY DEF Resolve, Resolution, TypeOK

LEMMA ResolveNextIsResolution ==
  ASSUME TypeOK, ResolveNext
  PROVE  /\ next \in Nodes /\ policy \in Policies
         /\ Resolution(next, trident[next], policy)
<1>1. next \in Nodes /\ policy \in Policies
  BY NAssumption DEF ResolveNext, TypeOK, Nodes
<1>2. QED
  BY <1>1 DEF ResolveNext, Resolution, TypeOK

LEMMA SwapIsResolution ==
  ASSUME TypeOK, NEW n \in Nodes, Swap(n)
  PROVE  \E pol \in Policies, d \in Offers :
           Resolution(n, [trident[n] EXCEPT !.u2 = d], pol)
<1>1. PICK pol \in Policies, d \in Offers :
        trident' = [trident EXCEPT ![n] = SwapNode(@, d, pol, DepsBound(n))]
  BY DEF Swap
<1> DEFINE t == [trident[n] EXCEPT !.u2 = d]
<1>2. trident[n] \in Node /\ d \in Descriptor \union {NoDesc}
  BY OffersAreDescriptors DEF TypeOK
<1>3. /\ t \in Node
      /\ t.u1 = trident[n].u1 /\ t.state = trident[n].state
      /\ t.generation = trident[n].generation
  BY <1>2 DEF Node
<1>4. trident' = [trident EXCEPT ![n] = ResolveNode(t, pol, DepsBound(n))]
  BY <1>1 DEF SwapNode, TypeOK
<1>5. Resolution(n, t, pol)
  BY <1>3, <1>4 DEF Resolution
<1>6. QED
  BY <1>5

LEMMA AttachMeaning ==
  ASSUME TypeOK, NEW n \in Nodes, Attach(n)
  PROVE  /\ trident' \in [Nodes -> Node]
         /\ \A m \in Nodes :
              /\ trident'[m].u1 = trident[m].u1
              /\ trident'[m].state = trident[m].state
              /\ trident'[m].fault = trident[m].fault
              /\ trident'[m].fpRequired = trident[m].fpRequired
              /\ trident'[m].fpProvided = trident[m].fpProvided
              /\ trident'[m].w = trident[m].w
              /\ trident'[m].generation = trident[m].generation
              /\ trident'[m].u2 \in Offers \union {trident[m].u2}
<1>1. PICK d \in Offers : trident' = [trident EXCEPT ![n].u2 = d]
  BY DEF Attach
<1>2. trident[n] \in Node /\ d \in Descriptor \union {NoDesc} /\ trident \in [Nodes -> Node]
  BY OffersAreDescriptors DEF TypeOK
<1> DEFINE t == [trident[n] EXCEPT !.u2 = d]
<1>3. /\ t \in Node /\ t.u1 = trident[n].u1 /\ t.state = trident[n].state
      /\ t.fault = trident[n].fault
      /\ t.fpRequired = trident[n].fpRequired /\ t.fpProvided = trident[n].fpProvided
      /\ t.w = trident[n].w /\ t.generation = trident[n].generation
      /\ t.u2 = d
  BY <1>2 DEF Node
<1>4. trident' = [trident EXCEPT ![n] = t]
  BY <1>1, <1>2
<1> HIDE DEF t
<1>5. QED
  BY <1>2, <1>3, <1>4

LEMMA InitType == Init => TypeOK
<1> SUFFICES ASSUME Init PROVE TypeOK
  OBVIOUS
<1>1. ASSUME NEW n \in Nodes PROVE InitNode(Required[n]) \in Node
  <2>1. Required[n] \in Descriptor \union {NoDesc}
    BY GraphAssumption
  <2>2. QED
    BY <2>1 DEF InitNode, Node, BindStates, Faults
<1>2. trident \in [Nodes -> Node]
  BY <1>1 DEF Init
<1>3. /\ deps \in [Nodes -> SUBSET (Nodes \union {NullDep})]
      /\ pc \in {"idle", "pass", "returned"} /\ policy \in Policies
      /\ rising \in BOOLEAN /\ falling \in BOOLEAN /\ start \subseteq Nodes
  BY DEF Init
<1>4. /\ pass \in 0 .. N + 1 /\ (pc = "pass" => pass <= N)
      /\ next \in 1 .. N + 1 /\ bound \in 0 .. next - 1
      /\ prevBound \in NoPass .. N /\ calls \in 0 .. MaxCalls
  BY NAssumption, GraphAssumption DEF Init, NoPass
<1>5. QED
  BY <1>2, <1>3, <1>4 DEF TypeOK

LEMMA StepType == TypeOK /\ [Next]_vars => TypeOK'
<1> SUFFICES ASSUME TypeOK, [Next]_vars PROVE TypeOK'
  OBVIOUS
<1> USE NAssumption
<1>1. ASSUME NEW n \in Nodes, SetDeps(n) PROVE TypeOK'
  <2>1. DepChoices[n] \in SUBSET SUBSET (Nodes \union {NullDep})
    BY GraphAssumption
  <2>2. QED
    BY <1>1, <2>1 DEF SetDeps, TypeOK, loopVars, history
<1>2. ASSUME NEW n \in Nodes, Attach(n) PROVE TypeOK'
  <2>1. trident' \in [Nodes -> Node]
    BY <1>2, AttachMeaning
  <2>2. QED
    BY <1>2, <2>1 DEF Attach, TypeOK, loopVars, history
<1>3. ASSUME Call PROVE calls' \in 0 .. MaxCalls
  BY <1>3, GraphAssumption DEF Call, TypeOK
<1>4. ASSUME NEW n \in Nodes, Resolve(n) PROVE TypeOK'
  <2>1. trident' \in [Nodes -> Node]
    BY <1>4, ResolveIsResolution, ResolutionMeaning
  <2>2. QED
    BY <1>3, <1>4, <2>1 DEF Resolve, TypeOK, loopVars, history
<1>5. ASSUME NEW n \in Nodes, Swap(n) PROVE TypeOK'
  <2>1. trident' \in [Nodes -> Node]
    BY <1>5, SwapIsResolution, ResolutionMeaning
  <2>2. QED
    BY <1>3, <1>5, <2>1 DEF Swap, TypeOK, loopVars, history
<1>6. ASSUME NEW pol \in Policies, GraphResolve(pol) PROVE TypeOK'
  BY <1>3, <1>6 DEF GraphResolve, TypeOK, BoundNodes, NoPass
<1>7. ASSUME ResolveNext PROVE TypeOK'
  <2>1. trident' \in [Nodes -> Node]
    BY <1>7, ResolveNextIsResolution, ResolutionMeaning
  <2>2. next' \in 1 .. N + 1 /\ bound' \in 0 .. next' - 1
    BY <1>7 DEF ResolveNext, TypeOK
  <2>3. QED
    BY <1>7, <2>1, <2>2 DEF ResolveNext, TypeOK, history
<1>8. ASSUME EndPass PROVE TypeOK'
  <2>1. CASE bound = prevBound
    BY <1>8, <2>1 DEF EndPass, EndOfPass, TypeOK, loopVars
  <2>2. CASE bound # prevBound
    <3>1. start' \subseteq Nodes /\ pc' \in {"idle", "pass", "returned"}
      BY <1>8, <2>2 DEF EndPass, EndOfPass, BoundNodes
    <3>2. /\ pass' \in 0 .. N + 1 /\ (pc' = "pass" => pass' <= N)
          /\ next' \in 1 .. N + 1 /\ bound' \in 0 .. next' - 1
          /\ prevBound' \in NoPass .. N
      BY <1>8, <2>2 DEF EndPass, EndOfPass, TypeOK, NoPass
    <3>3. QED
      BY <1>8, <2>2, <3>1, <3>2 DEF EndPass, EndOfPass, TypeOK
  <2>3. QED
    BY <2>1, <2>2
<1>9. ASSUME UNCHANGED vars PROVE TypeOK'
  BY <1>9 DEF vars, loopVars, history, TypeOK
<1>10. QED
  BY <1>1, <1>2, <1>4, <1>5, <1>6, <1>7, <1>8, <1>9 DEF Next

\* Every reachable state is well typed: no slot ever holds anything but an
\* exported address or the trap, and the loop's counters never leave the graph.
THEOREM TypeCorrect == Spec => []TypeOK
<1>1. QED
  BY InitType, StepType, PTL DEF Spec

-----------------------------------------------------------------------------
(* Cycles                                                                  *)

\* CycleNeverBinds speaks of the nodes bound now.  It is not inductive: an
\* edge may be added between nodes that were bound once and are not now.  The
\* generation remembers every binding, so the invariant is stated of it: a
\* node that ever bound has only dependencies that did, and a self-supporting
\* set has no node that ever did.
EverBound == {n \in Nodes : trident[n].generation > 0}

CycleInv ==
  /\ \A n \in Nodes : trident[n].state = "UNRESOLVED" => n \notin EverBound
  /\ BoundNodes \subseteq EverBound
  /\ \A n \in EverBound : deps[n] \subseteq EverBound
  /\ \A S \in SUBSET Nodes : SelfSupporting(S) => S \intersect EverBound = {}

LEMMA InitCycle == Init => CycleInv
<1> SUFFICES ASSUME Init PROVE CycleInv
  OBVIOUS
<1>1. \A n \in Nodes : trident[n].generation = 0 /\ trident[n].state = "UNRESOLVED"
  BY DEF Init, InitNode
<1>2. EverBound = {} /\ BoundNodes = {}
  BY <1>1 DEF EverBound, BoundNodes
<1>3. QED
  BY <1>2 DEF CycleInv

\* A resolution binds a node only over bound dependencies, so the node it adds
\* to EverBound cannot belong to a self-supporting set.
LEMMA ResolutionCycle ==
  ASSUME TypeOK, CycleInv, NEW n \in Nodes, NEW t, NEW pol \in Policies,
         Resolution(n, t, pol), UNCHANGED deps
  PROVE  CycleInv'
<1>1. /\ \A m \in Nodes \ {n} : trident'[m] = trident[m]
      /\ trident'[n].state \in {"BOUND", "FAULT"}
      /\ trident'[n].state = "BOUND" => DepsBound(n)
      /\ trident'[n].generation =
              IF trident'[n].state = "BOUND" /\ trident[n].state # "BOUND"
              THEN trident[n].generation + 1 ELSE trident[n].generation
  BY ResolutionMeaning
<1>2. \A m \in Nodes : trident[m].generation \in Nat
  BY DEF TypeOK, Node
<1>3. \/ EverBound' = EverBound
      \/ EverBound' = EverBound \union {n} /\ deps[n] \subseteq EverBound
  <2>1. CASE trident'[n].state = "BOUND" /\ trident[n].state # "BOUND"
    <3>1. EverBound' = EverBound \union {n}
      BY <1>1, <1>2, <2>1 DEF EverBound
    <3>2. deps[n] \subseteq EverBound
      BY <1>1, <2>1 DEF DepsBound, CycleInv
    <3>3. QED
      BY <3>1, <3>2
  <2>2. CASE ~ (trident'[n].state = "BOUND" /\ trident[n].state # "BOUND")
    BY <1>1, <2>2 DEF EverBound
  <2>3. QED
    BY <2>1, <2>2
<1>4. \A m \in Nodes : trident'[m].state = "UNRESOLVED" => m \notin EverBound'
  BY <1>1 DEF CycleInv, EverBound
<1>5. BoundNodes' \subseteq EverBound'
  <2>1. n \in BoundNodes' => n \in EverBound'
    BY <1>1, <1>2 DEF CycleInv, EverBound, BoundNodes
  <2>2. QED
    BY <1>1, <2>1 DEF CycleInv, EverBound, BoundNodes
<1>6. \A m \in EverBound' : deps'[m] \subseteq EverBound'
  BY <1>3 DEF CycleInv
<1>7. ASSUME NEW S \in SUBSET Nodes, SelfSupporting(S)'
      PROVE  S \intersect EverBound' = {}
  <2>1. SelfSupporting(S)
    BY <1>7 DEF SelfSupporting
  <2>2. S \intersect EverBound = {}
    BY <2>1 DEF CycleInv
  <2>3. n \in S => ~ (deps[n] \subseteq EverBound)
    BY <2>1, <2>2 DEF SelfSupporting
  <2>4. QED
    BY <1>3, <2>2, <2>3
<1>8. QED
  BY <1>4, <1>5, <1>6, <1>7 DEF CycleInv

\* New edges leave an unresolved node.  A self-supporting set they create has
\* a self-supporting part of nodes that ever bound, which excludes that node
\* and therefore existed before.
LEMMA SetDepsCycle ==
  ASSUME TypeOK, CycleInv, NEW n \in Nodes, SetDeps(n)
  PROVE  CycleInv'
<1>1. /\ trident' = trident /\ EverBound' = EverBound /\ BoundNodes' = BoundNodes
      /\ n \notin EverBound
      /\ \A m \in Nodes \ {n} : deps'[m] = deps[m]
  BY DEF SetDeps, CycleInv, TypeOK, EverBound, BoundNodes
<1>2. EverBound \subseteq Nodes
  BY DEF EverBound
<1>3. \A m \in EverBound : deps'[m] \subseteq EverBound
  BY <1>1, <1>2 DEF CycleInv
<1>4. ASSUME NEW S \in SUBSET Nodes, SelfSupporting(S)'
      PROVE  S \intersect EverBound = {}
  <2> DEFINE T == S \intersect EverBound
  <2>1. \A m \in T : deps[m] \intersect T # {}
    BY <1>1, <1>2, <1>3, <1>4 DEF SelfSupporting
  <2>2. SelfSupporting(T) /\ T \in SUBSET Nodes
    BY <2>1 DEF SelfSupporting
  <2>3. T \intersect EverBound = {}
    BY <2>2 DEF CycleInv
  <2>4. QED
    BY <2>3
<1>5. QED
  BY <1>1, <1>3, <1>4 DEF CycleInv

LEMMA StepCycle == TypeOK /\ CycleInv /\ [Next]_vars => CycleInv'
<1> SUFFICES ASSUME TypeOK, CycleInv, [Next]_vars PROVE CycleInv'
  OBVIOUS
<1>1. ASSUME NEW n \in Nodes, SetDeps(n) PROVE CycleInv'
  BY <1>1, SetDepsCycle
<1>2. ASSUME NEW n \in Nodes, Attach(n) PROVE CycleInv'
  <2>1. EverBound' = EverBound /\ BoundNodes' = BoundNodes
    BY <1>2, AttachMeaning DEF EverBound, BoundNodes
  <2>2. deps' = deps /\ \A m \in Nodes : trident'[m].state = trident[m].state
    BY <1>2, AttachMeaning DEF Attach
  <2>3. QED
    BY <2>1, <2>2 DEF CycleInv, SelfSupporting
<1>3. ASSUME NEW n \in Nodes, Resolve(n) PROVE CycleInv'
  BY <1>3, ResolveIsResolution, ResolutionCycle DEF Resolve
<1>4. ASSUME NEW n \in Nodes, Swap(n) PROVE CycleInv'
  BY <1>4, SwapIsResolution, ResolutionCycle DEF Swap
<1>5. ASSUME ResolveNext PROVE CycleInv'
  BY <1>5, ResolveNextIsResolution, ResolutionCycle DEF ResolveNext
<1>6. ASSUME UNCHANGED <<trident, deps>> PROVE CycleInv'
  BY <1>6 DEF CycleInv, EverBound, BoundNodes, SelfSupporting
<1>7. ASSUME NEW pol \in Policies, GraphResolve(pol) PROVE CycleInv'
  BY <1>6, <1>7 DEF GraphResolve
<1>8. ASSUME EndPass PROVE CycleInv'
  BY <1>6, <1>8 DEF EndPass, EndOfPass
<1>9. ASSUME UNCHANGED vars PROVE CycleInv'
  BY <1>6, <1>9 DEF vars
<1>10. QED
  BY <1>1, <1>2, <1>3, <1>4, <1>5, <1>7, <1>8, <1>9 DEF Next

LEMMA CycleInvariant == Spec => []CycleInv
<1>1. QED
  BY InitCycle, StepCycle, TypeCorrect, PTL DEF Spec

\* The members of a dependency cycle, and everything downstream of one, stay
\* unbound for ever, whatever offers, policies and calls come.
THEOREM CyclesStayUnbound == Spec => []CycleNeverBinds
<1>1. CycleInv => CycleNeverBinds
  BY DEF CycleInv, CycleNeverBinds
<1>2. QED
  BY <1>1, CycleInvariant, PTL

-----------------------------------------------------------------------------
(* Slots and faults                                                        *)

\* What was attached to a node is one of the offers: with this, the two facts
\* about a node's recorded agreement are inductive.
SlotInv ==
  /\ \A n \in Nodes : trident[n].u2 \in Offers \union {NoDesc}
  /\ SlotsAreAgreed
  /\ FaultsAreBacked

LEMMA ResolvedNodeIsAgreed ==
  ASSUME NEW t \in Node, t.u2 \in Offers \union {NoDesc}, NEW pol \in Policies,
         NEW b \in BOOLEAN
  PROVE  SlotIsAgreed(ResolveNode(t, pol, b)) /\ FaultIsBacked(ResolveNode(t, pol, b))
<1> DEFINE r == ResolveNode(t, pol, b)
           v == Verdict(t.u1, t.u2, pol, b)
<1>1. pol \in Policy
  BY PoliciesArePolicies
<1>2. /\ r.u1 = t.u1
      /\ r.state = IF v.fault = "NONE" THEN "BOUND" ELSE "FAULT"
      /\ r.fault = v.fault /\ r.fpRequired = v.fpReq /\ r.fpProvided = v.fpPrv
      /\ r.w = IF v.fault = "NONE" THEN t.u2.address ELSE Trap
  BY <1>1, ResolveNodeMeaning
<1>3. /\ v.fault = "NONE" =>
           /\ t.u1 # NoDesc /\ t.u2 # NoDesc
           /\ WellFormed(t.u1) /\ WellFormed(t.u2)
           /\ v.fpReq = FpExport(t.u1, pol.arch) /\ v.fpPrv = FpExport(t.u2, pol.arch)
           /\ v.fpReq = v.fpPrv /\ v.fpReq # FpZero
           /\ Satisfies(t.u1.since, t.u2.since, pol.mask) = "OK"
      /\ BackedVerdict(v)
  <2>1. t.u1 \in Descriptor \union {NoDesc} /\ t.u2 \in Descriptor \union {NoDesc}
    BY DEF Node
  <2>2. QED
    BY <1>1, <2>1, VerdictMeaning
<1> HIDE DEF r, v
<1>4. FaultIsBacked(r)
  BY <1>2, <1>3 DEF FaultIsBacked, BackedVerdict
<1>5. CASE v.fault = "NONE"
  <2>1. t.u2 \in Offers
    BY <1>3, <1>5
  <2>2. AgreedOffer(r, t.u2, pol)
    BY <1>2, <1>3, <1>5 DEF AgreedOffer
  <2>3. SlotIsAgreed(r)
    BY <1>2, <1>3, <1>5, <2>1, <2>2 DEF SlotIsAgreed
  <2>4. QED
    BY <1>4, <2>3 DEF r
<1>6. CASE v.fault # "NONE"
  BY <1>2, <1>4, <1>6 DEF SlotIsAgreed, r
<1>7. QED
  BY <1>5, <1>6

LEMMA InitSlots == Init => SlotInv
<1> SUFFICES ASSUME Init PROVE SlotInv
  OBVIOUS
<1>1. ASSUME NEW n \in Nodes
      PROVE  /\ trident[n].u2 = NoDesc /\ trident[n].state = "UNRESOLVED"
             /\ trident[n].fault = "NONE" /\ trident[n].w = Trap
  BY DEF Init, InitNode
<1>2. QED
  BY <1>1 DEF SlotInv, SlotsAreAgreed, SlotIsAgreed, FaultsAreBacked, FaultIsBacked

LEMMA ResolutionSlots ==
  ASSUME TypeOK, SlotInv, NEW n \in Nodes, NEW t, NEW pol \in Policies,
         Resolution(n, t, pol), t.u2 \in Offers \union {NoDesc}
  PROVE  SlotInv'
<1>1. /\ \A m \in Nodes \ {n} : trident'[m] = trident[m]
      /\ trident'[n] = ResolveNode(t, pol, DepsBound(n))
      /\ trident'[n].u2 = t.u2
  BY ResolutionMeaning
<1>2. t \in Node /\ DepsBound(n) \in BOOLEAN
  BY DEF Resolution, DepsBound
<1>3. SlotIsAgreed(trident'[n]) /\ FaultIsBacked(trident'[n])
  BY <1>1, <1>2, ResolvedNodeIsAgreed
<1>4. ASSUME NEW m \in Nodes
      PROVE  /\ trident'[m].u2 \in Offers \union {NoDesc}
             /\ SlotIsAgreed(trident'[m]) /\ FaultIsBacked(trident'[m])
  BY <1>1, <1>3 DEF SlotInv, SlotsAreAgreed, FaultsAreBacked
<1>5. QED
  BY <1>4 DEF SlotInv, SlotsAreAgreed, FaultsAreBacked

LEMMA StepSlots == TypeOK /\ SlotInv /\ [Next]_vars => SlotInv'
<1> SUFFICES ASSUME TypeOK, SlotInv, [Next]_vars PROVE SlotInv'
  OBVIOUS
<1>1. ASSUME UNCHANGED trident PROVE SlotInv'
  BY <1>1 DEF SlotInv, SlotsAreAgreed, FaultsAreBacked
<1>2. ASSUME NEW n \in Nodes, Attach(n) PROVE SlotInv'
  <2>1. ASSUME NEW m \in Nodes
        PROVE  /\ trident'[m].u2 \in Offers \union {NoDesc}
               /\ SlotIsAgreed(trident[m]) => SlotIsAgreed(trident'[m])
               /\ FaultIsBacked(trident[m]) => FaultIsBacked(trident'[m])
    <3>1. /\ trident'[m].u1 = trident[m].u1
          /\ trident'[m].state = trident[m].state
          /\ trident'[m].fault = trident[m].fault
          /\ trident'[m].fpRequired = trident[m].fpRequired
          /\ trident'[m].fpProvided = trident[m].fpProvided
          /\ trident'[m].w = trident[m].w
          /\ trident'[m].u2 \in Offers \union {trident[m].u2}
      BY <1>2, AttachMeaning
    <3>2. \A d, pol : AgreedOffer(trident[m], d, pol) => AgreedOffer(trident'[m], d, pol)
      BY <3>1 DEF AgreedOffer
    <3>3. QED
      BY <3>1, <3>2 DEF SlotInv, SlotIsAgreed, FaultIsBacked
  <2>2. QED
    BY <2>1 DEF SlotInv, SlotsAreAgreed, FaultsAreBacked
<1>3. ASSUME NEW n \in Nodes, Resolve(n) PROVE SlotInv'
  BY <1>3, ResolveIsResolution, ResolutionSlots DEF SlotInv
<1>4. ASSUME NEW n \in Nodes, Swap(n) PROVE SlotInv'
  <2>1. PICK pol \in Policies, d \in Offers :
          Resolution(n, [trident[n] EXCEPT !.u2 = d], pol)
    BY <1>4, SwapIsResolution
  <2>2. [trident[n] EXCEPT !.u2 = d].u2 = d
    BY DEF TypeOK, Node
  <2>3. QED
    BY <2>1, <2>2, ResolutionSlots
<1>5. ASSUME ResolveNext PROVE SlotInv'
  BY <1>5, ResolveNextIsResolution, ResolutionSlots DEF SlotInv
<1>6. QED
  BY <1>1, <1>2, <1>3, <1>4, <1>5 DEF Next, SetDeps, GraphResolve, EndPass, EndOfPass, vars

LEMMA SlotInvariant == Spec => []SlotInv
<1>1. QED
  BY InitSlots, StepSlots, TypeCorrect, PTL DEF Spec

\* No unvalidated address is ever in a slot: behind every bound slot there is
\* one offer that has its address, its identity and an acceptable version.
THEOREM NoUnvalidatedAddress == Spec => []SlotsAreAgreed
<1>1. SlotInv => SlotsAreAgreed
  BY DEF SlotInv
<1>2. QED
  BY <1>1, SlotInvariant, PTL

\* The fault a node reports is always the fault its fingerprints show.
THEOREM ReportedFaultsAreBacked == Spec => []FaultsAreBacked
<1>1. SlotInv => FaultsAreBacked
  BY DEF SlotInv
<1>2. QED
  BY <1>1, SlotInvariant, PTL

-----------------------------------------------------------------------------
(* A run of graph_resolve whose changes all go one way returns the least   *)
(* fixpoint, whatever the order of the nodes, the edges (cycles included), *)
(* the offers and the policy.                                              *)
(*                                                                         *)
(* Two arguments meet.  The loop: within such a run the bound nodes only   *)
(* grow (or only shrink) from the set `start` at the head of the pass to   *)
(* the current one, so two passes that bound equally many nodes bound the  *)
(* same nodes, and the set is a fixpoint of the rule.  The graph: a        *)
(* fixpoint larger than the least one would contain a set of nodes that    *)
(* hold each other up, and CycleNeverBinds excludes it.                    *)

LEMMA NodesAreFinite == IsFiniteSet(Nodes) /\ Cardinality(Nodes) = N
<1>1. IsFiniteSet(1 .. N) /\ Cardinality(1 .. N) = IF 1 > N THEN 0 ELSE N - 1 + 1
  BY NAssumption, FS_Interval
<1>2. QED
  BY <1>1, NAssumption DEF Nodes

LEMMA SubsetsAreFinite ==
  ASSUME NEW S \in SUBSET Nodes
  PROVE  IsFiniteSet(S) /\ Cardinality(S) \in 0 .. N
<1>1. IsFiniteSet(S) /\ Cardinality(S) <= N
  BY NodesAreFinite, FS_Subset
<1>2. Cardinality(S) \in Nat
  BY <1>1, FS_CardinalityType
<1>3. QED
  BY <1>1, <1>2, NAssumption

LEMMA EqualCountsAreEqualSets ==
  ASSUME NEW S \in SUBSET Nodes, NEW T \in SUBSET S, Cardinality(S) = Cardinality(T)
  PROVE  S = T
<1>1. IsFiniteSet(S)
  BY SubsetsAreFinite
<1>2. QED
  BY <1>1, FS_Subset

\* The rule never loses a node when more are bound.
LEMMA BindableMonotone ==
  ASSUME NEW S, NEW T, S \subseteq T, NEW pol
  PROVE  Bindable(S, pol) \subseteq Bindable(T, pol)
BY DEF Bindable

-----------------------------------------------------------------------------
(* A fixpoint without a self-supporting set is the least one.              *)

LEMMA FixpointIsLeast ==
  ASSUME CycleNeverBinds, NEW pol, BoundNodes = Bindable(BoundNodes, pol)
  PROVE  BoundNodes = Least(pol)
<1>1. Least(pol) \subseteq BoundNodes
  <2>1. Closed(BoundNodes, pol) /\ BoundNodes \in SUBSET Nodes
    BY DEF Closed, BoundNodes
  <2>2. QED
    BY <2>1 DEF Least
<1>2. ASSUME NEW S \in SUBSET Nodes, Closed(S, pol)
      PROVE  BoundNodes \subseteq S
  <2> DEFINE T == BoundNodes \ S
  <2>1. ASSUME NEW m \in T PROVE deps[m] \intersect T # {}
    <3>1. m \in Bindable(BoundNodes, pol) /\ m \notin Bindable(S, pol)
      BY <1>2, <2>1 DEF Closed
    <3>2. deps[m] \subseteq BoundNodes /\ ~ (deps[m] \subseteq S)
      BY <3>1 DEF Bindable
    <3>3. QED
      BY <3>2
  <2>2. SelfSupporting(T) /\ T \in SUBSET Nodes
    BY <2>1 DEF SelfSupporting, BoundNodes
  <2>3. T \intersect BoundNodes = {}
    BY <2>2 DEF CycleNeverBinds
  <2>4. QED
    BY <2>3
<1>3. BoundNodes \subseteq Least(pol)
  BY <1>2 DEF Least, BoundNodes
<1>4. QED
  BY <1>1, <1>3

-----------------------------------------------------------------------------
(* The loop                                                                *)

\* The nodes this pass has resolved and bound.
BoundSoFar == {j \in BoundNodes : j < next}

Counts ==
  /\ bound = Cardinality(BoundSoFar)
  /\ pass = 0 => prevBound = NoPass
  /\ pass >= 1 => prevBound = Cardinality(start)

\* While nodes only heal: every bound node stays bindable, and a node that was
\* bindable at the head of the pass is bound once the pass has been there.
RisingPass ==
  /\ start \subseteq BoundNodes
  /\ BoundNodes \subseteq Bindable(BoundNodes, policy)
  /\ \A j \in Bindable(start, policy) : j < next => j \in BoundNodes
  /\ pass >= 1 => prevBound >= pass - 1

\* While nodes only break: every bindable node is still bound, and a node the
\* pass has been to is bound only if it was bindable at the head of the pass.
FallingPass ==
  /\ BoundNodes \subseteq start
  /\ Bindable(BoundNodes, policy) \subseteq BoundNodes
  /\ \A j \in BoundNodes : j < next => j \in Bindable(start, policy)
  /\ pass >= 1 => prevBound <= N - pass + 1

RunInv ==
  /\ pc = "pass" => Counts /\ (rising => RisingPass) /\ (falling => FallingPass)
  /\ pc = "returned" /\ (rising \/ falling) => BoundNodes = Bindable(BoundNodes, policy)

\* A step of a pass decides node next by what is bound at that moment.
LEMMA ResolveNextMeaning ==
  ASSUME TypeOK, ResolveNext
  PROVE  /\ next \in Nodes
         /\ BoundNodes' = IF next \in Bindable(BoundNodes, policy)
                          THEN BoundNodes \union {next} ELSE BoundNodes \ {next}
         /\ \A S : Bindable(S, policy)' = Bindable(S, policy)
         /\ bound' = IF next \in BoundNodes' THEN bound + 1 ELSE bound
         /\ next' = next + 1
         /\ UNCHANGED <<pc, policy, pass, prevBound, start, rising, falling>>
<1>1. next \in Nodes /\ Resolution(next, trident[next], policy) /\ policy \in Policies
  BY ResolveNextIsResolution
<1>2. /\ \A m \in Nodes \ {next} : trident'[m] = trident[m]
      /\ trident'[next].u1 = trident[next].u1 /\ trident'[next].u2 = trident[next].u2
      /\ trident'[next].state = "BOUND"
           <=> DepsBound(next) /\ Admits(trident[next].u1, trident[next].u2, policy)
  BY <1>1, ResolutionMeaning
<1>3. BoundNodes' = IF next \in Bindable(BoundNodes, policy)
                    THEN BoundNodes \union {next} ELSE BoundNodes \ {next}
  <2>1. next \in BoundNodes' <=> next \in Bindable(BoundNodes, policy)
    BY <1>1, <1>2 DEF BoundNodes, Bindable, DepsBound
  <2>2. \A m \in Nodes \ {next} : m \in BoundNodes' <=> m \in BoundNodes
    BY <1>2 DEF BoundNodes
  <2>3. BoundNodes \subseteq Nodes /\ BoundNodes' \subseteq Nodes
    BY DEF BoundNodes
  <2>4. QED
    BY <1>1, <2>1, <2>2, <2>3
<1>4. ASSUME NEW S PROVE Bindable(S, policy)' = Bindable(S, policy)
  <2>1. \A m \in Nodes : trident'[m].u1 = trident[m].u1 /\ trident'[m].u2 = trident[m].u2
    BY <1>1, <1>2
  <2>2. deps' = deps /\ policy' = policy
    BY DEF ResolveNext
  <2>3. QED
    BY <2>1, <2>2 DEF Bindable
<1>5. bound' = IF next \in BoundNodes' THEN bound + 1 ELSE bound
  BY <1>1 DEF ResolveNext, BoundNodes
<1>6. QED
  BY <1>1, <1>3, <1>4, <1>5 DEF ResolveNext, history

LEMMA ResolveNextCounts ==
  ASSUME TypeOK, Counts, ResolveNext
  PROVE  Counts'
<1>1. /\ next \in Nodes /\ next' = next + 1
      /\ BoundNodes' \subseteq Nodes
      /\ \A j \in Nodes \ {next} : j \in BoundNodes' <=> j \in BoundNodes
      /\ bound' = IF next \in BoundNodes' THEN bound + 1 ELSE bound
      /\ UNCHANGED <<pass, prevBound, start>>
  <2>1. BoundNodes' \subseteq Nodes /\ BoundNodes \subseteq Nodes
    BY DEF BoundNodes
  <2>2. QED
    BY <2>1, ResolveNextMeaning
<1>2. BoundSoFar \in SUBSET Nodes /\ next \notin BoundSoFar
  BY <1>1 DEF BoundSoFar, BoundNodes, Nodes
<1>3. BoundSoFar' = IF next \in BoundNodes' THEN BoundSoFar \union {next} ELSE BoundSoFar
  BY <1>1, NAssumption DEF BoundSoFar, BoundNodes, Nodes
<1>4. Cardinality(BoundSoFar \union {next}) = Cardinality(BoundSoFar) + 1
  BY <1>2, SubsetsAreFinite, FS_AddElement
<1>5. QED
  BY <1>1, <1>3, <1>4 DEF Counts

LEMMA ResolveNextRising ==
  ASSUME TypeOK, RisingPass, ResolveNext
  PROVE  RisingPass'
<1>1. /\ next \in Nodes /\ next' = next + 1
      /\ BoundNodes' = IF next \in Bindable(BoundNodes, policy)
                       THEN BoundNodes \union {next} ELSE BoundNodes \ {next}
      /\ \A S : Bindable(S, policy)' = Bindable(S, policy)
      /\ UNCHANGED <<policy, pass, prevBound, start>>
  BY ResolveNextMeaning
<1>2. BoundNodes \subseteq BoundNodes'
  BY <1>1 DEF RisingPass
<1>3. Bindable(BoundNodes, policy) \subseteq Bindable(BoundNodes', policy)
  BY <1>2, BindableMonotone
<1>4. BoundNodes' \subseteq Bindable(BoundNodes, policy)
  BY <1>1 DEF RisingPass
<1>5. Bindable(start, policy) \subseteq Bindable(BoundNodes, policy)
  BY BindableMonotone DEF RisingPass
<1>6. \A j \in Bindable(start, policy) : j < next' => j \in BoundNodes'
  <2>1. ASSUME NEW j \in Bindable(start, policy), j < next' PROVE j \in BoundNodes'
    <3>1. CASE j = next
      BY <1>1, <1>5, <3>1
    <3>2. CASE j # next
      <4>1. j < next
        BY <1>1, <2>1, <3>2 DEF Bindable, Nodes
      <4>2. QED
        BY <1>2, <4>1 DEF RisingPass
    <3>3. QED
      BY <3>1, <3>2
  <2>2. QED
    BY <2>1
<1>7. (BoundNodes \subseteq Bindable(BoundNodes, policy))'
  BY <1>1, <1>3, <1>4
<1>8. (\A j \in Bindable(start, policy) : j < next => j \in BoundNodes)'
  BY <1>1, <1>6
<1>9. QED
  BY <1>1, <1>2, <1>7, <1>8 DEF RisingPass

LEMMA ResolveNextFalling ==
  ASSUME TypeOK, FallingPass, ResolveNext
  PROVE  FallingPass'
<1>1. /\ next \in Nodes /\ next' = next + 1
      /\ BoundNodes' = IF next \in Bindable(BoundNodes, policy)
                       THEN BoundNodes \union {next} ELSE BoundNodes \ {next}
      /\ \A S : Bindable(S, policy)' = Bindable(S, policy)
      /\ UNCHANGED <<policy, pass, prevBound, start>>
  BY ResolveNextMeaning
<1>2. BoundNodes' \subseteq BoundNodes
  BY <1>1 DEF FallingPass
<1>3. Bindable(BoundNodes', policy) \subseteq Bindable(BoundNodes, policy)
  BY <1>2, BindableMonotone
<1>4. Bindable(BoundNodes, policy) \subseteq BoundNodes'
  BY <1>1 DEF FallingPass
<1>5. Bindable(BoundNodes, policy) \subseteq Bindable(start, policy)
  BY BindableMonotone DEF FallingPass
<1>6. \A j \in BoundNodes' : j < next' => j \in Bindable(start, policy)
  <2>1. ASSUME NEW j \in BoundNodes', j < next' PROVE j \in Bindable(start, policy)
    <3>1. CASE j = next
      BY <1>1, <1>5, <2>1, <3>1
    <3>2. CASE j # next
      <4>1. j < next /\ j \in BoundNodes
        BY <1>1, <1>2, <2>1, <3>2 DEF BoundNodes, Nodes
      <4>2. QED
        BY <4>1 DEF FallingPass
    <3>3. QED
      BY <3>1, <3>2
  <2>2. QED
    BY <2>1
<1>7. (Bindable(BoundNodes, policy) \subseteq BoundNodes)'
  BY <1>1, <1>3, <1>4
<1>8. (\A j \in BoundNodes : j < next => j \in Bindable(start, policy))'
  BY <1>1, <1>6
<1>9. QED
  BY <1>1, <1>2, <1>7, <1>8 DEF FallingPass

\* At the end of a pass the count is of all the bound nodes.
LEMMA EndPassCounts ==
  ASSUME TypeOK, Counts, EndPass
  PROVE  /\ BoundSoFar = BoundNodes
         /\ bound = Cardinality(BoundNodes)
         /\ pass >= 1 /\ bound = prevBound => Cardinality(BoundNodes) = Cardinality(start)
         /\ bound = prevBound => pass >= 1
<1>1. next = N + 1
  BY DEF EndPass, EndOfPass
<1>2. BoundSoFar = BoundNodes
  BY <1>1, NAssumption DEF BoundSoFar, BoundNodes, Nodes
<1>3. bound \in Nat /\ pass \in Nat
  BY DEF TypeOK
<1>4. QED
  BY <1>2, <1>3 DEF Counts, NoPass

\* EndPass moves no node, so only the head of the next pass has to be set up.
LEMMA EndPassKeepsNodes ==
  ASSUME TypeOK, EndPass
  PROVE  /\ BoundNodes' = BoundNodes
         /\ policy' = policy /\ rising' = rising /\ falling' = falling
         /\ \A S : Bindable(S, policy)' = Bindable(S, policy)
<1>1. trident' = trident /\ deps' = deps /\ policy' = policy
      /\ rising' = rising /\ falling' = falling
  BY DEF EndPass, EndOfPass, loopVars
<1>2. QED
  BY <1>1 DEF BoundNodes, Bindable

\* The fixpoint test returns only on a fixpoint: equal counts of nested sets.
LEMMA FixpointTestIsSound ==
  ASSUME TypeOK, Counts, EndPass, bound = prevBound,
         RisingPass \/ FallingPass
  PROVE  BoundNodes = Bindable(BoundNodes, policy)
<1>1. /\ Cardinality(BoundNodes) = Cardinality(start)
      /\ BoundNodes \in SUBSET Nodes /\ start \in SUBSET Nodes
  BY EndPassCounts DEF TypeOK, BoundNodes
<1>2. \A j \in Nodes : j < next
  BY NAssumption DEF EndPass, EndOfPass, Nodes
<1>3. BoundNodes = start
  BY <1>1, EqualCountsAreEqualSets DEF RisingPass, FallingPass
<1>4. Bindable(start, policy) \subseteq Nodes
  BY DEF Bindable
<1>5. CASE RisingPass
  BY <1>2, <1>3, <1>4, <1>5 DEF RisingPass
<1>6. CASE FallingPass
  BY <1>1, <1>2, <1>3, <1>6 DEF FallingPass
<1>7. QED
  BY <1>5, <1>6

\* Should the passes run out first, the last one bound every node, or none.
LEMMA ExhaustionIsFixpoint ==
  ASSUME TypeOK, Counts, EndPass, bound # prevBound, pass = N,
         RisingPass \/ FallingPass
  PROVE  BoundNodes = Bindable(BoundNodes, policy)
<1>1. /\ bound = Cardinality(BoundNodes) /\ bound \in 0 .. N
      /\ BoundNodes \in SUBSET Nodes /\ start \in SUBSET Nodes
      /\ Bindable(BoundNodes, policy) \in SUBSET Nodes
  BY EndPassCounts, SubsetsAreFinite DEF TypeOK, BoundNodes, Bindable
<1>2. CASE N = 0
  <2>1. Nodes = {}
    BY <1>2 DEF Nodes
  <2>2. QED
    BY <1>1, <2>1
<1>3. CASE N # 0 /\ RisingPass
  <2>1. prevBound = Cardinality(start) /\ prevBound >= N - 1
    BY <1>3, NAssumption DEF Counts, RisingPass
  <2>2. Cardinality(start) <= Cardinality(BoundNodes)
    BY <1>1, <1>3, SubsetsAreFinite, FS_Subset DEF RisingPass
  <2>3. Cardinality(BoundNodes) = N
    BY <1>1, <2>1, <2>2, NAssumption
  <2>4. BoundNodes = Nodes
    BY <1>1, <2>3, NodesAreFinite, EqualCountsAreEqualSets
  <2>5. QED
    BY <1>1, <1>3, <2>4 DEF RisingPass
<1>4. CASE N # 0 /\ FallingPass
  <2>1. prevBound = Cardinality(start) /\ prevBound <= 1
    BY <1>4, NAssumption DEF Counts, FallingPass
  <2>2. Cardinality(BoundNodes) <= Cardinality(start)
    BY <1>1, <1>4, SubsetsAreFinite, FS_Subset DEF FallingPass
  <2>3. Cardinality(BoundNodes) = 0
    BY <1>1, <2>1, <2>2
  <2>4. BoundNodes = {}
    BY <1>1, <2>3, SubsetsAreFinite, FS_EmptySet
  <2>5. QED
    BY <1>4, <2>4 DEF FallingPass
<1>5. QED
  BY <1>2, <1>3, <1>4

\* The head of the next pass: `start` is the set just reached, and it grew (or
\* shrank) by at least one node in the pass that ends.
LEMMA NextPassCounts ==
  ASSUME TypeOK, Counts, EndPass, bound # prevBound, pass < N
  PROVE  Counts'
<1>1. /\ pass' = pass + 1 /\ prevBound' = bound /\ next' = 1 /\ bound' = 0
      /\ start' = BoundNodes /\ BoundNodes' = BoundNodes
      /\ bound = Cardinality(BoundNodes)
  BY EndPassCounts, EndPassKeepsNodes DEF EndPass, EndOfPass
<1>2. BoundSoFar' = {}
  BY <1>1 DEF BoundSoFar, BoundNodes, Nodes
<1>3. pass \in Nat
  BY DEF TypeOK
<1>4. QED
  BY <1>1, <1>2, <1>3, FS_EmptySet DEF Counts

LEMMA NextPassRising ==
  ASSUME TypeOK, Counts, RisingPass, EndPass, bound # prevBound, pass < N
  PROVE  RisingPass'
<1>1. /\ pass' = pass + 1 /\ prevBound' = bound /\ next' = 1
      /\ start' = BoundNodes /\ BoundNodes' = BoundNodes
      /\ Bindable(start, policy)' = Bindable(start', policy)
      /\ Bindable(BoundNodes, policy)' = Bindable(BoundNodes, policy)
      /\ bound = Cardinality(BoundNodes) /\ pass \in Nat /\ bound \in Nat
  <2>1. trident' = trident /\ deps' = deps /\ policy' = policy
    BY DEF EndPass, EndOfPass
  <2>2. QED
    BY <2>1, EndPassCounts, EndPassKeepsNodes DEF EndPass, EndOfPass, TypeOK, Bindable
<1>2. \A j \in Nodes : ~ (j < next')
  BY <1>1, NAssumption DEF Nodes
<1>3. pass' >= 1 => prevBound' >= pass' - 1
  <2>1. CASE pass = 0
    BY <1>1, <2>1
  <2>2. CASE pass >= 1
    <3>1. prevBound = Cardinality(start) /\ prevBound >= pass - 1
      BY <2>2 DEF Counts, RisingPass
    <3>2. Cardinality(start) <= Cardinality(BoundNodes)
      <4>1. start \subseteq BoundNodes /\ IsFiniteSet(BoundNodes)
        BY SubsetsAreFinite DEF RisingPass, BoundNodes
      <4>2. QED
        BY <4>1, FS_Subset
    <3>3. prevBound \in Int
      BY NAssumption DEF TypeOK, NoPass
    <3>4. QED
      BY <1>1, <3>1, <3>2, <3>3
  <2>3. QED
    BY <1>1, <2>1, <2>2
<1>4. (\A j \in Bindable(start, policy) : j < next => j \in BoundNodes)'
  BY <1>1, <1>2 DEF Bindable
<1>5. (start \subseteq BoundNodes /\ BoundNodes \subseteq Bindable(BoundNodes, policy))'
  BY <1>1 DEF RisingPass
<1>6. QED
  BY <1>3, <1>4, <1>5 DEF RisingPass

LEMMA NextPassFalling ==
  ASSUME TypeOK, Counts, FallingPass, EndPass, bound # prevBound, pass < N
  PROVE  FallingPass'
<1>1. /\ pass' = pass + 1 /\ prevBound' = bound /\ next' = 1
      /\ start' = BoundNodes /\ BoundNodes' = BoundNodes
      /\ Bindable(BoundNodes, policy)' = Bindable(BoundNodes, policy)
      /\ bound = Cardinality(BoundNodes) /\ pass \in Nat /\ bound \in 0 .. N
  <2>1. bound \in 0 .. N
    BY EndPassCounts, SubsetsAreFinite DEF BoundNodes
  <2>2. QED
    BY <2>1, EndPassCounts, EndPassKeepsNodes DEF EndPass, EndOfPass, TypeOK
<1>2. \A j \in Nodes : ~ (j < next')
  BY <1>1, NAssumption DEF Nodes
<1>3. pass' >= 1 => prevBound' <= N - pass' + 1
  <2>1. CASE pass = 0
    BY <1>1, <2>1, NAssumption
  <2>2. CASE pass >= 1
    <3>1. prevBound = Cardinality(start) /\ prevBound <= N - pass + 1
      BY <2>2 DEF Counts, FallingPass
    <3>2. Cardinality(BoundNodes) <= Cardinality(start)
      <4>1. BoundNodes \subseteq start /\ IsFiniteSet(start)
        BY SubsetsAreFinite DEF FallingPass, TypeOK
      <4>2. QED
        BY <4>1, FS_Subset
    <3>3. prevBound \in Int
      BY NAssumption DEF TypeOK, NoPass
    <3>4. QED
      BY <1>1, <3>1, <3>2, <3>3, NAssumption
  <2>3. QED
    BY <1>1, <2>1, <2>2
<1>4. (\A j \in BoundNodes : j < next => j \in Bindable(start, policy))'
  BY <1>1, <1>2 DEF BoundNodes
<1>5. (BoundNodes \subseteq start /\ Bindable(BoundNodes, policy) \subseteq BoundNodes)'
  BY <1>1 DEF FallingPass
<1>6. QED
  BY <1>3, <1>4, <1>5 DEF FallingPass

\* The head of the first pass.
LEMMA GraphResolveBegins ==
  ASSUME TypeOK, NEW pol \in Policies, GraphResolve(pol)
  PROVE  RunInv'
<1>1. /\ pc' = "pass" /\ policy' = pol /\ pass' = 0 /\ next' = 1 /\ bound' = 0
      /\ prevBound' = NoPass /\ start' = BoundNodes /\ BoundNodes' = BoundNodes
      /\ rising' = (BoundNodes \subseteq Bindable(BoundNodes, pol))
      /\ falling' = (Bindable(BoundNodes, pol) \subseteq BoundNodes)
      /\ Bindable(BoundNodes, policy)' = Bindable(BoundNodes, pol)
  BY DEF GraphResolve, BoundNodes, Bindable
<1>2. \A j \in Nodes : ~ (j < next')
  BY <1>1, NAssumption DEF Nodes
<1>3. Counts'
  <2>1. BoundSoFar' = {}
    BY <1>1, <1>2 DEF BoundSoFar, BoundNodes
  <2>2. QED
    BY <1>1, <2>1, FS_EmptySet DEF Counts
<1>4. (\A j \in Bindable(start, policy) : j < next => j \in BoundNodes)'
  BY <1>2 DEF Bindable
<1>5. (\A j \in BoundNodes : j < next => j \in Bindable(start, policy))'
  BY <1>2 DEF BoundNodes
<1>6. (rising => RisingPass)'
  <2>1. rising' => BoundNodes \subseteq Bindable(BoundNodes, pol)
    BY <1>1
  <2>2. rising' => (start \subseteq BoundNodes /\ BoundNodes \subseteq Bindable(BoundNodes, policy))'
    BY <1>1, <2>1
  <2>3. (pass >= 1 => prevBound >= pass - 1)'
    BY <1>1
  <2>4. QED
    BY <1>4, <2>2, <2>3 DEF RisingPass
<1>7. (falling => FallingPass)'
  <2>1. falling' => Bindable(BoundNodes, pol) \subseteq BoundNodes
    BY <1>1
  <2>2. falling' => (BoundNodes \subseteq start /\ Bindable(BoundNodes, policy) \subseteq BoundNodes)'
    BY <1>1, <2>1
  <2>3. (pass >= 1 => prevBound <= N - pass + 1)'
    BY <1>1
  <2>4. QED
    BY <1>5, <2>2, <2>3 DEF FallingPass
<1>8. QED
  BY <1>1, <1>3, <1>6, <1>7 DEF RunInv

LEMMA StepRun == TypeOK /\ RunInv /\ [Next]_vars => RunInv'
<1> SUFFICES ASSUME TypeOK, RunInv, [Next]_vars PROVE RunInv'
  OBVIOUS
<1>1. ASSUME pc' = "idle" PROVE RunInv'
  BY <1>1 DEF RunInv
<1>2. ASSUME NEW pol \in Policies, GraphResolve(pol) PROVE RunInv'
  BY <1>2, GraphResolveBegins
<1>3. ASSUME ResolveNext PROVE RunInv'
  <2>1. pc = "pass" /\ pc' = "pass" /\ rising' = rising /\ falling' = falling
    BY <1>3, ResolveNextMeaning DEF ResolveNext
  <2>2. Counts'
    BY <1>3, <2>1, ResolveNextCounts DEF RunInv
  <2>3. rising => RisingPass'
    BY <1>3, <2>1, ResolveNextRising DEF RunInv
  <2>4. falling => FallingPass'
    BY <1>3, <2>1, ResolveNextFalling DEF RunInv
  <2>5. QED
    BY <2>1, <2>2, <2>3, <2>4 DEF RunInv
<1>4. ASSUME EndPass PROVE RunInv'
  <2>1. /\ pc = "pass" /\ Counts
        /\ rising => RisingPass
        /\ falling => FallingPass
        /\ rising' = rising /\ falling' = falling
        /\ BoundNodes' = BoundNodes
        /\ Bindable(BoundNodes, policy)' = Bindable(BoundNodes, policy)
    <3>1. pc = "pass"
      BY <1>4 DEF EndPass, EndOfPass
    <3>2. trident' = trident /\ deps' = deps /\ policy' = policy
      BY <1>4 DEF EndPass, EndOfPass, loopVars
    <3>3. QED
      BY <1>4, <3>1, <3>2, EndPassKeepsNodes DEF RunInv, BoundNodes, Bindable
  <2>2. CASE bound = prevBound
    <3>1. pc' = "returned"
      BY <1>4, <2>2 DEF EndPass, EndOfPass
    <3>2. rising \/ falling => BoundNodes = Bindable(BoundNodes, policy)
      BY <1>4, <2>1, <2>2, FixpointTestIsSound
    <3>3. QED
      BY <2>1, <3>1, <3>2 DEF RunInv
  <2>3. CASE bound # prevBound /\ pass < N
    <3>1. pc' = "pass"
      BY <1>4, <2>3 DEF EndPass, EndOfPass
    <3>2. Counts'
      BY <1>4, <2>1, <2>3, NextPassCounts
    <3>3. rising => RisingPass'
      BY <1>4, <2>1, <2>3, NextPassRising
    <3>4. falling => FallingPass'
      BY <1>4, <2>1, <2>3, NextPassFalling
    <3>5. QED
      BY <2>1, <3>1, <3>2, <3>3, <3>4 DEF RunInv
  <2>4. CASE bound # prevBound /\ ~ (pass < N)
    <3>1. pc' = "returned"
      BY <1>4, <2>4 DEF EndPass, EndOfPass
    <3>2. pass = N
      BY <2>1, <2>4, NAssumption DEF TypeOK
    <3>3. rising \/ falling => BoundNodes = Bindable(BoundNodes, policy)
      BY <1>4, <2>1, <2>4, <3>2, ExhaustionIsFixpoint
    <3>4. QED
      BY <2>1, <3>1, <3>3 DEF RunInv
  <2>5. QED
    BY <2>2, <2>3, <2>4
<1>5. ASSUME UNCHANGED vars PROVE RunInv'
  BY <1>5 DEF vars, loopVars, history, RunInv, Counts, RisingPass, FallingPass,
              BoundSoFar, BoundNodes, Bindable
<1>6. QED
  BY <1>1, <1>2, <1>3, <1>4, <1>5 DEF Next, SetDeps, Attach, Resolve, Swap

LEMMA RunInvariant == Spec => []RunInv
<1>1. Init => RunInv
  BY DEF Init, RunInv
<1>2. QED
  BY <1>1, StepRun, TypeCorrect, PTL DEF Spec

\* A run whose changes all heal, or all break, returns the least fixpoint: the
\* nodes bound are those whose hooks agree and whose whole upstream is bound.
THEOREM OneSidedRunsReachLeast == Spec => []OneSidedRunIsLeast
<1>1. RunInv /\ CycleNeverBinds => OneSidedRunIsLeast
  BY FixpointIsLeast DEF RunInv, OneSidedRunIsLeast
<1>2. QED
  BY <1>1, RunInvariant, CyclesStayUnbound, PTL

-----------------------------------------------------------------------------
(* What every run of graph_resolve guarantees, mixed runs included: each   *)
(* pass decides for good the nodes of one more rank, a node's rank being   *)
(* above those of the nodes it depends on; and the loop returns from its   *)
(* fixpoint test.                                                          *)

LEMMA LeastIsFixpoint ==
  ASSUME NEW pol
  PROVE  Bindable(Least(pol), pol) = Least(pol)
<1> DEFINE L == Least(pol)
<1>1. ASSUME NEW S \in SUBSET Nodes, Closed(S, pol)
      PROVE  L \subseteq S /\ Bindable(L, pol) \subseteq S
  <2>1. L \subseteq S
    BY <1>1 DEF Least
  <2>2. Bindable(L, pol) \subseteq Bindable(S, pol)
    BY <2>1, BindableMonotone
  <2>3. QED
    BY <1>1, <2>1, <2>2 DEF Closed
<1>2. Bindable(L, pol) \subseteq L
  <2>1. Bindable(L, pol) \subseteq Nodes
    BY DEF Bindable
  <2>2. QED
    BY <1>1, <2>1 DEF Least
<1>3. L \subseteq Bindable(L, pol)
  <2>1. Bindable(L, pol) \in SUBSET Nodes
    BY DEF Bindable
  <2>2. Closed(Bindable(L, pol), pol)
    BY <1>2, BindableMonotone DEF Closed
  <2>3. QED
    BY <1>1, <2>1, <2>2
<1>4. QED
  BY <1>2, <1>3

\* Inside a run, at pass number `pass` (from 0) and node `next`: the nodes of
\* rank at most pass are decided, and so are those of the next rank that this
\* pass has already visited.
Decided(n) == n \in BoundNodes <=> n \in Least(policy)

RankInv ==
  /\ pc = "pass" =>
       \A rank \in Rankings : \A n \in Nodes :
         rank[n] <= N /\ (rank[n] <= pass \/ (rank[n] <= pass + 1 /\ n < next)) => Decided(n)
  /\ PassesSettleRanks

\* Least speaks of the hooks, the edges and the policy only.
LEMMA LeastUnchanged ==
  ASSUME NEW pol, \A S : Bindable(S, pol)' = Bindable(S, pol)
  PROVE  Least(pol)' = Least(pol)
BY DEF Least, Closed, Nodes

LEMMA ResolveNextRanks ==
  ASSUME TypeOK, RankInv, ResolveNext
  PROVE  RankInv'
<1>1. /\ next \in Nodes /\ next' = next + 1 /\ pass' = pass /\ policy' = policy
      /\ deps' = deps /\ pc = "pass" /\ pc' = "pass"
      /\ BoundNodes' = IF next \in Bindable(BoundNodes, policy)
                       THEN BoundNodes \union {next} ELSE BoundNodes \ {next}
      /\ \A S : Bindable(S, policy)' = Bindable(S, policy)
  BY ResolveNextMeaning DEF ResolveNext
<1>2. Least(policy)' = Least(policy)
  BY <1>1, LeastUnchanged
<1>3. Rankings' = Rankings /\ Nodes' = Nodes
  BY <1>1 DEF Rankings, Nodes
<1>4. \A n \in Nodes \ {next} : Decided(n)' <=> Decided(n)
  BY <1>1, <1>2 DEF Decided
<1>5. ASSUME NEW rank \in Rankings, NEW n \in Nodes, n = next,
             rank[next] <= N, rank[next] <= pass + 1
      PROVE  Decided(n)'
  <2>1. \A m \in deps[next] : m \in Nodes /\ Decided(m)
    <3>1. ASSUME NEW m \in deps[next] PROVE m \in Nodes /\ rank[m] < rank[next]
      BY <1>1, <1>5 DEF Rankings
    <3>2. ASSUME NEW m \in deps[next] PROVE rank[m] <= N /\ rank[m] <= pass
      <4>1. rank[m] \in Nat /\ rank[next] \in Nat
        BY <1>1, <3>1, <3>2, NAssumption DEF Rankings
      <4>2. QED
        BY <1>5, <3>1, <3>2, <4>1, NAssumption DEF TypeOK
    <3>3. QED
      BY <1>1, <3>1, <3>2 DEF RankInv
  <2>2. deps[next] \subseteq BoundNodes <=> deps[next] \subseteq Least(policy)
    BY <2>1 DEF Decided
  <2>3. next \in Bindable(BoundNodes, policy) <=> next \in Bindable(Least(policy), policy)
    BY <2>2 DEF Bindable
  <2>4. next \in BoundNodes' <=> next \in Least(policy)
    BY <1>1, <2>3, LeastIsFixpoint
  <2>5. n \in BoundNodes' <=> n \in Least(policy)'
    BY <1>2, <1>5, <2>4
  <2>6. QED
    BY <2>5 DEF Decided
<1>6. ASSUME NEW rank \in Rankings, NEW n \in Nodes, rank[n] <= N,
             rank[n] <= pass \/ (rank[n] <= pass + 1 /\ n < next + 1)
      PROVE  Decided(n)'
  <2>1. rank[n] \in Nat /\ pass \in Nat /\ next \in Nat /\ n \in Nat
    BY <1>1, NAssumption DEF TypeOK, Rankings, Nodes
  <2>2. CASE n = next
    BY <1>5, <1>6, <2>1, <2>2
  <2>3. CASE n # next
    <3>1. rank[n] <= pass \/ (rank[n] <= pass + 1 /\ n < next)
      BY <1>6, <2>1, <2>3
    <3>2. Decided(n)
      BY <1>1, <1>6, <3>1 DEF RankInv
    <3>3. QED
      BY <1>4, <2>3, <3>2
  <2>4. QED
    BY <2>2, <2>3
<1>7. QED
  BY <1>1, <1>3, <1>6 DEF RankInv, PassesSettleRanks

LEMMA EndPassRanks ==
  ASSUME TypeOK, RankInv, EndPass
  PROVE  RankInv'
<1>1. /\ pc = "pass" /\ next = N + 1 /\ trident' = trident /\ deps' = deps /\ policy' = policy
      /\ \/ pc' = "returned" /\ pass' = pass
         \/ pc' = "pass" /\ pass' = pass + 1 /\ next' = 1
         \/ pc' = "returned" /\ pass' = pass + 1 /\ pass >= N
      /\ pass \in Nat
  BY NAssumption DEF EndPass, EndOfPass, loopVars, TypeOK
<1>2. Rankings' = Rankings /\ Nodes' = Nodes /\ \A n \in Nodes : Decided(n)' <=> Decided(n)
  BY <1>1 DEF Rankings, Nodes, Decided, BoundNodes, Least, Closed, Bindable
<1>3. ASSUME NEW rank \in Rankings, NEW n \in Nodes
      PROVE  rank[n] \in Nat /\ n \in Nat /\ n < next
  BY <1>1, NAssumption DEF Rankings, Nodes
<1>4. ASSUME NEW rank \in Rankings, NEW n \in Nodes, rank[n] <= N, rank[n] <= pass + 1
      PROVE  Decided(n)'
  BY <1>1, <1>2, <1>3, <1>4 DEF RankInv
<1>5. CASE pc' = "pass"
  BY <1>1, <1>2, <1>3, <1>4, <1>5 DEF RankInv, PassesSettleRanks, Nodes
<1>6. CASE pc' = "returned"
  <2>1. ASSUME NEW rank \in Rankings, NEW n \in Nodes, rank[n] <= N, rank[n] <= pass' + 1
        PROVE  Decided(n)'
    BY <1>1, <1>3, <1>4, <1>6, <2>1, NAssumption
  <2>2. SettledTo(pass + 1)'
    BY <1>2, <2>1 DEF SettledTo, Decided
  <2>3. QED
    BY <1>6, <2>2 DEF RankInv, PassesSettleRanks
<1>7. QED
  BY <1>1, <1>5, <1>6

LEMMA GraphResolveRanks ==
  ASSUME TypeOK, NEW pol \in Policies, GraphResolve(pol)
  PROVE  RankInv'
<1>1. pc' = "pass" /\ pass' = 0 /\ next' = 1
  BY DEF GraphResolve
<1>2. ASSUME NEW rank \in Rankings', NEW n \in Nodes'
      PROVE  rank[n] \in Nat /\ rank[n] > 0 /\ n \in Nat /\ n > 0
  BY NAssumption DEF Rankings, Nodes
<1>3. QED
  BY <1>1, <1>2 DEF RankInv, PassesSettleRanks

LEMMA StepRanks == TypeOK /\ RankInv /\ [Next]_vars => RankInv'
<1> SUFFICES ASSUME TypeOK, RankInv, [Next]_vars PROVE RankInv'
  OBVIOUS
<1>1. ASSUME pc' = "idle" PROVE RankInv'
  BY <1>1 DEF RankInv, PassesSettleRanks
<1>2. ASSUME NEW pol \in Policies, GraphResolve(pol) PROVE RankInv'
  BY <1>2, GraphResolveRanks
<1>3. CASE ResolveNext
  BY <1>3, ResolveNextRanks
<1>4. CASE EndPass
  BY <1>4, EndPassRanks
<1>5. CASE UNCHANGED vars
  BY <1>5 DEF vars, loopVars, history, RankInv, PassesSettleRanks, SettledTo, Decided, Rankings,
              Nodes, BoundNodes, Least, Closed, Bindable
<1>6. QED
  BY <1>1, <1>2, <1>3, <1>4, <1>5 DEF Next, SetDeps, Attach, Resolve, Swap

\* Every run decides one more rank of nodes with every pass it makes, whatever
\* healed and broke before it and however early it returns.
THEOREM PassesSettle == Spec => []PassesSettleRanks
<1>1. Init => RankInv
  BY DEF Init, RankInv, PassesSettleRanks
<1>2. RankInv => PassesSettleRanks
  BY DEF RankInv
<1>3. QED
  BY <1>1, <1>2, StepRanks, TypeCorrect, PTL DEF Spec

-----------------------------------------------------------------------------
(* The pass bound is never what ends a run                                 *)

\* The nodes outside D wait for a node outside D, or for a NULL one.
Stuck(D) == \A n \in Nodes \ D : ~ (deps[n] \subseteq D)

\* D was decided for good when the pass began, together with all that its
\* nodes depend on; so is any node that depends on D only, once the pass has
\* been there.
Settled(D) ==
  /\ \A n \in D : /\ deps[n] \subseteq D /\ Decided(n)
                  /\ n \in start <=> n \in Least(policy)
  /\ \A n \in Nodes : deps[n] \subseteq D /\ n < next => Decided(n)

\* Every pass adds a node to such a set, until all that is left is stuck.
FrontierInv ==
  /\ pc = "pass" =>
       /\ start \subseteq EverBound
       /\ \E D \in SUBSET Nodes : Settled(D) /\ (Cardinality(D) >= pass \/ Stuck(D))
  /\ ReturnsFromFixpointTest

\* A node that is stuck never bound: it would have bound over another one.
LEMMA StuckNeverBinds ==
  ASSUME CycleInv, NEW D \in SUBSET Nodes, Stuck(D)
  PROVE  EverBound \subseteq D
<1> DEFINE T == EverBound \ D
<1>1. ASSUME NEW n \in T PROVE deps[n] \intersect T # {}
  <2>1. n \in Nodes \ D /\ deps[n] \subseteq EverBound
    BY <1>1 DEF CycleInv, EverBound
  <2>2. QED
    BY <2>1 DEF Stuck
<1>2. SelfSupporting(T) /\ T \in SUBSET Nodes
  BY <1>1 DEF SelfSupporting, EverBound
<1>3. T \intersect EverBound = {}
  BY <1>2 DEF CycleInv
<1>4. QED
  BY <1>3

\* A resolution forgets no binding.
LEMMA ResolutionRemembers ==
  ASSUME TypeOK, NEW n \in Nodes, NEW t, NEW pol \in Policies, Resolution(n, t, pol)
  PROVE  EverBound \subseteq EverBound'
<1>1. \A m \in Nodes : trident[m].generation \in Nat
  BY DEF TypeOK, Node
<1>2. \A m \in Nodes : trident[m].generation > 0 => trident'[m].generation > 0
  <2>1. ASSUME NEW m \in Nodes, trident[m].generation > 0 PROVE trident'[m].generation > 0
    <3>1. trident'[m].generation = trident[m].generation \/ trident'[m].generation = trident[m].generation + 1
      BY ResolutionMeaning
    <3>2. QED
      BY <1>1, <2>1, <3>1
  <2>2. QED
    BY <2>1
<1>3. QED
  BY <1>2 DEF EverBound, Nodes

\* A node that depends on decided nodes only is decided by its resolution.
LEMMA ResolutionDecides ==
  ASSUME TypeOK, ResolveNext, \A m \in deps[next] : m \in Nodes /\ Decided(m)
  PROVE  \A n \in Nodes : n = next => Decided(n)'
<1>1. /\ next \in Nodes /\ next' = next + 1 /\ policy' = policy
      /\ BoundNodes' = IF next \in Bindable(BoundNodes, policy)
                       THEN BoundNodes \union {next} ELSE BoundNodes \ {next}
      /\ \A S : Bindable(S, policy)' = Bindable(S, policy)
  BY ResolveNextMeaning DEF ResolveNext
<1>2. Least(policy)' = Least(policy)
  BY <1>1, LeastUnchanged
<1>3. deps[next] \subseteq BoundNodes <=> deps[next] \subseteq Least(policy)
  BY DEF Decided
<1>4. next \in Bindable(BoundNodes, policy) <=> next \in Bindable(Least(policy), policy)
  BY <1>3 DEF Bindable
<1>5. next \in BoundNodes' <=> next \in Least(policy)
  BY <1>1, <1>4, LeastIsFixpoint
<1>6. QED
  BY <1>2, <1>5 DEF Decided

LEMMA ResolveNextFrontier ==
  ASSUME TypeOK, FrontierInv, ResolveNext
  PROVE  FrontierInv'
<1>1. /\ pc = "pass" /\ next \in Nodes /\ pc' = pc /\ next' = next + 1
      /\ pass' = pass /\ policy' = policy /\ deps' = deps /\ start' = start
      /\ \A S : Bindable(S, policy)' = Bindable(S, policy)
      /\ BoundNodes' = IF next \in Bindable(BoundNodes, policy)
                       THEN BoundNodes \union {next} ELSE BoundNodes \ {next}
  BY ResolveNextMeaning DEF ResolveNext
<1>2. Least(policy)' = Least(policy)
  BY <1>1, LeastUnchanged
<1>3. start' \subseteq EverBound'
  <2>1. EverBound \subseteq EverBound'
    BY ResolveNextIsResolution, ResolutionRemembers
  <2>2. QED
    BY <1>1, <2>1 DEF FrontierInv
<1>4. PICK D \in SUBSET Nodes : Settled(D) /\ (Cardinality(D) >= pass \/ Stuck(D))
  BY <1>1 DEF FrontierInv
<1>5. \A n \in Nodes \ {next} : Decided(n)' <=> Decided(n)
  BY <1>1, <1>2 DEF Decided
<1>6. ASSUME NEW n \in Nodes, deps[n] \subseteq D, n < next + 1
      PROVE  Decided(n)'
  <2>1. CASE n = next
    <3>1. \A m \in deps[next] : m \in Nodes /\ Decided(m)
      BY <1>4, <1>6, <2>1 DEF Settled
    <3>2. QED
      BY <2>1, <3>1, ResolutionDecides
  <2>2. CASE n # next
    <3>1. n < next
      BY <1>1, <1>6, <2>2 DEF Nodes
    <3>2. QED
      BY <1>4, <1>5, <1>6, <2>2, <3>1 DEF Settled
  <2>3. QED
    BY <2>1, <2>2
<1>7. ASSUME NEW n \in D
      PROVE  deps[n] \subseteq D /\ Decided(n)' /\ (n \in start <=> n \in Least(policy))
  <2>1. n \in Nodes /\ deps[n] \subseteq D /\ Decided(n) /\ (n \in start <=> n \in Least(policy))
    BY <1>4, <1>7 DEF Settled
  <2>2. CASE n = next
    BY <1>1, <1>6, <2>1, <2>2 DEF Nodes
  <2>3. CASE n # next
    BY <1>5, <2>1, <2>3
  <2>4. QED
    BY <2>1, <2>2, <2>3
<1>8. Settled(D)'
  BY <1>1, <1>2, <1>6, <1>7 DEF Settled, Nodes
<1>9. (Cardinality(D) >= pass \/ Stuck(D))'
  BY <1>1, <1>4 DEF Stuck, Nodes
<1>10. QED
  <2>1. pc' = "pass" /\ D \in SUBSET (Nodes') /\ Nodes' = Nodes
    BY <1>1, <1>4 DEF Nodes
  <2>2. (\E S \in SUBSET Nodes : Settled(S) /\ (Cardinality(S) >= pass \/ Stuck(S)))'
    BY <1>8, <1>9, <2>1
  <2>3. QED
    BY <1>3, <2>1, <2>2 DEF FrontierInv, ReturnsFromFixpointTest

\* The nodes that depend on D only, the next set: nothing is added to D only
\* when the rest is stuck.
Beyond(D) == {n \in Nodes : deps[n] \subseteq D}

LEMMA BeyondGrows ==
  ASSUME NEW D \in SUBSET Nodes, \A n \in D : deps[n] \subseteq D
  PROVE  /\ D \subseteq Beyond(D)
         /\ \A n \in Beyond(D) : deps[n] \subseteq Beyond(D)
         /\ Stuck(D) => Beyond(D) = D
         /\ Beyond(D) = D => Stuck(D)
         /\ Beyond(D) # D => Cardinality(Beyond(D)) >= Cardinality(D) + 1
<1>1. D \subseteq Beyond(D) /\ Beyond(D) \in SUBSET Nodes
  BY DEF Beyond
<1>2. \A n \in Beyond(D) : deps[n] \subseteq Beyond(D)
  BY <1>1 DEF Beyond
<1>3. (Stuck(D) => Beyond(D) = D) /\ (Beyond(D) = D => Stuck(D))
  BY <1>1 DEF Beyond, Stuck
<1>4. ASSUME Beyond(D) # D PROVE Cardinality(Beyond(D)) >= Cardinality(D) + 1
  <2>1. IsFiniteSet(Beyond(D)) /\ Cardinality(D) \in Nat /\ Cardinality(Beyond(D)) \in Nat
    BY <1>1, SubsetsAreFinite
  <2>2. Cardinality(D) <= Cardinality(Beyond(D)) /\ Cardinality(D) # Cardinality(Beyond(D))
    BY <1>1, <1>4, <2>1, FS_Subset
  <2>3. QED
    BY <2>1, <2>2
<1>5. QED
  BY <1>1, <1>2, <1>3, <1>4

\* When what is left is stuck, the pass bound again what was bound before it.
LEMMA StuckPassChangesNothing ==
  ASSUME TypeOK, CycleInv, NEW D \in SUBSET Nodes, Settled(D), Stuck(D), start \subseteq EverBound
  PROVE  BoundNodes = start
<1>1. EverBound \subseteq D /\ BoundNodes \subseteq D
  BY StuckNeverBinds DEF CycleInv
<1>2. QED
  BY <1>1 DEF Settled, Decided

LEMMA EndPassFrontier ==
  ASSUME TypeOK, CycleInv, RunInv, FrontierInv, EndPass
  PROVE  FrontierInv'
<1>1. /\ pc = "pass" /\ next = N + 1 /\ trident' = trident /\ deps' = deps
      /\ pass \in Nat /\ pass <= N
      /\ IF bound = prevBound
         THEN pc' = "returned" /\ pass' = pass
         ELSE /\ pc' = IF pass < N THEN "pass" ELSE "returned"
              /\ pass' = pass + 1 /\ start' = BoundNodes /\ policy' = policy
              /\ pass < N => next' = 1
  BY NAssumption DEF EndPass, EndOfPass, loopVars, TypeOK
<1>2. PICK D \in SUBSET Nodes : Settled(D) /\ (Cardinality(D) >= pass \/ Stuck(D))
  BY <1>1 DEF FrontierInv
<1>3. \A n \in Nodes : n < next
  BY <1>1, NAssumption DEF Nodes
<1>4. \A n \in Beyond(D) : Decided(n)
  BY <1>2, <1>3 DEF Settled, Beyond
<1>5. CASE bound = prevBound
  BY <1>1, <1>5 DEF FrontierInv, ReturnsFromFixpointTest
<1>6. CASE bound # prevBound /\ pass < N
  <2>0. PICK E \in SUBSET Nodes : E = Beyond(D)
    BY DEF Beyond
  <2>1. /\ pc' = "pass" /\ pass' = pass + 1 /\ start' = BoundNodes /\ policy' = policy /\ next' = 1
        /\ Nodes' = Nodes /\ BoundNodes' = BoundNodes /\ EverBound' = EverBound
        /\ Least(policy)' = Least(policy)
    BY <1>1, <1>6 DEF Nodes, BoundNodes, EverBound, Least, Closed, Bindable
  <2>2. start' \subseteq EverBound'
    BY <2>1 DEF CycleInv
  <2>3. /\ \A n \in E : deps[n] \subseteq E
        /\ Cardinality(E) >= pass + 1 \/ Stuck(E)
    <3>1. /\ D \subseteq E /\ \A n \in E : deps[n] \subseteq E
          /\ Stuck(D) => E = D
          /\ E = D => Stuck(D)
          /\ E # D => Cardinality(E) >= Cardinality(D) + 1
      BY <1>2, <2>0, BeyondGrows DEF Settled
    <3>2. Cardinality(E) \in Nat /\ Cardinality(D) \in Nat
      BY SubsetsAreFinite
    <3>3. QED
      BY <1>1, <1>2, <3>1, <3>2
  <2>4. Settled(E)'
    <3>1. \A n \in E : Decided(n)' /\ (n \in start <=> n \in Least(policy))'
      BY <1>4, <2>0, <2>1 DEF Decided
    <3>2. \A n \in Nodes : ~ (n < next')
      BY <2>1, NAssumption DEF Nodes
    <3>3. \A n \in E : deps'[n] \subseteq E
      BY <1>1, <2>3
    <3>4. QED
      BY <2>1, <3>1, <3>2, <3>3 DEF Settled
  <2>5. (Cardinality(E) >= pass \/ Stuck(E))'
    BY <1>1, <2>1, <2>3 DEF Stuck
  <2>6. (\E S \in SUBSET Nodes : Settled(S) /\ (Cardinality(S) >= pass \/ Stuck(S)))'
    BY <2>1, <2>3, <2>4, <2>5
  <2>7. QED
    BY <2>1, <2>2, <2>6 DEF FrontierInv, ReturnsFromFixpointTest
<1>7. CASE bound # prevBound /\ ~ (pass < N)
  <2>1. pc' = "returned" /\ pass = N
    BY <1>1, <1>7, NAssumption
  <2>2. Stuck(D)
    <3>1. CASE Cardinality(D) >= N
      <4>1. Cardinality(D) = Cardinality(Nodes)
        BY <1>2, <3>1, NodesAreFinite, SubsetsAreFinite, NAssumption
      <4>2. D = Nodes
        BY <1>2, <4>1, EqualCountsAreEqualSets
      <4>3. QED
        BY <4>2 DEF Stuck
    <3>2. QED
      BY <1>2, <2>1, <3>1
  <2>3. BoundNodes = start
    BY <1>1, <1>2, <2>2, StuckPassChangesNothing DEF FrontierInv
  <2>4. N > 0 => bound = prevBound
    BY <1>1, <2>1, <2>3, EndPassCounts DEF RunInv, Counts
  <2>5. QED
    BY <1>7, <2>1, <2>4 DEF FrontierInv, ReturnsFromFixpointTest
<1>8. QED
  BY <1>5, <1>6, <1>7

\* Before the first pass nothing is decided.
LEMMA GraphResolveFrontier ==
  ASSUME TypeOK, CycleInv, NEW pol \in Policies, GraphResolve(pol)
  PROVE  FrontierInv'
<1>1. pc' = "pass" /\ pass' = 0 /\ next' = 1 /\ start' = BoundNodes /\ EverBound' = EverBound
  BY DEF GraphResolve, EverBound
<1>2. \A n \in Nodes' : ~ (n < next')
  BY <1>1, NAssumption DEF Nodes
<1>3. Settled({})'
  BY <1>2 DEF Settled
<1>4. Cardinality({}) >= pass'
  BY <1>1, FS_EmptySet
<1>5. (\E S \in SUBSET Nodes : Settled(S) /\ (Cardinality(S) >= pass \/ Stuck(S)))'
  BY <1>3, <1>4
<1>6. start' \subseteq EverBound'
  BY <1>1 DEF CycleInv
<1>7. QED
  BY <1>1, <1>5, <1>6 DEF FrontierInv, ReturnsFromFixpointTest

LEMMA StepFrontier == TypeOK /\ CycleInv /\ RunInv /\ FrontierInv /\ [Next]_vars => FrontierInv'
<1> SUFFICES ASSUME TypeOK, CycleInv, RunInv, FrontierInv, [Next]_vars PROVE FrontierInv'
  OBVIOUS
<1>1. ASSUME pc' = "idle" PROVE FrontierInv'
  BY <1>1 DEF FrontierInv, ReturnsFromFixpointTest
<1>2. ASSUME NEW pol \in Policies, GraphResolve(pol) PROVE FrontierInv'
  BY <1>2, GraphResolveFrontier
<1>3. CASE ResolveNext
  BY <1>3, ResolveNextFrontier
<1>4. CASE EndPass
  BY <1>4, EndPassFrontier
<1>5. CASE UNCHANGED vars
  BY <1>5 DEF vars, loopVars, history, FrontierInv, ReturnsFromFixpointTest, Settled, Stuck,
              Decided, EverBound, Nodes, BoundNodes, Least, Closed, Bindable
<1>6. QED
  BY <1>1, <1>2, <1>3, <1>4, <1>5 DEF Next, SetDeps, Attach, Resolve, Swap

\* Every run over at least one node returns from its fixpoint test, on every
\* graph and whatever heals and breaks: when the loop reaches the last pass its
\* bound allows, that pass binds what the one before it bound.
THEOREM RunsReturnFromTheTest == Spec => []ReturnsFromFixpointTest
<1>1. Init => FrontierInv
  BY DEF Init, FrontierInv, ReturnsFromFixpointTest
<1>2. FrontierInv => ReturnsFromFixpointTest
  BY DEF FrontierInv
<1>3. QED
  BY <1>1, <1>2, StepFrontier, TypeCorrect, CycleInvariant, RunInvariant, PTL DEF Spec
=============================================================================
