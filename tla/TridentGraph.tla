---------------------------- MODULE TridentGraph ----------------------------
(***************************************************************************)
(* A set of trident nodes and the resolver that runs them to a fixpoint    *)
(* (src/mmuko_trident.c).  A node is named by its position in the nodes[]  *)
(* array handed to mmuko_trident_graph_resolve, so the order in which a    *)
(* pass visits the nodes is the order of Nodes and the dependency edges    *)
(* may point either way along it.                                          *)
(*                                                                         *)
(* The owner of the graph is one thread: while a run of graph_resolve is   *)
(* in progress (pc = "pass") nothing else changes the nodes.  One step of  *)
(* a run is the resolution of one node; a pass updates the nodes in place, *)
(* so a node sees the new state of the nodes before it and the old state   *)
(* of those after it.                                                      *)
(***************************************************************************)
EXTENDS TridentRule, Integers, FiniteSets

CONSTANTS
  N,           \* count: how many nodes the graph has
  Required,    \* u1 of each node, constant for the caller's life
  Offers,      \* what may be attached as u2 (NoDesc withdraws it)
  Policies,    \* the policies the caller resolves under
  DepChoices,  \* the dependency arrays the caller may attach to each node
  MaxCalls     \* bound on the calls into the resolver

Nodes   == 1 .. N
NullDep == 0   \* a NULL pointer in a deps[] array

ASSUME NAssumption == N \in Nat

ASSUME GraphAssumption ==
  /\ Required \in [Nodes -> Descriptor \union {NoDesc}]
  /\ Offers \subseteq Descriptor \union {NoDesc}
  /\ Policies \subseteq Policy /\ Policies # {}
  /\ DepChoices \in [Nodes -> SUBSET SUBSET (Nodes \union {NullDep})]
  /\ MaxCalls \in Nat

VARIABLES
  trident,    \* the nodes
  deps,       \* their dependency edges
  pc,         \* "idle", "pass" inside graph_resolve, "returned" after it
  policy,     \* graph_resolve's locals: the policy,
  pass,       \*   the pass counter,
  next,       \*   the node the pass resolves next,
  bound,      \*   how many nodes this pass bound so far,
  prevBound,  \*   how many the pass before it bound
  calls,      \* calls made so far, up to MaxCalls
  start,      \* history: the nodes that were bound when the pass began
  rising,     \* history: the run began with every bound node still bindable
  falling     \* history: the run began with every bindable node bound

loopVars == <<policy, pass, next, bound, prevBound>>
history  == <<start, rising, falling>>
vars     == <<trident, deps, pc, loopVars, calls, history>>

\* prev_bound starts at 0xFFFFFFFF, which no count of nodes equals.
NoPass == -1

BoundNodes == {n \in Nodes : trident[n].state = "BOUND"}

DepsBound(n) == deps[n] \subseteq BoundNodes

\* The nodes the rule would bind if exactly the nodes of B were bound.
Bindable(B, pol) ==
  {n \in Nodes : Admits(trident[n].u1, trident[n].u2, pol) /\ deps[n] \subseteq B}

-----------------------------------------------------------------------------
Init ==
  /\ trident   = [n \in Nodes |-> InitNode(Required[n])]
  /\ deps      = [n \in Nodes |-> {}]
  /\ pc        = "idle"
  /\ policy    \in Policies
  /\ pass      = 0
  /\ next      = 1
  /\ bound     = 0
  /\ prevBound = NoPass
  /\ calls     = 0
  /\ start     = {}
  /\ rising    = FALSE
  /\ falling   = FALSE

\* The interface asks for the edges before the first resolution of the node.
SetDeps(n) ==
  /\ pc # "pass"
  /\ trident[n].state = "UNRESOLVED"
  /\ \E ds \in DepChoices[n] : deps' = [deps EXCEPT ![n] = ds]
  /\ pc' = "idle"
  /\ UNCHANGED <<trident, loopVars, calls, history>>

\* t->u2_provided = d, to be decided by the next resolution.
Attach(n) ==
  /\ pc # "pass"
  /\ \E d \in Offers : trident' = [trident EXCEPT ![n].u2 = d]
  /\ pc' = "idle"
  /\ UNCHANGED <<deps, loopVars, calls, history>>

Call ==
  /\ pc # "pass"
  /\ calls < MaxCalls
  /\ calls' = calls + 1

Resolve(n) ==
  /\ Call
  /\ \E pol \in Policies :
       trident' = [trident EXCEPT ![n] = ResolveNode(@, pol, DepsBound(n))]
  /\ pc' = "idle"
  /\ UNCHANGED <<deps, loopVars, history>>

Swap(n) ==
  /\ Call
  /\ \E pol \in Policies, d \in Offers :
       trident' = [trident EXCEPT ![n] = SwapNode(@, d, pol, DepsBound(n))]
  /\ pc' = "idle"
  /\ UNCHANGED <<deps, loopVars, history>>

GraphResolve(pol) ==
  /\ Call
  /\ pc'        = "pass"
  /\ policy'    = pol
  /\ pass'      = 0
  /\ next'      = 1
  /\ bound'     = 0
  /\ prevBound' = NoPass
  /\ start'     = BoundNodes
  /\ rising'    = (BoundNodes \subseteq Bindable(BoundNodes, pol))
  /\ falling'   = (Bindable(BoundNodes, pol) \subseteq BoundNodes)
  /\ UNCHANGED <<trident, deps>>

\* Mutant: a node that does not bind is tried again before the pass moves on.
ResolveNextRetrying ==
  /\ pc = "pass"
  /\ next <= N
  /\ trident' = [trident EXCEPT ![next] = ResolveNode(@, policy, DepsBound(next))]
  /\ bound' = IF trident'[next].state = "BOUND" THEN bound + 1 ELSE bound
  /\ next' = IF trident'[next].state = "BOUND" THEN next + 1 ELSE next
  /\ UNCHANGED <<deps, pc, policy, pass, prevBound, calls, history>>

\* Mutant: a node that is bound already is not resolved again.
ResolveNextKeepingBound ==
  /\ pc = "pass"
  /\ next <= N
  /\ trident' = IF next \in BoundNodes THEN trident
                ELSE [trident EXCEPT ![next] = ResolveNode(@, policy, DepsBound(next))]
  /\ bound' = IF trident'[next].state = "BOUND" THEN bound + 1 ELSE bound
  /\ next' = next + 1
  /\ UNCHANGED <<deps, pc, policy, pass, prevBound, calls, history>>

ResolveNext ==
  /\ pc = "pass"
  /\ next <= N
  /\ trident' = [trident EXCEPT ![next] = ResolveNode(@, policy, DepsBound(next))]
  /\ bound' = IF trident'[next].state = "BOUND" THEN bound + 1 ELSE bound
  /\ next' = next + 1
  /\ UNCHANGED <<deps, pc, policy, pass, prevBound, calls, history>>

\* The pass has resolved every node; `done` is the loop's fixpoint test, `prev`
\* the count it keeps and `zero` the count the next pass starts from.
EndOfPass(done, prev, zero) ==
  /\ pc = "pass"
  /\ next = N + 1
  /\ IF done
     THEN pc' = "returned" /\ UNCHANGED <<loopVars, start>>
     ELSE /\ pc'        = IF pass < N THEN "pass" ELSE "returned"
          /\ pass'      = pass + 1
          /\ prevBound' = prev
          /\ next'      = IF pass < N THEN 1 ELSE next
          /\ bound'     = IF pass < N THEN zero ELSE bound
          /\ start'     = BoundNodes
          /\ UNCHANGED policy
  /\ UNCHANGED <<trident, deps, calls, rising, falling>>

\* Mutants: the count is not reset; the test accepts any pass that did not
\* lose a node; the count of the pass before is never recorded.
EndPassWithoutReset    == EndOfPass(bound = prevBound, bound, bound)
EndPassOnGrowth        == EndOfPass(prevBound # NoPass /\ bound >= prevBound, bound, 0)
EndPassWithoutPrevious == EndOfPass(bound = prevBound, prevBound, 0)

\* A pass that bound as many nodes as the one before it ends the run, and so
\* does the pass numbered N.
EndPass == EndOfPass(bound = prevBound, bound, 0)

Next ==
  \/ \E n \in Nodes : SetDeps(n)
  \/ \E n \in Nodes : Attach(n)
  \/ \E n \in Nodes : Resolve(n)
  \/ \E n \in Nodes : Swap(n)
  \/ \E pol \in Policies : GraphResolve(pol)
  \/ ResolveNext
  \/ EndPass

Spec == Init /\ [][Next]_vars

-----------------------------------------------------------------------------
(* Properties                                                              *)

\* Every variable stays in its range; a run's counters stay within the graph.
TypeOK ==
  /\ trident \in [Nodes -> Node]
  /\ deps \in [Nodes -> SUBSET (Nodes \union {NullDep})]
  /\ pc \in {"idle", "pass", "returned"}
  /\ policy \in Policies
  /\ pass \in 0 .. N + 1 /\ (pc = "pass" => pass <= N)
  /\ next \in 1 .. N + 1
  /\ bound \in 0 .. next - 1
  /\ prevBound \in NoPass .. N
  /\ calls \in 0 .. MaxCalls
  /\ start \subseteq Nodes
  /\ rising \in BOOLEAN /\ falling \in BOOLEAN

\* A slot exposes an address only with a full agreement behind it: some offer
\* carries that address, encodes to the identity recorded for both hooks under
\* one profile, and has a version some policy accepts.  Every other slot holds
\* the trap.  (The publication discipline of mmuko_trident_resolve: whatever
\* was attached, swapped or withdrawn since, no unvalidated address is in w.)
AgreedOffer(t, d, pol) ==
  /\ d # NoDesc
  /\ d.address = t.w
  /\ WellFormed(d) /\ t.u1 # NoDesc
  /\ t.fpRequired = FpExport(t.u1, pol.arch)
  /\ t.fpProvided = FpExport(d, pol.arch)
  /\ Satisfies(t.u1.since, d.since, pol.mask) = "OK"

SlotIsAgreed(t) ==
  IF t.state = "BOUND"
  THEN /\ t.fpRequired = t.fpProvided /\ t.fpRequired # FpZero
       /\ \E d \in Offers, pol \in Policies : AgreedOffer(t, d, pol)
  ELSE t.w = Trap

SlotsAreAgreed == \A n \in Nodes : SlotIsAgreed(trident[n])

\* The recorded fault is backed by the recorded fingerprints: a version or a
\* state fault is reported only on a shape that agrees, a fingerprint fault
\* only on two encodable shapes that differ, and a node refused before its
\* hooks were encoded keeps no fingerprint of an earlier resolution.
FaultIsBacked(t) ==
  /\ t.fault \in {"VERSION", "STATE"} => t.fpRequired = t.fpProvided /\ t.fpRequired # FpZero
  /\ t.fault = "FINGERPRINT" => /\ t.fpRequired # t.fpProvided
                                /\ FpZero \notin {t.fpRequired, t.fpProvided}
  /\ t.fault \in {"UPSTREAM", "MISSING", "ARCH", "CC"} => {t.fpRequired, t.fpProvided} = {FpZero}

FaultsAreBacked == \A n \in Nodes : FaultIsBacked(trident[n])

\* A set of nodes each of which depends on a node of the set: a cycle, with
\* anything downstream of it.  The C resolver accepts such edges.
SelfSupporting(S) == \A n \in S : deps[n] \intersect S # {}

\* No node of a dependency cycle, and no node downstream of one, is ever bound
\* (the cycle's members wait for each other), whatever is swapped or resolved.
CycleNeverBinds ==
  \A S \in SUBSET Nodes : SelfSupporting(S) => S \intersect BoundNodes = {}

\* The least set of nodes closed under the rule: what containment promises,
\* independently of the order of the nodes and of what was bound before.
Closed(S, pol) == Bindable(S, pol) \subseteq S

Least(pol) == {n \in Nodes : \A S \in SUBSET Nodes : Closed(S, pol) => n \in S}

\* A run of graph_resolve that starts with changes in one direction only (all
\* of them heal, or all of them break) returns the least fixpoint: exactly the
\* nodes whose own hooks agree and whose every upstream node is bound too.
OneSidedRunIsLeast ==
  pc = "returned" /\ (rising \/ falling) => BoundNodes = Least(policy)

\* A ranking gives a node a higher rank than the nodes it depends on; whatever
\* cannot be ranked (a cycle, a NULL edge, a node downstream of one) has N + 1.
Rankings ==
  {rank \in [Nodes -> 1 .. N + 1] :
     \A n \in Nodes : rank[n] <= N => \A m \in deps[n] : m \in Nodes /\ rank[m] < rank[n]}

\* What every run guarantees, also one that returns early because as many
\* nodes healed as broke: its pass number k (from 0) has decided every node of
\* rank at most k + 1 for good.
SettledTo(k) ==
  LET least == Least(policy)
  IN  \A rank \in Rankings : \A n \in Nodes :
        rank[n] <= N /\ rank[n] <= k => (n \in BoundNodes <=> n \in least)

PassesSettleRanks == pc = "returned" => SettledTo(pass + 1)

\* The loop of graph_resolve never runs out of passes: it always returns from
\* its fixpoint test, so the pass bound `pass <= count` is never what ends it.
\* (Over no nodes it does: the first pass is the only one.)
ReturnsFromFixpointTest == pc = "returned" /\ N > 0 => pass <= N

\* Fault containment as the specification states it, for every run: a node
\* whose dependency is not bound is not bound when graph_resolve returns.
Containment == pc = "returned" => \A n \in BoundNodes : DepsBound(n)
=============================================================================
