------------------------------- MODULE Registry -------------------------------
(***************************************************************************)
(* The kernel's registry of call sites (KernelRegistry of                  *)
(* rust/mmuko-kernel/src/kernel.rs): a table of at most Capacity trident   *)
(* nodes, the dependency edges between them, and one policy.               *)
(*                                                                         *)
(* Every method that changes it borrows it exclusively, so a call is one   *)
(* step; a call that returns an error changes nothing and is not a step.   *)
(* A node is named by its index, in the order of registration.  Slot names *)
(* are resolved to indices by find, which the other methods start from.    *)
(***************************************************************************)
EXTENDS Descriptors, Integers, Sequences, FiniteSets

CONSTANTS
  Capacity,     \* N, the nodes in static storage
  MaxDeps,      \* MAX_DEPS, the edges of one node
  SlotNames,    \* names of call sites
  CallSites,    \* call sites: a name and what it was compiled against
  Edges,        \* dependencies the owner may ask for: dependent and on
  Offers,       \* providers offered to one slot (NoDesc withdraws)
  ModuleDescs,  \* modules offered to all of them
  NativeArch,   \* NATIVE_ARCH, the profile the kernel is built for
  Policies,     \* policies the owner may set
  MaxOps        \* bound on the calls made

ASSUME RegistryAssumption ==
  /\ Capacity \in Nat /\ MaxDeps \in Nat /\ MaxOps \in Nat
  /\ CallSites \subseteq SlotNames \X Descriptor
  /\ Edges \subseteq Nat \X Nat
  /\ Offers \subseteq Descriptor \union {NoDesc}
  /\ ModuleDescs \subseteq Table
  /\ NativeArch \in Profiles
  /\ Policies \subseteq Policy

VARIABLES
  slot,     \* the name of each registered node
  node,     \* the nodes
  deps,     \* deps[i][k]: the k-th node that node i depends on
  policy,
  report,   \* what the last resolve_all returned
  origin,   \* history: the profile of the module each provider came from, or 0
  settled,  \* history: passes made since the last other call, up to Capacity
  ops       \* calls made, up to MaxOps

vars == <<slot, node, deps, policy, report, origin, settled, ops>>

DefaultPolicy == [arch |-> NativeArch, mask |-> MaskStable]

Indices == 1 .. Len(slot)

Upstream(i) == {deps[i][k] : k \in DOMAIN deps[i]}

\* prev_bound starts at u32::MAX, which no count of nodes equals.
NoPass == -1

NoReport == [bound |-> 0, faulted |-> 0, passes |-> 0]

-----------------------------------------------------------------------------
Init ==
  /\ slot    = <<>>
  /\ node    = <<>>
  /\ deps    = <<>>
  /\ policy  = DefaultPolicy
  /\ report  = NoReport
  /\ origin  = <<>>
  /\ settled = 0
  /\ ops     = 0

Call ==
  /\ ops < MaxOps
  /\ ops' = ops + 1

SetPolicy(pol) ==
  /\ Call
  /\ policy' = pol
  /\ settled' = 0
  /\ UNCHANGED <<slot, node, deps, report, origin>>

\* Mutant: one slot more than the table has.
RegisterPastTheEnd(name, required) ==
  /\ Call
  /\ \A i \in Indices : slot[i] # name
  /\ Len(slot) <= Capacity
  /\ slot'    = Append(slot, name)
  /\ node'    = Append(node, InitNode(required))
  /\ deps'    = Append(deps, <<>>)
  /\ origin'  = Append(origin, 0)
  /\ settled' = 0
  /\ UNCHANGED <<policy, report>>

Register(name, required) ==
  /\ Call
  /\ \A i \in Indices : slot[i] # name
  /\ Len(slot) < Capacity
  /\ slot'    = Append(slot, name)
  /\ node'    = Append(node, InitNode(required))
  /\ deps'    = Append(deps, <<>>)
  /\ origin'  = Append(origin, 0)
  /\ settled' = 0
  /\ UNCHANGED <<policy, report>>

\* Mutant: the search looks at the edges of the first node only.
ReachesDirectly(from, target) == target \in {from} \union Upstream(from)

\* reaches.  The search finds target exactly when target is in every set that
\* holds `from` and, with a node, everything the node depends on.
Reaches(from, target) ==
  \A S \in SUBSET Indices :
    from \in S /\ (\A i \in S : Upstream(i) \subseteq S) => target \in S

\* reaches, as it recurses over the edges.
Search(from, target) ==
  LET found[n \in Indices] == n = target \/ \E next \in Upstream(n) : found[next]
  IN  found[from]

\* Mutant: the search starts from the wrong end of the new edge.
AddDependencyBackwards(dependent, on) ==
  /\ Call
  /\ dependent \in Indices /\ on \in Indices
  /\ ~ Reaches(dependent, on) /\ dependent # on
  /\ Len(deps[dependent]) < MaxDeps
  /\ deps' = [deps EXCEPT ![dependent] = Append(@, on)]
  /\ settled' = 0
  /\ UNCHANGED <<slot, node, policy, report, origin>>

AddDependency(dependent, on) ==
  /\ Call
  /\ dependent \in Indices /\ on \in Indices
  /\ ~ Reaches(on, dependent) /\ dependent # on
  /\ Len(deps[dependent]) < MaxDeps
  /\ deps' = [deps EXCEPT ![dependent] = Append(@, on)]
  /\ settled' = 0
  /\ UNCHANGED <<slot, node, policy, report, origin>>

\* The provider is recorded and the slot left as it is until the next
\* resolve_all, also when the provider is withdrawn.
Offer(i, d) ==
  /\ Call
  /\ node' = [node EXCEPT ![i].u2 = d]
  /\ origin' = [origin EXCEPT ![i] = 0]
  /\ settled' = 0
  /\ UNCHANGED <<slot, deps, policy, report>>

\* offer_module: a slot whose symbol the module does not export keeps the
\* provider it had.  The module's own profile is not consulted.
OfferModule(table) ==
  LET matched == {i \in Indices : Find(table, node[i].u1.symbol) # NoDesc}
  IN  /\ Call
      /\ node' = [i \in DOMAIN node |->
           IF i \in matched THEN [node[i] EXCEPT !.u2 = Find(table, node[i].u1.symbol)] ELSE node[i]]
      /\ origin' = [i \in DOMAIN origin |-> IF i \in matched THEN table.arch ELSE origin[i]]
      /\ settled' = 0
      /\ UNCHANGED <<slot, deps, policy, report>>

-----------------------------------------------------------------------------
(* resolve_all                                                             *)

Bound(nodes) == {i \in DOMAIN nodes : nodes[i].state = "BOUND"}

\* Mutant: one bound dependency is enough.
DepsBoundAny(nodes, i) == Upstream(i) = {} \/ Upstream(i) \intersect Bound(nodes) # {}

DepsBound(nodes, i) == Upstream(i) \subseteq Bound(nodes)

\* One turn of a pass resolves a node in place: it sees the new state of the
\* nodes before it and the old state of those after it.
Turn(nodes, i) == [nodes EXCEPT ![i] = ResolveNode(@, policy, DepsBound(nodes, i))]

Pass(nodes) ==
  LET after[i \in 0 .. Len(nodes)] == IF i = 0 THEN nodes ELSE Turn(after[i - 1], i)
  IN  after[Len(nodes)]

\* Pass number p of the loop, unless it has stopped: it does when a pass binds
\* as many nodes as the one before it.
LoopTurn(loop, p) ==
  LET nodes == Pass(loop.nodes)
      bound == Cardinality(Bound(nodes))
  IN  IF loop.done THEN loop
      ELSE [nodes |-> nodes, bound |-> bound, passes |-> p, done |-> bound = loop.bound]

\* The loop makes one pass more than there are nodes at the most.
Run ==
  LET after[p \in 0 .. Len(node) + 1] ==
        IF p = 0 THEN [nodes |-> node, bound |-> NoPass, passes |-> 0, done |-> FALSE]
        ELSE LoopTurn(after[p - 1], p)
  IN  after[Len(node) + 1]

\* Mutant: the loop reports what it had before its last pass.
ResolveAllReportingEarly ==
  LET run == Run
  IN  /\ Call
      /\ node'    = run.nodes
      /\ report'  = [bound |-> Cardinality(Bound(node)), faulted |-> Len(node) - Cardinality(Bound(node)),
                     passes |-> run.passes]
      /\ settled' = IF settled + run.passes < Capacity THEN settled + run.passes ELSE Capacity
      /\ UNCHANGED <<slot, deps, policy, origin>>

ResolveAll ==
  LET run == Run
  IN  /\ Call
      /\ node'    = run.nodes
      /\ report'  = [bound |-> run.bound, faulted |-> Len(node) - run.bound,
                     passes |-> run.passes]
      /\ settled' = IF settled + run.passes < Capacity THEN settled + run.passes ELSE Capacity
      /\ UNCHANGED <<slot, deps, policy, origin>>

Next ==
  \/ \E pol \in Policies : SetPolicy(pol)
  \/ \E site \in CallSites : Register(site[1], site[2])
  \/ \E edge \in Edges : AddDependency(edge[1], edge[2])
  \/ \E i \in Indices, d \in Offers : Offer(i, d)
  \/ \E table \in ModuleDescs : OfferModule(table)
  \/ ResolveAll

Spec == Init /\ [][Next]_vars

-----------------------------------------------------------------------------
(* Properties                                                              *)

\* Every variable stays in its range, within the capacities of the tables.
TypeOK ==
  /\ slot \in Seq(SlotNames) /\ Len(slot) <= Capacity
  /\ node \in Seq(Node) /\ Len(node) = Len(slot)
  /\ deps \in Seq(Seq(Indices)) /\ Len(deps) = Len(slot)
  /\ \A i \in Indices : Len(deps[i]) <= MaxDeps
  /\ policy \in Policies \union {DefaultPolicy}
  /\ report \in [bound : 0 .. Capacity, faulted : 0 .. Capacity, passes : 0 .. Capacity + 1]
  /\ origin \in Seq({0} \union Profiles) /\ Len(origin) = Len(slot)
  /\ settled \in 0 .. Capacity
  /\ ops \in 0 .. MaxOps

\* No sequence of insertions closes a cycle: every non-empty set of nodes has
\* one that depends on none of them.  (The check in add_dependency at each
\* insertion, and what makes the recursion of reaches terminate.)
EdgesAreAcyclic ==
  \A S \in SUBSET Indices :
    S # {} => \E i \in S : Upstream(i) \intersect S = {}

\* What add_dependency asks of the edges is what the search answers, and the
\* search ends on every set of edges it is ever run on.
ReachesIsTheSearch ==
  \A i \in Indices, j \in Indices : Reaches(i, j) = Search(i, j)

\* The nodes that should be bound: their hooks agree and, in turn, so do those
\* of every node they depend on.
Bindable(B) == {i \in Indices : Admits(node[i].u1, node[i].u2, policy) /\ Upstream(i) \subseteq B}

Least == {i \in Indices : \A S \in SUBSET Indices : Bindable(S) \subseteq S => i \in S}

\* A single resolve_all may stop early when some nodes heal while others break,
\* but it makes progress: once the calls of resolve_all since the last change
\* have made as many passes as there are nodes, exactly the nodes that should
\* be bound are, whatever the order of registration and of the edges.
RepeatedResolvingConverges == settled >= Len(slot) => Bound(node) = Least

\* A report that says every node bound is never a premature one: right after
\* it, every node has a provider it agrees with under the present policy.
CompleteReportsAreTrue ==
  settled > 0 /\ report.faulted = 0 =>
    /\ Bound(node) = Indices /\ Least = Indices
    /\ \A i \in Indices : node[i].w = node[i].u2.address

\* A slot is never bound to an export of a module built for another profile
\* than the one the kernel binds under.
ForeignProfileNeverBinds ==
  settled > 0 => \A i \in Bound(node) : origin[i] \in {0, policy.arch}
=============================================================================
