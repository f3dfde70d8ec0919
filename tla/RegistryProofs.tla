---------------------------- MODULE RegistryProofs ----------------------------
(***************************************************************************)
(* Theorems about Registry, for every capacity, every sequence of calls    *)
(* and every set of offers and policies: the edges stay acyclic, resolving *)
(* again and again reaches the nodes that should be bound, and a complete  *)
(* report is true.                                                         *)
(*                                                                         *)
(* resolve_all is one step of the model, computed by functions that recurse *)
(* over the nodes of a pass and over the passes.  That such a function      *)
(* exists, and what holds of it after any number of turns, is induction     *)
(* over a set of numbers, which StepwiseInduction of TridentRuleProofs      *)
(* gives.                                                                  *)
(***************************************************************************)
EXTENDS Registry, TridentRuleProofs, SequenceTheorems

-----------------------------------------------------------------------------
(* Edges                                                                   *)

\* EdgesAreAcyclic is inductive once the edges are known to lead from
\* registered nodes to registered nodes.
EdgesInv ==
  /\ Len(slot) \in Nat
  /\ slot \in Seq(SlotNames)
  /\ deps \in Seq(Seq(Nat)) /\ Len(deps) = Len(slot)
  /\ \A i \in Indices : Upstream(i) \subseteq Indices
  /\ EdgesAreAcyclic

LEMMA InitEdges == Init => EdgesInv
<1> SUFFICES ASSUME Init PROVE EdgesInv
  OBVIOUS
<1>1. slot = <<>> /\ deps = <<>>
  BY DEF Init
<1>2. Indices = {}
  BY <1>1 DEF Indices
<1>3. slot \in Seq(SlotNames) /\ Len(slot) = 0 /\ deps \in Seq(Seq(Nat)) /\ Len(deps) = 0
  BY <1>1
<1>4. QED
  BY <1>2, <1>3 DEF EdgesInv, EdgesAreAcyclic

\* A new node depends on nothing and nothing depends on it.
LEMMA RegisterKeepsEdges ==
  ASSUME EdgesInv, NEW name \in SlotNames, NEW required, Register(name, required)
  PROVE  EdgesInv'
<1>0. PICK new \in Nat : new = Len(slot) + 1
  BY DEF EdgesInv
<1>1. /\ Len(slot) \in Nat /\ slot' = Append(slot, name) /\ deps' = Append(deps, <<>>)
      /\ slot \in Seq(SlotNames) /\ deps \in Seq(Seq(Nat)) /\ Len(deps) = Len(slot)
  BY DEF Register, EdgesInv
<1>2. /\ slot' \in Seq(SlotNames) /\ Len(slot') = new /\ new \in Nat
      /\ deps' \in Seq(Seq(Nat)) /\ Len(deps') = new
      /\ \A i \in 1 .. Len(slot) : deps'[i] = deps[i]
      /\ deps'[new] = <<>>
  BY <1>0, <1>1
<1>3. /\ Indices' = Indices \union {new} /\ new \notin Indices
      /\ \A i \in Indices : Upstream(i)' = Upstream(i)
      /\ Upstream(new)' = {}
  <2>1. Indices' = Indices \union {new} /\ new \notin Indices
    BY <1>0, <1>1, <1>2 DEF Indices
  <2>2. ASSUME NEW i \in Indices PROVE Upstream(i)' = Upstream(i)
    <3>1. deps'[i] = deps[i]
      BY <1>2 DEF Indices
    <3>2. QED
      BY <3>1 DEF Upstream
  <2>3. Upstream(new)' = {}
    BY <1>2 DEF Upstream
  <2>4. QED
    BY <2>1, <2>2, <2>3
<1>4. \A i \in Indices' : Upstream(i)' \subseteq Indices'
  BY <1>3 DEF EdgesInv
<1>5. ASSUME NEW S \in SUBSET (Indices'), S # {}
      PROVE  \E i \in S : Upstream(i)' \intersect S = {}
  <2>1. CASE new \in S
    BY <2>1, <1>3
  <2>2. CASE new \notin S
    <3>1. S \in SUBSET Indices
      BY <2>2, <1>3
    <3>2. PICK i \in S : Upstream(i) \intersect S = {}
      BY <3>1, <1>5 DEF EdgesInv, EdgesAreAcyclic
    <3>3. QED
      BY <3>1, <3>2, <1>3
  <2>3. QED
    BY <2>1, <2>2
<1>6. EdgesAreAcyclic'
  BY <1>5 DEF EdgesAreAcyclic
<1>7. QED
  BY <1>2, <1>4, <1>6 DEF EdgesInv

\* The argument for the check: `on` does not reach `dependent`, so some set R
\* closed under the edges holds `on` and not `dependent`.  A set S in which
\* every node depends on another has nothing in common with R, or the part they
\* have in common was such a set before; so the new edge, which leads into R,
\* plays no part in S, and S was such a set before.
LEMMA AddDependencyKeepsEdges ==
  ASSUME EdgesInv, NEW dependent, NEW on, AddDependency(dependent, on)
  PROVE  EdgesInv'
<1>1. /\ dependent \in Indices /\ on \in Indices /\ slot' = slot
      /\ deps' = [deps EXCEPT ![dependent] = Append(@, on)]
      /\ Len(slot) \in Nat /\ slot \in Seq(SlotNames)
      /\ deps \in Seq(Seq(Nat)) /\ Len(deps) = Len(slot)
  BY DEF AddDependency, EdgesInv
<1>2. Indices' = Indices /\ Indices = 1 .. Len(deps) /\ Indices \subseteq Nat
  BY <1>1 DEF Indices
<1>3. deps[dependent] \in Seq(Nat) /\ Append(deps[dependent], on) \in Seq(Nat)
  BY <1>1, <1>2
<1>4. /\ deps' \in Seq(Seq(Nat)) /\ Len(deps') = Len(slot')
      /\ deps'[dependent] = Append(deps[dependent], on)
      /\ \A i \in Indices \ {dependent} : deps'[i] = deps[i]
  BY <1>1, <1>2, <1>3
<1>5. \A i \in Indices \ {dependent} : Upstream(i)' = Upstream(i)
  BY <1>4 DEF Upstream
<1>6. Upstream(dependent)' = Upstream(dependent) \union {on}
  <2> DEFINE s == deps[dependent]
             t == Append(s, on)
  <2>1. s \in Seq(Nat) /\ on \in Nat
    BY <1>1, <1>2, <1>3
  <2>2. /\ DOMAIN t = DOMAIN s \union {Len(s) + 1}
        /\ \A k \in DOMAIN s : t[k] = s[k]
        /\ t[Len(s) + 1] = on
    BY <2>1
  <2>3. deps'[dependent] = t
    BY <1>4
  <2> HIDE DEF s, t
  <2>4. Upstream(dependent) = {s[k] : k \in DOMAIN s}
    BY DEF Upstream, s
  <2>5. Upstream(dependent)' = {t[k] : k \in DOMAIN t}
    BY <2>3 DEF Upstream
  <2>6. QED
    BY <2>2, <2>4, <2>5
<1>7. \A i \in Indices' : Upstream(i)' \subseteq Indices'
  BY <1>1, <1>2, <1>5, <1>6 DEF EdgesInv
<1>8. PICK R \in SUBSET Indices :
        /\ on \in R /\ dependent \notin R
        /\ \A i \in R : Upstream(i) \subseteq R
  BY DEF AddDependency, Reaches
<1>9. ASSUME NEW S \in SUBSET Indices, S # {}, \A i \in S : Upstream(i)' \intersect S # {}
      PROVE  FALSE
  <2>1. ASSUME NEW i \in S \intersect R
        PROVE  Upstream(i) \intersect (S \intersect R) # {}
    <3>1. Upstream(i)' = Upstream(i) /\ Upstream(i) \subseteq R
      BY <1>5, <1>8
    <3>2. QED
      BY <3>1, <1>9
  <2>2. S \intersect R = {}
    BY <2>1 DEF EdgesInv, EdgesAreAcyclic
  <2>3. \A i \in S : Upstream(i) \intersect S # {}
    BY <2>2, <1>5, <1>6, <1>8, <1>9
  <2>4. QED
    BY <2>3, <1>9 DEF EdgesInv, EdgesAreAcyclic
<1>10. EdgesAreAcyclic'
  BY <1>2, <1>9 DEF EdgesAreAcyclic
<1>11. QED
  BY <1>1, <1>4, <1>7, <1>10 DEF EdgesInv

LEMMA OthersKeepEdges ==
  ASSUME EdgesInv, UNCHANGED <<slot, deps>>
  PROVE  EdgesInv'
<1>1. Indices' = Indices /\ \A i : Upstream(i)' = Upstream(i)
  BY DEF Indices, Upstream
<1>2. QED
  BY <1>1 DEF EdgesInv, EdgesAreAcyclic

LEMMA StepEdges == EdgesInv /\ [Next]_vars => EdgesInv'
<1> SUFFICES ASSUME EdgesInv, [Next]_vars PROVE EdgesInv'
  OBVIOUS
<1>1. ASSUME NEW pol \in Policies, SetPolicy(pol) PROVE EdgesInv'
  BY <1>1, OthersKeepEdges DEF SetPolicy
<1>2. ASSUME NEW site \in CallSites, Register(site[1], site[2]) PROVE EdgesInv'
  <2>1. site[1] \in SlotNames
    BY RegistryAssumption
  <2>2. QED
    BY <1>2, <2>1, RegisterKeepsEdges
<1>3. ASSUME NEW edge \in Edges, AddDependency(edge[1], edge[2]) PROVE EdgesInv'
  BY <1>3, AddDependencyKeepsEdges
<1>4. ASSUME NEW i \in Indices, NEW d \in Offers, Offer(i, d) PROVE EdgesInv'
  BY <1>4, OthersKeepEdges DEF Offer
<1>5. ASSUME NEW table \in ModuleDescs, OfferModule(table) PROVE EdgesInv'
  BY <1>5, OthersKeepEdges DEF OfferModule
<1>6. CASE ResolveAll
  BY <1>6, OthersKeepEdges DEF ResolveAll
<1>7. CASE UNCHANGED vars
  BY <1>7, OthersKeepEdges DEF vars
<1>8. QED
  BY <1>1, <1>2, <1>3, <1>4, <1>5, <1>6, <1>7 DEF Next

\* No sequence of registrations and insertions ever closes a cycle.
THEOREM EdgesStayAcyclic == Spec => []EdgesAreAcyclic
<1>1. EdgesInv => EdgesAreAcyclic
  BY DEF EdgesInv
<1>2. QED
  BY InitEdges, StepEdges, <1>1, PTL DEF Spec
-----------------------------------------------------------------------------
(* The search                                                              *)

\* What is reached is the target, or reaches it through what it depends on.
LEMMA ReachesUnfolds ==
  ASSUME EdgesInv, NEW target \in Indices, NEW n \in Indices
  PROVE  Reaches(n, target) <=> n = target \/ \E next \in Upstream(n) : Reaches(next, target)
<1> DEFINE Closed(S) == \A i \in S : Upstream(i) \subseteq S
<1>1. ASSUME n = target PROVE Reaches(n, target)
  BY <1>1 DEF Reaches
<1>2. ASSUME NEW next \in Upstream(n), Reaches(next, target) PROVE Reaches(n, target)
  BY <1>2 DEF Reaches
<1>3. ASSUME n # target, \A next \in Upstream(n) : ~ Reaches(next, target), Reaches(n, target)
      PROVE  FALSE
  <2> DEFINE U == {m \in Indices : ~ Reaches(m, target)}
             S == U \union {n}
  <2>1. target \notin S
    BY <1>3 DEF Reaches
  <2>2. Upstream(n) \subseteq U
    BY <1>3 DEF EdgesInv
  <2>3. ASSUME NEW m \in U PROVE Upstream(m) \subseteq U
    <3>1. PICK T \in SUBSET Indices : m \in T /\ Closed(T) /\ target \notin T
      BY DEF Reaches
    <3>2. ASSUME NEW next \in Upstream(m) PROVE next \in Indices /\ ~ Reaches(next, target)
      BY <3>1 DEF Reaches
    <3>3. QED
      BY <3>2
  <2>4. S \in SUBSET Indices /\ n \in S /\ Closed(S)
    BY <2>2, <2>3
  <2>5. QED
    BY <1>3, <2>1, <2>4 DEF Reaches
<1>4. QED
  BY <1>1, <1>2, <1>3

\* So some function satisfies the equation of the recursion.  No second one
\* does: every node at which two of them differ depends on another such node,
\* which acyclic edges do not allow.
LEMMA SearchFinds ==
  ASSUME EdgesInv, NEW from \in Indices, NEW target \in Indices
  PROVE  Reaches(from, target) = Search(from, target)
<1> DEFINE Unfolded(f) == [n \in Indices |-> n = target \/ \E next \in Upstream(n) : f[next]]
           reached == [n \in Indices |-> Reaches(n, target)]
           found == CHOOSE f : f = Unfolded(f)
<1>1. ASSUME NEW n \in Indices
      PROVE  Reaches(n, target) = (n = target \/ \E next \in Upstream(n) : reached[next])
  <2>1. \A next \in Upstream(n) : next \in Indices
    BY DEF EdgesInv
  <2>2. \A next \in Upstream(n) : reached[next] = Reaches(next, target)
    BY <2>1
  <2>3. (\E next \in Upstream(n) : Reaches(next, target)) = \E next \in Upstream(n) : reached[next]
    BY <2>2
  <2>4. QED
    BY <2>3, ReachesUnfolds DEF Reaches
<1>2. reached = Unfolded(reached)
  BY <1>1
<1>3. found = Unfolded(found)
  BY <1>2
<1>4. \A n \in Indices : found[n] = (n = target \/ \E next \in Upstream(n) : found[next])
  <2> HIDE DEF found
  <2> QED
    BY <1>3
<1>5. found[from] = Reaches(from, target)
  <2> HIDE DEF found
  <2> DEFINE D == {n \in Indices : found[n] # Reaches(n, target)}
  <2>1. ASSUME NEW n \in D PROVE Upstream(n) \intersect D # {}
    <3>1. Upstream(n) \subseteq Indices
      BY DEF EdgesInv
    <3>2. ASSUME \A next \in Upstream(n) : found[next] = Reaches(next, target) PROVE FALSE
      <4>1. (\E next \in Upstream(n) : found[next]) = \E next \in Upstream(n) : Reaches(next, target)
        BY <3>2
      <4>2. Reaches(n, target) = (n = target \/ \E next \in Upstream(n) : Reaches(next, target))
        BY ReachesUnfolds DEF Reaches
      <4>3. found[n] = (n = target \/ \E next \in Upstream(n) : found[next])
        BY <1>4
      <4>4. found[n] = Reaches(n, target)
        BY <4>1, <4>2, <4>3
      <4>5. QED
        BY <4>4
    <3>3. QED
      BY <3>1, <3>2
  <2>2. D = {}
    BY <2>1 DEF EdgesInv, EdgesAreAcyclic
  <2>3. QED
    BY <2>2
<1>6. Search(from, target) = found[from]
  BY DEF Search
<1>7. QED
  BY <1>5, <1>6

\* What add_dependency asks of the edges is what the recursion of reaches
\* answers, on every set of edges that registrations and insertions leave.
THEOREM SearchFindsWhatIsReached == Spec => []ReachesIsTheSearch
<1>1. EdgesInv => ReachesIsTheSearch
  BY SearchFinds DEF ReachesIsTheSearch
<1>2. QED
  BY InitEdges, StepEdges, <1>1, PTL DEF Spec
-----------------------------------------------------------------------------
(* A pass                                                                  *)

TableOf(n) == [1 .. n -> Node]

LEMMA TurnMeaning ==
  ASSUME NEW n \in Nat, NEW s \in TableOf(n), NEW i \in 1 .. n, policy \in Policy
  PROVE  /\ Turn(s, i) \in TableOf(n)
         /\ \A j \in 1 .. n : /\ Turn(s, i)[j].u1 = s[j].u1 /\ Turn(s, i)[j].u2 = s[j].u2
                              /\ j # i => Turn(s, i)[j] = s[j]
         /\ Turn(s, i)[i].state = "BOUND" <=> DepsBound(s, i) /\ Admits(s[i].u1, s[i].u2, policy)
         /\ Turn(s, i)[i].state = "BOUND" => Turn(s, i)[i].w = s[i].u2.address
<1> DEFINE r == ResolveNode(s[i], policy, DepsBound(s, i))
<1>1. /\ r \in Node /\ r.u1 = s[i].u1 /\ r.u2 = s[i].u2
      /\ r.state = "BOUND" <=> DepsBound(s, i) /\ Admits(s[i].u1, s[i].u2, policy)
      /\ r.state = "BOUND" => r.w = s[i].u2.address
  <2>1. s[i] \in Node /\ DepsBound(s, i) \in BOOLEAN
    BY DEF TableOf, DepsBound
  <2>2. QED
    BY <2>1, ResolveNodeMeaning
<1>2. Turn(s, i) = [s EXCEPT ![i] = r]
  BY DEF Turn
<1> HIDE DEF r
<1>3. QED
  BY <1>1, <1>2 DEF TableOf

\* Pass is the last of a sequence of tables, each a turn of the loop after the
\* one before it.
LEMMA PassMeaning ==
  ASSUME NEW n \in Nat, NEW nodes \in TableOf(n), Len(nodes) = n, policy \in Policy
  PROVE  \E f \in [0 .. n -> TableOf(n)] :
           f[0] = nodes /\ (\A i \in 1 .. n : f[i] = Turn(f[i - 1], i)) /\ Pass(nodes) = f[n]
<1> DEFINE F == [i \in 1 .. n |-> [s \in TableOf(n) |-> Turn(s, i)]]
           g == CHOOSE g : g = [i \in 0 .. n |-> IF i = 0 THEN nodes ELSE Turn(g[i - 1], i)]
<1>1. F \in [1 .. n -> [TableOf(n) -> TableOf(n)]]
  BY TurnMeaning
<1>2. PICK f \in [0 .. n -> TableOf(n)] : f[0] = nodes /\ \A i \in 1 .. n : f[i] = F[i][f[i - 1]]
  <2> HIDE DEF F
  <2>1. \E f \in Iterations(n, TableOf(n)) : Iterates(f, n, nodes, F)
    BY <1>1, IterationExists
  <2>2. QED
    BY <2>1 DEF Iterates, Iterations
<1>3. ASSUME NEW i \in 1 .. n PROVE f[i] = Turn(f[i - 1], i)
  <2>1. f[i - 1] \in TableOf(n)
    OBVIOUS
  <2>2. QED
    BY <1>2, <2>1
<1>4. f = [i \in 0 .. n |-> IF i = 0 THEN nodes ELSE Turn(f[i - 1], i)]
  BY <1>2, <1>3
<1>5. g = [i \in 0 .. n |-> IF i = 0 THEN nodes ELSE Turn(g[i - 1], i)]
  BY <1>4
<1>6. Pass(nodes) = g[n]
  BY DEF Pass
<1> HIDE DEF g, F
<1>7. g[0] = nodes /\ \A i \in 1 .. n : g[i] = Turn(g[i - 1], i)
  <2>1. g[0] = nodes
    BY <1>5
  <2>2. ASSUME NEW i \in 1 .. n PROVE g[i] = Turn(g[i - 1], i)
    BY <1>5
  <2>3. QED
    BY <2>1, <2>2
<1>8. \A i \in 0 .. n : g[i] = f[i]
  <2> DEFINE S == {i \in 0 .. n : g[i] = f[i]}
  <2>1. 0 \in S /\ \A i \in 1 .. n : i - 1 \in S => i \in S
    BY <1>2, <1>3, <1>7
  <2> HIDE DEF S
  <2>2. \A i \in 0 .. n : i \in S
    BY <2>1, StepwiseInduction
  <2>3. QED
    BY <2>2 DEF S
<1>9. QED
  BY <1>2, <1>3, <1>6, <1>8

LEMMA TablesAreSequences ==
  ASSUME NEW n \in Nat, NEW s \in TableOf(n)
  PROVE  s \in Seq(Node) /\ Len(s) = n /\ DOMAIN s = 1 .. n
<1>1. s \in Seq(Node) /\ DOMAIN s = 1 .. n
  BY SeqDef DEF TableOf
<1>2. DOMAIN s = 1 .. Len(s) /\ Len(s) \in Nat
  BY <1>1, LenProperties
<1>3. QED
  BY <1>1, <1>2

LEMMA LeastIsFixpoint == Bindable(Least) = Least
<1> DEFINE L == Least
<1>0. ASSUME NEW S, NEW T, S \subseteq T PROVE Bindable(S) \subseteq Bindable(T)
  BY <1>0 DEF Bindable
<1>1. ASSUME NEW S \in SUBSET Indices, Bindable(S) \subseteq S
      PROVE  L \subseteq S /\ Bindable(L) \subseteq S
  <2>1. L \subseteq S
    BY <1>1 DEF Least
  <2>2. QED
    BY <1>0, <1>1, <2>1
<1>2. Bindable(L) \subseteq L
  <2>1. Bindable(L) \subseteq Indices
    BY DEF Bindable
  <2>2. QED
    BY <1>1, <2>1 DEF Least
<1>3. L \subseteq Bindable(L)
  <2>1. Bindable(L) \in SUBSET Indices
    BY DEF Bindable
  <2>2. Bindable(Bindable(L)) \subseteq Bindable(L)
    BY <1>0, <1>2
  <2>3. QED
    BY <1>1, <2>1, <2>2
<1>4. QED
  BY <1>2, <1>3

\* Resolving changes no hook.
SameHooks(s) == \A i \in Indices : s[i].u1 = node[i].u1 /\ s[i].u2 = node[i].u2

Decided(s, i) == i \in Bound(s) <=> i \in Least

\* The nodes of D depend on nodes of D only, and all of them are decided.
Settled(s, D) == \A i \in D : Upstream(i) \subseteq D /\ Decided(s, i)

Beyond(D) == {i \in Indices : Upstream(i) \subseteq D}

\* If s says that node i is bound, its hooks agree and its slot shows the
\* address its provider has.
Justified(s, i) ==
  i \in Bound(s) => Admits(node[i].u1, node[i].u2, policy) /\ s[i].w = node[i].u2.address

Ready(s) ==
  /\ Len(slot) \in Nat /\ policy \in Policy
  /\ s \in TableOf(Len(slot)) /\ SameHooks(s)

LEMMA TurnDecides ==
  ASSUME NEW s, Ready(s), NEW i \in Indices
  PROVE  /\ Ready(Turn(s, i))
         /\ \A j \in Indices \ {i} : /\ Decided(s, j) => Decided(Turn(s, i), j)
                                     /\ Justified(s, j) => Justified(Turn(s, i), j)
         /\ Justified(Turn(s, i), i)
         /\ (\A j \in Upstream(i) : Decided(s, j)) => Decided(Turn(s, i), i)
<1>1. PICK t \in TableOf(Len(slot)) :
        /\ t = Turn(s, i)
        /\ \A j \in Indices : /\ t[j].u1 = s[j].u1 /\ t[j].u2 = s[j].u2
                              /\ j # i => t[j] = s[j]
        /\ t[i].state = "BOUND" <=> DepsBound(s, i) /\ Admits(s[i].u1, s[i].u2, policy)
        /\ t[i].state = "BOUND" => t[i].w = s[i].u2.address
  BY TurnMeaning DEF Ready, Indices
<1>2. DOMAIN t = Indices /\ DOMAIN s = Indices
  BY DEF Ready, TableOf, Indices
<1>3. Ready(t)
  BY <1>1 DEF Ready, SameHooks
<1>4. ASSUME NEW j \in Indices \ {i}
      PROVE  (Decided(s, j) => Decided(t, j)) /\ (Justified(s, j) => Justified(t, j))
  BY <1>1, <1>2 DEF Decided, Justified, Bound
<1>5. i \in Bound(t) <=> DepsBound(s, i) /\ Admits(node[i].u1, node[i].u2, policy)
  BY <1>1, <1>2 DEF Bound, Ready, SameHooks
<1>6. Justified(t, i)
  BY <1>1, <1>2, <1>5 DEF Justified, Bound, Ready, SameHooks
<1>7. ASSUME \A j \in Upstream(i) : Decided(s, j)
      PROVE  Decided(t, i)
  <2>1. DepsBound(s, i) <=> Upstream(i) \subseteq Least
    BY <1>7 DEF DepsBound, Decided
  <2>2. i \in Bound(t) <=> i \in Bindable(Least)
    BY <1>5, <2>1 DEF Bindable
  <2>3. QED
    BY <2>2, LeastIsFixpoint DEF Decided
<1>8. QED
  BY <1>1, <1>3, <1>4, <1>6, <1>7

\* What holds of the nodes after i turns of a pass over s.
SoFar(t, i, s) ==
  /\ Ready(t)
  /\ \A j \in Indices : j <= i => Justified(t, j)
  /\ \A D \in SUBSET Indices : Settled(s, D) =>
       \A j \in Indices : j \in D \/ (j \in Beyond(D) /\ j <= i) => Decided(t, j)

LEMMA TurnExtends ==
  ASSUME NEW t, NEW s, NEW i \in Indices, SoFar(t, i - 1, s)
  PROVE  SoFar(Turn(t, i), i, s)
<1>1. PICK u : u = Turn(t, i)
  OBVIOUS
<1>2. /\ Ready(u)
      /\ \A j \in Indices \ {i} : (Decided(t, j) => Decided(u, j)) /\ (Justified(t, j) => Justified(u, j))
      /\ Justified(u, i)
      /\ (\A j \in Upstream(i) : Decided(t, j)) => Decided(u, i)
  BY <1>1, TurnDecides DEF SoFar
<1>3. \A j \in Indices \ {i} : j <= i => j <= i - 1
  BY DEF Indices
<1>4. \A j \in Indices : j <= i => Justified(u, j)
  BY <1>2, <1>3 DEF SoFar
<1>5. ASSUME NEW D \in SUBSET Indices, Settled(s, D),
             NEW j \in Indices, j \in D \/ (j \in Beyond(D) /\ j <= i)
      PROVE  Decided(u, j)
  <2>1. CASE j = i
    <3>1. Upstream(i) \subseteq D
      BY <1>5, <2>1 DEF Settled, Beyond
    <3>2. \A k \in Upstream(i) : Decided(t, k)
      BY <1>5, <3>1 DEF SoFar
    <3>3. QED
      BY <1>2, <2>1, <3>2
  <2>2. CASE j # i
    BY <1>2, <1>3, <1>5, <2>2 DEF SoFar
  <2>3. QED
    BY <2>1, <2>2
<1>6. QED
  BY <1>1, <1>2, <1>4, <1>5 DEF SoFar

\* A pass decides the nodes that depend on decided nodes only, and leaves no
\* node bound without a reason.
LEMMA PassDecides ==
  ASSUME NEW s, Ready(s)
  PROVE  /\ Ready(Pass(s))
         /\ \A i \in Indices : Justified(Pass(s), i)
         /\ \A D \in SUBSET Indices : Settled(s, D) => Settled(Pass(s), Beyond(D))
<1>1. PICK n \in Nat : n = Len(slot) /\ Indices = 1 .. n
  BY DEF Ready, Indices
<1>2. Len(s) = n
  BY <1>1, TablesAreSequences DEF Ready
<1>3. PICK f \in [0 .. n -> TableOf(n)] :
        f[0] = s /\ (\A i \in 1 .. n : f[i] = Turn(f[i - 1], i)) /\ Pass(s) = f[n]
  BY <1>1, <1>2, PassMeaning DEF Ready
<1> DEFINE S == {i \in 0 .. n : SoFar(f[i], i, s)}
<1>4. 0 \in S
  <2>1. \A j \in Indices : ~ (j <= 0)
    BY <1>1
  <2>2. SoFar(s, 0, s)
    BY <2>1 DEF SoFar, Settled
  <2>3. QED
    BY <1>3, <2>2
<1>5. ASSUME NEW i \in 1 .. n, i - 1 \in S PROVE i \in S
  <2>1. SoFar(f[i - 1], i - 1, s) /\ i \in Indices
    BY <1>1, <1>5
  <2>2. SoFar(f[i], i, s)
    BY <1>3, <2>1, TurnExtends
  <2>3. QED
    BY <2>2
<1>6. SoFar(Pass(s), n, s)
  <2> HIDE DEF S
  <2>1. \A i \in 1 .. n : i - 1 \in S => i \in S
    BY <1>5
  <2>2. \A i \in 0 .. n : i \in S
    BY <1>4, <2>1, StepwiseInduction
  <2>3. n \in S
    BY <2>2
  <2>4. QED
    BY <1>3, <2>3 DEF S
<1>7. \A j \in Indices : j <= n
  BY <1>1
<1>8. ASSUME NEW D \in SUBSET Indices, Settled(s, D)
      PROVE  Settled(Pass(s), Beyond(D))
  <2>1. D \subseteq Beyond(D)
    BY <1>8 DEF Settled, Beyond
  <2>2. \A i \in Beyond(D) : Upstream(i) \subseteq Beyond(D)
    BY <2>1 DEF Beyond
  <2>3. \A i \in Beyond(D) : Decided(Pass(s), i)
    BY <1>6, <1>7, <1>8 DEF SoFar, Beyond
  <2>4. QED
    BY <2>2, <2>3 DEF Settled
<1>9. QED
  BY <1>6, <1>7, <1>8 DEF SoFar

-----------------------------------------------------------------------------
(* A run of passes                                                         *)

LoopStates(n) ==
  [nodes : TableOf(n), bound : NoPass .. n, passes : 0 .. n + 1, done : BOOLEAN]

LEMMA BoundIsCounted ==
  ASSUME NEW n \in Nat, NEW s \in TableOf(n)
  PROVE  Bound(s) \in SUBSET (1 .. n) /\ Cardinality(Bound(s)) \in 0 .. n
<1>1. Bound(s) \in SUBSET (1 .. n)
  BY DEF Bound, TableOf
<1>2. IsFiniteSet(1 .. n) /\ Cardinality(1 .. n) = IF 1 > n THEN 0 ELSE n - 1 + 1
  BY FS_Interval
<1>3. IsFiniteSet(Bound(s)) /\ Cardinality(Bound(s)) <= n
  BY <1>1, <1>2, FS_Subset
<1>4. Cardinality(Bound(s)) \in Nat
  BY <1>3, FS_CardinalityType
<1>5. QED
  BY <1>1, <1>3, <1>4

LEMMA LoopTurnMeaning ==
  ASSUME NEW n \in Nat, policy \in Policy, NEW loop \in LoopStates(n), NEW p \in 1 .. n + 1
  PROVE  /\ LoopTurn(loop, p) \in LoopStates(n)
         /\ loop.done => LoopTurn(loop, p) = loop
         /\ ~ loop.done => /\ LoopTurn(loop, p).nodes = Pass(loop.nodes)
                           /\ LoopTurn(loop, p).bound = Cardinality(Bound(Pass(loop.nodes)))
                           /\ LoopTurn(loop, p).passes = p
<1>1. loop.nodes \in TableOf(n) /\ Len(loop.nodes) = n
  BY TablesAreSequences DEF LoopStates
<1>2. Pass(loop.nodes) \in TableOf(n)
  BY <1>1, PassMeaning
<1>3. Cardinality(Bound(Pass(loop.nodes))) \in NoPass .. n
  BY <1>2, BoundIsCounted DEF NoPass
<1>4. CASE loop.done
  BY <1>4 DEF LoopTurn
<1>5. CASE ~ loop.done
  <2>1. LoopTurn(loop, p) = [nodes |-> Pass(loop.nodes), bound |-> Cardinality(Bound(Pass(loop.nodes))),
                             passes |-> p, done |-> Cardinality(Bound(Pass(loop.nodes))) = loop.bound]
    BY <1>5 DEF LoopTurn
  <2>2. QED
    BY <1>2, <1>3, <1>5, <2>1 DEF LoopStates
<1>6. QED
  BY <1>4, <1>5

FirstLoop == [nodes |-> node, bound |-> NoPass, passes |-> 0, done |-> FALSE]

LEMMA RunMeaning ==
  ASSUME NEW n \in Nat, node \in TableOf(n), policy \in Policy
  PROVE  \E f \in [0 .. n + 1 -> LoopStates(n)] :
           f[0] = FirstLoop /\ (\A p \in 1 .. n + 1 : f[p] = LoopTurn(f[p - 1], p)) /\ Run = f[n + 1]
<1> DEFINE F == [p \in 1 .. n + 1 |-> [loop \in LoopStates(n) |-> LoopTurn(loop, p)]]
           g == CHOOSE g : g = [p \in 0 .. n + 1 |->
                  IF p = 0 THEN [nodes |-> node, bound |-> NoPass, passes |-> 0, done |-> FALSE]
                  ELSE LoopTurn(g[p - 1], p)]
<1>1. F \in [1 .. n + 1 -> [LoopStates(n) -> LoopStates(n)]]
  BY LoopTurnMeaning
<1>2. FirstLoop \in LoopStates(n)
  BY DEF FirstLoop, LoopStates, NoPass
<1>3. PICK f \in [0 .. n + 1 -> LoopStates(n)] :
        f[0] = FirstLoop /\ \A p \in 1 .. n + 1 : f[p] = F[p][f[p - 1]]
  <2> HIDE DEF F
  <2>1. \E f \in Iterations(n + 1, LoopStates(n)) : Iterates(f, n + 1, FirstLoop, F)
    BY <1>1, <1>2, IterationExists
  <2>2. QED
    BY <2>1 DEF Iterates, Iterations
<1>4. ASSUME NEW p \in 1 .. n + 1 PROVE f[p] = LoopTurn(f[p - 1], p)
  <2>1. f[p - 1] \in LoopStates(n)
    OBVIOUS
  <2>2. QED
    BY <1>3, <2>1
<1>5. f = [p \in 0 .. n + 1 |->
             IF p = 0 THEN [nodes |-> node, bound |-> NoPass, passes |-> 0, done |-> FALSE]
             ELSE LoopTurn(f[p - 1], p)]
  BY <1>3, <1>4 DEF FirstLoop
<1>6. g = [p \in 0 .. n + 1 |->
             IF p = 0 THEN [nodes |-> node, bound |-> NoPass, passes |-> 0, done |-> FALSE]
             ELSE LoopTurn(g[p - 1], p)]
  BY <1>5
<1>7. Len(node) = n
  BY TablesAreSequences
<1>8. Run = g[n + 1]
  BY <1>7 DEF Run
<1> HIDE DEF g, F
<1>9. g[0] = FirstLoop /\ \A p \in 1 .. n + 1 : g[p] = LoopTurn(g[p - 1], p)
  <2>1. g = [p \in 0 .. n + 1 |-> IF p = 0 THEN FirstLoop ELSE LoopTurn(g[p - 1], p)]
    BY <1>6 DEF FirstLoop
  <2>2. g[0] = FirstLoop
    BY <2>1
  <2>3. ASSUME NEW p \in 1 .. n + 1 PROVE g[p] = LoopTurn(g[p - 1], p)
    <3>1. p \in 0 .. n + 1 /\ p # 0
      OBVIOUS
    <3>2. QED
      BY <2>1, <3>1
  <2>4. QED
    BY <2>2, <2>3
<1>10. \A p \in 0 .. n + 1 : g[p] = f[p]
  <2> DEFINE S == {p \in 0 .. n + 1 : g[p] = f[p]}
  <2>1. 0 \in S /\ \A p \in 1 .. n + 1 : p - 1 \in S => p \in S
    BY <1>3, <1>4, <1>9
  <2> HIDE DEF S
  <2>2. \A p \in 0 .. n + 1 : p \in S
    BY <2>1, StepwiseInduction
  <2>3. QED
    BY <2>2 DEF S
<1>11. QED
  BY <1>3, <1>4, <1>8, <1>10

\* What depends on decided nodes only is more than the decided nodes, until all
\* are decided: the edges are acyclic.
LEMMA BeyondGrows ==
  ASSUME EdgesInv, NEW D \in SUBSET Indices, D \subseteq Beyond(D), D # Indices
  PROVE  Cardinality(D) \in Nat /\ Cardinality(Beyond(D)) >= Cardinality(D) + 1
<1>1. PICK i \in Indices \ D : Upstream(i) \intersect (Indices \ D) = {}
  BY DEF EdgesInv, EdgesAreAcyclic
<1>2. i \in Beyond(D) /\ Beyond(D) \in SUBSET Indices
  BY <1>1 DEF Beyond, EdgesInv
<1>3. IsFiniteSet(Indices)
  BY FS_Interval DEF Indices, EdgesInv
<1>4. IsFiniteSet(D) /\ IsFiniteSet(Beyond(D))
  BY <1>2, <1>3, FS_Subset
<1>5. Cardinality(D \union {i}) = Cardinality(D) + 1 /\ Cardinality(D) \in Nat
  BY <1>1, <1>4, FS_AddElement, FS_CardinalityType
<1>6. Cardinality(D \union {i}) <= Cardinality(Beyond(D))
  BY <1>2, <1>4, FS_Subset
<1>7. Cardinality(Beyond(D)) \in Nat
  BY <1>4, FS_CardinalityType
<1>8. QED
  BY <1>5, <1>6, <1>7

\* Nodes decided for good: as many as the passes made, or all.
Progress(s, passes) ==
  \E D \in SUBSET Indices : Settled(s, D) /\ (Cardinality(D) >= passes \/ D = Indices)

\* The loop after p turns.
LoopInv(loop, p) ==
  /\ Ready(loop.nodes)
  /\ loop.passes \in 0 .. p
  /\ ~ loop.done => loop.passes = p
  /\ p = 0 => ~ loop.done
  /\ p > 0 => /\ loop.bound = Cardinality(Bound(loop.nodes))
              /\ \A i \in Indices : Justified(loop.nodes, i)
  /\ Progress(loop.nodes, settled + loop.passes)

LEMMA PassProgresses ==
  ASSUME EdgesInv, NEW s, Ready(s), NEW k \in Nat, Progress(s, k)
  PROVE  Progress(Pass(s), k + 1)
<1>1. PICK D \in SUBSET Indices : Settled(s, D) /\ (Cardinality(D) >= k \/ D = Indices)
  BY DEF Progress
<1>2. Settled(Pass(s), Beyond(D)) /\ Beyond(D) \in SUBSET Indices /\ D \subseteq Beyond(D)
  BY <1>1, PassDecides DEF Settled, Beyond
<1>3. CASE D = Indices
  BY <1>2, <1>3 DEF Progress
<1>4. CASE D # Indices
  <2>1. Cardinality(D) \in Nat /\ Cardinality(Beyond(D)) >= Cardinality(D) + 1
    BY <1>2, <1>4, BeyondGrows
  <2>2. Cardinality(Beyond(D)) \in Nat
    <3>1. IsFiniteSet(Indices)
      BY FS_Interval DEF Indices, EdgesInv
    <3>2. QED
      BY <1>2, <3>1, FS_Subset, FS_CardinalityType
  <2>3. Cardinality(Beyond(D)) >= k + 1
    BY <1>1, <1>4, <2>1, <2>2
  <2>4. QED
    BY <1>2, <2>3 DEF Progress
<1>5. QED
  BY <1>3, <1>4

LEMMA LoopTurnKeeps ==
  ASSUME EdgesInv, settled \in Nat, NEW n \in Nat, n = Len(slot),
         NEW loop \in LoopStates(n), NEW p \in 1 .. n + 1, LoopInv(loop, p - 1)
  PROVE  LoopInv(LoopTurn(loop, p), p)
<1>1. PICK next \in LoopStates(n) :
        /\ next = LoopTurn(loop, p)
        /\ loop.done => next = loop
        /\ ~ loop.done => /\ next.nodes = Pass(loop.nodes)
                          /\ next.bound = Cardinality(Bound(Pass(loop.nodes)))
                          /\ next.passes = p
  BY LoopTurnMeaning DEF LoopInv, Ready
<1>2. CASE loop.done
  <2>1. p - 1 > 0 /\ loop.passes \in 0 .. p
    BY <1>2 DEF LoopInv
  <2>2. QED
    BY <1>1, <1>2, <2>1 DEF LoopInv
<1>3. CASE ~ loop.done
  <2>1. loop.passes = p - 1 /\ Ready(loop.nodes) /\ Progress(loop.nodes, settled + (p - 1))
    BY <1>3 DEF LoopInv
  <2>2. Ready(next.nodes) /\ \A i \in Indices : Justified(next.nodes, i)
    BY <1>1, <1>3, <2>1, PassDecides
  <2>3. Progress(next.nodes, settled + (p - 1) + 1)
    <3>1. settled + (p - 1) \in Nat
      OBVIOUS
    <3>2. QED
      BY <1>1, <1>3, <2>1, <3>1, PassProgresses
  <2>4. Progress(next.nodes, settled + p)
    <3>1. settled + (p - 1) + 1 = settled + p
      OBVIOUS
    <3>2. QED
      BY <2>3, <3>1
  <2>5. QED
    BY <1>1, <1>3, <2>2, <2>4 DEF LoopInv
<1>4. QED
  BY <1>2, <1>3

LEMMA RunKeeps ==
  ASSUME EdgesInv, settled \in Nat, node \in TableOf(Len(slot)), policy \in Policy,
         Progress(node, settled)
  PROVE  /\ Run \in LoopStates(Len(slot))
         /\ LoopInv(Run, Len(slot) + 1)
<1>1. PICK n \in Nat : n = Len(slot)
  BY DEF EdgesInv
<1>2. PICK f \in [0 .. n + 1 -> LoopStates(n)] :
        f[0] = FirstLoop /\ (\A p \in 1 .. n + 1 : f[p] = LoopTurn(f[p - 1], p)) /\ Run = f[n + 1]
  BY <1>1, RunMeaning
<1>3. LoopInv(f[0], 0)
  <2>1. /\ f[0].nodes = node /\ f[0].passes = 0 /\ ~ f[0].done
    BY <1>2 DEF FirstLoop
  <2>2. Ready(node)
    BY <1>1 DEF Ready, SameHooks
  <2>3. settled + 0 = settled
    OBVIOUS
  <2>4. QED
    BY <2>1, <2>2, <2>3 DEF LoopInv
<1> DEFINE S == {p \in 0 .. n + 1 : LoopInv(f[p], p)}
<1>4. \A p \in 1 .. n + 1 : p - 1 \in S => p \in S
  <2>1. ASSUME NEW p \in 1 .. n + 1, p - 1 \in S PROVE p \in S
    <3>1. f[p - 1] \in LoopStates(n) /\ LoopInv(f[p - 1], p - 1)
      BY <2>1
    <3>2. LoopInv(f[p], p)
      BY <1>1, <1>2, <3>1, LoopTurnKeeps
    <3>3. QED
      BY <3>2
  <2>2. QED
    BY <2>1
<1>5. 0 \in S
  BY <1>3
<1>6. LoopInv(f[n + 1], n + 1)
  <2> HIDE DEF S
  <2>1. n + 1 \in Nat
    OBVIOUS
  <2>2. \A p \in 0 .. n + 1 : p \in S
    BY <1>4, <1>5, <2>1, StepwiseInduction
  <2>3. n + 1 \in S
    BY <2>2
  <2>4. QED
    BY <2>3 DEF S
<1>7. QED
  BY <1>1, <1>2, <1>6

-----------------------------------------------------------------------------
(* The invariants                                                          *)

\* TypeOK, but for the edges, which EdgesInv knows.
TypeInv ==
  /\ Len(slot) <= Capacity
  /\ node \in Seq(Node) /\ Len(node) = Len(slot)
  /\ \A i \in Indices : Len(deps[i]) <= MaxDeps
  /\ policy \in Policies \union {DefaultPolicy}
  /\ report \in [bound : 0 .. Capacity, faulted : 0 .. Capacity, passes : 0 .. Capacity + 1]
  /\ origin \in Seq({0} \union Profiles) /\ Len(origin) = Len(slot)
  /\ settled \in 0 .. Capacity
  /\ ops \in 0 .. MaxOps

\* While nothing but resolve_all is called, every pass decides a node more, and
\* the last report counts what is bound, each with its reason.
SettledInv ==
  /\ Progress(node, settled)
  /\ settled > 0 => /\ report.faulted = Len(slot) - Cardinality(Bound(node))
                    /\ \A i \in Indices : Justified(node, i)

IInv == EdgesInv /\ TypeInv /\ SettledInv

LEMMA PolicyIsPolicy ==
  ASSUME TypeInv
  PROVE  policy \in Policy
<1>1. MaskStable \subseteq ValidStates
  BY DEF MaskStable, ValidStates, Stable, Lts, Experimental
<1>2. DefaultPolicy \in Policy
  BY <1>1, RegistryAssumption DEF DefaultPolicy, Policy
<1>3. QED
  BY <1>2, RegistryAssumption DEF TypeInv

LEMMA NodesAreATable ==
  ASSUME EdgesInv, TypeInv
  PROVE  Len(slot) \in Nat /\ node \in TableOf(Len(slot)) /\ DOMAIN node = Indices
<1>1. Len(slot) \in Nat /\ node \in [1 .. Len(node) -> Node]
  BY LenProperties DEF EdgesInv, TypeInv
<1>2. QED
  BY <1>1 DEF TypeInv, TableOf, Indices

\* Nothing is decided by a call that is not resolve_all, and nothing need be.
LEMMA NothingSettled ==
  ASSUME settled' = 0
  PROVE  SettledInv'
<1>1. (Settled(node, {}))'
  BY DEF Settled
<1>2. Cardinality({}) >= 0
  BY FS_EmptySet
<1>3. Progress(node, settled)'
  BY <1>1, <1>2 DEF Progress
<1>4. QED
  BY <1>3 DEF SettledInv

LEMMA InitInv == Init => IInv
<1> SUFFICES ASSUME Init PROVE IInv
  OBVIOUS
<1>1. EdgesInv
  BY InitEdges
<1>2. /\ slot = <<>> /\ node = <<>> /\ deps = <<>> /\ policy = DefaultPolicy /\ report = NoReport
      /\ origin = <<>> /\ settled = 0 /\ ops = 0
  BY DEF Init
<1>3. Len(slot) = 0 /\ Indices = {}
  BY <1>2 DEF Indices
<1>4. TypeInv
  <2>1. node \in Seq(Node) /\ Len(node) = 0 /\ origin \in Seq({0} \union Profiles) /\ Len(origin) = 0
    BY <1>2
  <2>2. report \in [bound : 0 .. Capacity, faulted : 0 .. Capacity, passes : 0 .. Capacity + 1]
    BY <1>2, RegistryAssumption DEF NoReport
  <2>3. QED
    BY <1>2, <1>3, <2>1, <2>2, RegistryAssumption DEF TypeInv
<1>5. SettledInv
  <2>1. Settled(node, {}) /\ Cardinality({}) >= 0
    BY FS_EmptySet DEF Settled
  <2>2. QED
    BY <1>2, <2>1 DEF SettledInv, Progress
<1>6. QED
  BY <1>1, <1>4, <1>5 DEF IInv

-----------------------------------------------------------------------------
(* Each call keeps the types                                               *)

\* A table that gets one node more.
LEMMA AppendKeepsSeq ==
  ASSUME NEW S, NEW s \in Seq(S), NEW e \in S
  PROVE  Append(s, e) \in Seq(S) /\ Len(Append(s, e)) = Len(s) + 1
OBVIOUS

LEMMA RegisterKeepsTypes ==
  ASSUME IInv, NEW site \in CallSites, Register(site[1], site[2])
  PROVE  TypeInv'
<1>1. /\ ops < MaxOps /\ ops' = ops + 1 /\ Len(slot) < Capacity
      /\ slot' = Append(slot, site[1]) /\ node' = Append(node, InitNode(site[2]))
      /\ deps' = Append(deps, <<>>) /\ origin' = Append(origin, 0) /\ settled' = 0
      /\ policy' = policy /\ report' = report
  BY DEF Register, Call
<1>2. /\ slot \in Seq(SlotNames) /\ node \in Seq(Node) /\ Len(node) = Len(slot)
      /\ deps \in Seq(Seq(Nat)) /\ Len(deps) = Len(slot) /\ Len(slot) \in Nat
      /\ origin \in Seq({0} \union Profiles) /\ Len(origin) = Len(slot)
      /\ \A i \in Indices : Len(deps[i]) <= MaxDeps
  BY DEF IInv, EdgesInv, TypeInv
<1>3. site[1] \in SlotNames /\ InitNode(site[2]) \in Node
  <2>1. site[1] \in SlotNames /\ site[2] \in Descriptor
    BY RegistryAssumption
  <2>2. QED
    BY <2>1 DEF InitNode, Node, BindStates, Faults
<1>4. /\ Len(slot') = Len(slot) + 1 /\ node' \in Seq(Node) /\ Len(node') = Len(slot')
      /\ origin' \in Seq({0} \union Profiles) /\ Len(origin') = Len(slot')
  BY <1>1, <1>2, <1>3, AppendKeepsSeq
<1>5. \A i \in Indices' : Len(deps'[i]) <= MaxDeps
  <2>1. PICK n \in Nat : n = Len(slot) + 1
    BY <1>2
  <2>2. deps'[n] = <<>> /\ \A i \in 1 .. Len(slot) : deps'[i] = deps[i]
    BY <1>1, <1>2, <2>1
  <2>3. Indices' = Indices \union {n}
    BY <1>2, <1>4, <2>1 DEF Indices
  <2>4. Len(deps'[n]) <= MaxDeps
    BY <2>2, RegistryAssumption
  <2>5. QED
    BY <1>2, <2>2, <2>3, <2>4 DEF Indices
<1>6. ops' \in 0 .. MaxOps /\ settled' \in 0 .. Capacity /\ Len(slot') <= Capacity
  BY <1>1, <1>2, <1>4, RegistryAssumption DEF IInv, TypeInv
<1>7. QED
  BY <1>1, <1>4, <1>5, <1>6 DEF IInv, TypeInv

LEMMA AddDependencyKeepsTypes ==
  ASSUME IInv, NEW dependent, NEW on, AddDependency(dependent, on)
  PROVE  TypeInv'
<1>1. /\ ops < MaxOps /\ ops' = ops + 1 /\ dependent \in Indices /\ on \in Indices
      /\ Len(deps[dependent]) < MaxDeps
      /\ deps' = [deps EXCEPT ![dependent] = Append(@, on)] /\ settled' = 0
      /\ UNCHANGED <<slot, node, policy, report, origin>>
  BY DEF AddDependency, Call
<1>2. deps \in Seq(Seq(Nat)) /\ Indices = 1 .. Len(deps) /\ Indices \subseteq Nat
  BY DEF IInv, EdgesInv, Indices
<1>3. deps[dependent] \in Seq(Nat) /\ on \in Nat
  BY <1>1, <1>2
<1>4. Len(Append(deps[dependent], on)) = Len(deps[dependent]) + 1 /\ Len(deps[dependent]) \in Nat
  BY <1>3
<1>5. \A i \in Indices : Len(deps'[i]) <= MaxDeps
  <2>1. deps'[dependent] = Append(deps[dependent], on) /\ \A i \in Indices \ {dependent} : deps'[i] = deps[i]
    BY <1>1, <1>2
  <2>2. Len(deps'[dependent]) <= MaxDeps
    BY <1>1, <1>4, <2>1, RegistryAssumption
  <2>3. QED
    BY <2>1, <2>2 DEF IInv, TypeInv
<1>6. Indices' = Indices
  BY <1>1 DEF Indices
<1>7. ops' \in 0 .. MaxOps /\ settled' \in 0 .. Capacity
  BY <1>1, RegistryAssumption DEF IInv, TypeInv
<1>8. QED
  BY <1>1, <1>5, <1>6, <1>7 DEF IInv, TypeInv

\* A call that replaces nodes and origins and leaves the edges alone.
LEMMA OthersKeepTypes ==
  ASSUME IInv, Call, UNCHANGED <<slot, deps, report>>, settled' = 0,
         node' \in Seq(Node), Len(node') = Len(slot),
         origin' \in Seq({0} \union Profiles), Len(origin') = Len(slot),
         policy' \in Policies \union {DefaultPolicy}
  PROVE  TypeInv'
<1>1. ops' \in 0 .. MaxOps /\ settled' \in 0 .. Capacity
  BY RegistryAssumption DEF Call, IInv, TypeInv
<1>2. Indices' = Indices
  BY DEF Indices
<1>3. QED
  BY <1>1, <1>2 DEF IInv, TypeInv

LEMMA OfferKeepsTypes ==
  ASSUME IInv, NEW i \in Indices, NEW d \in Offers, Offer(i, d)
  PROVE  TypeInv'
<1>1. /\ Call /\ node' = [node EXCEPT ![i].u2 = d] /\ origin' = [origin EXCEPT ![i] = 0]
      /\ settled' = 0 /\ UNCHANGED <<slot, deps, policy, report>>
  BY DEF Offer
<1>2. /\ node \in TableOf(Len(slot)) /\ Len(slot) \in Nat /\ i \in 1 .. Len(slot)
      /\ origin \in Seq({0} \union Profiles) /\ Len(origin) = Len(slot)
  BY NodesAreATable DEF IInv, TypeInv, Indices
<1>3. [node[i] EXCEPT !.u2 = d] \in Node
  <2>1. node[i] \in Node /\ d \in Descriptor \union {NoDesc}
    BY <1>2, RegistryAssumption DEF TableOf
  <2>2. QED
    BY <2>1 DEF Node
<1>4. node' \in TableOf(Len(slot))
  <2>1. node' = [node EXCEPT ![i] = [node[i] EXCEPT !.u2 = d]]
    BY <1>1
  <2>2. QED
    BY <1>2, <1>3, <2>1 DEF TableOf
<1>5. node' \in Seq(Node) /\ Len(node') = Len(slot)
  BY <1>2, <1>4, TablesAreSequences
<1>6. origin' \in Seq({0} \union Profiles) /\ Len(origin') = Len(slot)
  BY <1>1, <1>2
<1>7. QED
  BY <1>1, <1>5, <1>6, OthersKeepTypes DEF IInv, TypeInv

LEMMA OfferModuleKeepsTypes ==
  ASSUME IInv, NEW table \in ModuleDescs, OfferModule(table)
  PROVE  TypeInv'
<1> DEFINE matched == {i \in Indices : Find(table, node[i].u1.symbol) # NoDesc}
<1>1. /\ Call /\ settled' = 0 /\ UNCHANGED <<slot, deps, policy, report>>
      /\ node' = [i \in DOMAIN node |->
           IF i \in matched THEN [node[i] EXCEPT !.u2 = Find(table, node[i].u1.symbol)] ELSE node[i]]
      /\ origin' = [i \in DOMAIN origin |-> IF i \in matched THEN table.arch ELSE origin[i]]
  BY DEF OfferModule
<1>2. /\ node \in TableOf(Len(slot)) /\ Len(slot) \in Nat /\ DOMAIN node = 1 .. Len(slot)
      /\ origin \in [1 .. Len(slot) -> {0} \union Profiles]
  BY NodesAreATable, LenProperties DEF IInv, TypeInv, Indices
<1>3. table.arch \in {0} \union Profiles /\ table.exports \in [Symbols -> Descriptor \union {NoDesc}]
  BY RegistryAssumption DEF Table
<1>4. ASSUME NEW i \in 1 .. Len(slot)
      PROVE  [node[i] EXCEPT !.u2 = Find(table, node[i].u1.symbol)] \in Node /\ node[i] \in Node
  <2>1. node[i] \in Node
    BY <1>2 DEF TableOf
  <2>2. Find(table, node[i].u1.symbol) \in Descriptor \union {NoDesc}
    BY <1>3 DEF Find
  <2>3. QED
    BY <2>1, <2>2 DEF Node
<1> HIDE DEF matched
<1>5. node' \in TableOf(Len(slot))
  BY <1>1, <1>2, <1>4 DEF TableOf
<1>6. node' \in Seq(Node) /\ Len(node') = Len(slot)
  BY <1>2, <1>5, TablesAreSequences
<1>7. origin' \in [1 .. Len(slot) -> {0} \union Profiles]
  BY <1>1, <1>2, <1>3
<1>8. origin' \in Seq({0} \union Profiles) /\ Len(origin') = Len(slot)
  <2>1. origin' \in Seq({0} \union Profiles) /\ DOMAIN origin' = 1 .. Len(slot)
    BY <1>2, <1>7, SeqDef
  <2>2. DOMAIN origin' = 1 .. Len(origin') /\ Len(origin') \in Nat
    BY <2>1, LenProperties
  <2>3. QED
    BY <1>2, <2>1, <2>2
<1>9. QED
  BY <1>1, <1>6, <1>8, OthersKeepTypes DEF IInv, TypeInv

-----------------------------------------------------------------------------
(* resolve_all                                                             *)

LEMMA ResolveAllKeepsInv ==
  ASSUME IInv, ResolveAll
  PROVE  TypeInv' /\ SettledInv'
<1>1. /\ policy \in Policy /\ Len(slot) \in Nat /\ node \in TableOf(Len(slot)) /\ Len(node) = Len(slot)
      /\ settled \in 0 .. Capacity /\ Capacity \in Nat /\ Len(slot) <= Capacity
  BY PolicyIsPolicy, NodesAreATable, RegistryAssumption DEF IInv, TypeInv
<1>2. PICK n \in Nat : n = Len(slot) /\ Indices = 1 .. n
  BY <1>1 DEF Indices
<1>3. PICK run \in LoopStates(n) : run = Run /\ LoopInv(run, n + 1)
  BY <1>1, <1>2, RunKeeps DEF IInv, SettledInv
<1>4. /\ ops < MaxOps /\ ops' = ops + 1 /\ node' = run.nodes
      /\ report' = [bound |-> run.bound, faulted |-> Len(node) - run.bound, passes |-> run.passes]
      /\ settled' = IF settled + run.passes < Capacity THEN settled + run.passes ELSE Capacity
      /\ UNCHANGED <<slot, deps, policy, origin>>
  BY <1>3 DEF ResolveAll, Call
<1>5. /\ run.nodes \in TableOf(n) /\ run.passes \in 0 .. n + 1 /\ SameHooks(run.nodes)
      /\ run.bound = Cardinality(Bound(run.nodes)) /\ run.bound \in 0 .. n
      /\ \A i \in Indices : Justified(run.nodes, i)
      /\ Progress(run.nodes, settled + run.passes)
  <2>1. /\ run.nodes \in TableOf(n) /\ run.passes \in 0 .. n + 1
    BY <1>3 DEF LoopStates
  <2>2. /\ SameHooks(run.nodes) /\ run.bound = Cardinality(Bound(run.nodes))
        /\ \A i \in Indices : Justified(run.nodes, i)
        /\ Progress(run.nodes, settled + run.passes)
    BY <1>3 DEF LoopInv, Ready
  <2>3. QED
    BY <2>1, <2>2, BoundIsCounted
<1>6. TypeInv'
  <2>1. node' \in Seq(Node) /\ Len(node') = Len(slot')
    BY <1>2, <1>4, <1>5, TablesAreSequences
  <2>2. report' \in [bound : 0 .. Capacity, faulted : 0 .. Capacity, passes : 0 .. Capacity + 1]
    BY <1>1, <1>2, <1>4, <1>5
  <2>3. settled' \in 0 .. Capacity /\ ops' \in 0 .. MaxOps
    <3>1. ops \in 0 .. MaxOps /\ MaxOps \in Nat
      BY RegistryAssumption DEF IInv, TypeInv
    <3>2. QED
      BY <1>1, <1>4, <1>5, <3>1
  <2>4. Indices' = Indices
    BY <1>4 DEF Indices
  <2>5. QED
    BY <1>4, <2>1, <2>2, <2>3, <2>4 DEF IInv, TypeInv
<1>7. /\ Indices' = Indices /\ (\A i : Upstream(i)' = Upstream(i)) /\ Least' = Least
      /\ Bound(node)' = Bound(run.nodes)
  <2>1. Indices' = Indices /\ \A i : Upstream(i)' = Upstream(i)
    BY <1>4 DEF Indices, Upstream
  <2>2. \A i \in Indices : node'[i].u1 = node[i].u1 /\ node'[i].u2 = node[i].u2
    BY <1>4, <1>5 DEF SameHooks
  <2>3. \A S : Bindable(S)' = Bindable(S)
    BY <1>4, <2>1, <2>2 DEF Bindable
  <2>4. Least' = Least
    BY <2>1, <2>3 DEF Least
  <2>5. QED
    BY <1>4, <2>1, <2>4 DEF Bound
<1>8. Progress(node, settled)'
  <2>1. PICK D \in SUBSET Indices :
          Settled(run.nodes, D) /\ (Cardinality(D) >= settled + run.passes \/ D = Indices)
    BY <1>5 DEF Progress
  <2>2. Settled(node, D)'
    BY <1>7, <2>1 DEF Settled, Decided
  <2>3. Cardinality(D) >= settled' \/ D = Indices'
    <3>1. Cardinality(D) \in Nat
      <4>1. IsFiniteSet(Indices)
        BY <1>2, FS_Interval
      <4>2. QED
        BY <4>1, FS_Subset, FS_CardinalityType
    <3>2. settled' <= settled + run.passes
      BY <1>1, <1>4, <1>5
    <3>3. settled' \in Nat /\ settled + run.passes \in Nat
      BY <1>1, <1>4, <1>5
    <3>4. QED
      BY <1>7, <2>1, <3>1, <3>2, <3>3
  <2>4. QED
    BY <1>7, <2>2, <2>3 DEF Progress
<1>9. report'.faulted = Len(slot') - Cardinality(Bound(node)')
  BY <1>1, <1>4, <1>5, <1>7
<1>10. (\A i \in Indices : Justified(node, i))'
  <2>1. ASSUME NEW i \in Indices PROVE Justified(node, i)'
    <3>1. node'[i].u1 = node[i].u1 /\ node'[i].u2 = node[i].u2 /\ Justified(run.nodes, i)
      BY <1>4, <1>5 DEF SameHooks
    <3>2. QED
      BY <1>4, <1>7, <3>1 DEF Justified
  <2>2. QED
    BY <1>7, <2>1
<1>11. SettledInv'
  BY <1>8, <1>9, <1>10 DEF SettledInv
<1>12. QED
  BY <1>6, <1>11

LEMMA StepInv == IInv /\ [Next]_vars => IInv'
<1> SUFFICES ASSUME IInv, [Next]_vars PROVE IInv'
  OBVIOUS
<1>0. EdgesInv'
  BY StepEdges DEF IInv
<1>1. ASSUME NEW pol \in Policies, SetPolicy(pol) PROVE IInv'
  <2>1. TypeInv'
    BY <1>1, OthersKeepTypes DEF SetPolicy, IInv, TypeInv
  <2>2. SettledInv'
    BY <1>1, NothingSettled DEF SetPolicy
  <2>3. QED
    BY <1>0, <2>1, <2>2 DEF IInv
<1>2. ASSUME NEW site \in CallSites, Register(site[1], site[2]) PROVE IInv'
  <2>1. TypeInv'
    BY <1>2, RegisterKeepsTypes
  <2>2. SettledInv'
    BY <1>2, NothingSettled DEF Register
  <2>3. QED
    BY <1>0, <2>1, <2>2 DEF IInv
<1>3. ASSUME NEW edge \in Edges, AddDependency(edge[1], edge[2]) PROVE IInv'
  <2>1. TypeInv'
    BY <1>3, AddDependencyKeepsTypes
  <2>2. SettledInv'
    BY <1>3, NothingSettled DEF AddDependency
  <2>3. QED
    BY <1>0, <2>1, <2>2 DEF IInv
<1>4. ASSUME NEW i \in Indices, NEW d \in Offers, Offer(i, d) PROVE IInv'
  <2>1. TypeInv'
    BY <1>4, OfferKeepsTypes
  <2>2. SettledInv'
    BY <1>4, NothingSettled DEF Offer
  <2>3. QED
    BY <1>0, <2>1, <2>2 DEF IInv
<1>5. ASSUME NEW table \in ModuleDescs, OfferModule(table) PROVE IInv'
  <2>1. TypeInv'
    BY <1>5, OfferModuleKeepsTypes
  <2>2. SettledInv'
    BY <1>5, NothingSettled DEF OfferModule
  <2>3. QED
    BY <1>0, <2>1, <2>2 DEF IInv
<1>6. ASSUME ResolveAll PROVE IInv'
  BY <1>0, <1>6, ResolveAllKeepsInv DEF IInv
<1>7. ASSUME UNCHANGED vars PROVE IInv'
  <2>1. TypeInv'
    BY <1>7 DEF vars, IInv, TypeInv, Indices
  <2>2. SettledInv'
    <3>1. /\ Indices' = Indices /\ (\A i : Upstream(i)' = Upstream(i)) /\ (\A S : Bindable(S)' = Bindable(S))
          /\ Bound(node)' = Bound(node)
      BY <1>7 DEF vars, Indices, Upstream, Bindable, Bound
    <3>2. Least' = Least
      BY <3>1 DEF Least
    <3>3. /\ node' = node /\ settled' = settled /\ report' = report /\ slot' = slot /\ policy' = policy
      BY <1>7 DEF vars
    <3>4. \A D : Settled(node, D)' <=> Settled(node, D)
      BY <3>1, <3>2 DEF Settled, Decided
    <3>5. Progress(node, settled)'
      BY <3>1, <3>3, <3>4 DEF IInv, SettledInv, Progress
    <3>6. \A i : Justified(node, i)' <=> Justified(node, i)
      BY <3>1, <3>3 DEF Justified
    <3>7. QED
      BY <3>1, <3>3, <3>5, <3>6 DEF IInv, SettledInv
  <2>3. QED
    BY <1>0, <2>1, <2>2 DEF IInv
<1>8. QED
  BY <1>1, <1>2, <1>3, <1>4, <1>5, <1>6, <1>7 DEF Next

LEMMA Invariant == Spec => []IInv
<1>1. QED
  BY InitInv, StepInv, PTL DEF Spec

-----------------------------------------------------------------------------
(* Theorems                                                                *)

LEMMA IndicesAreCounted ==
  ASSUME Len(slot) \in Nat
  PROVE  IsFiniteSet(Indices) /\ Cardinality(Indices) = Len(slot)
<1>1. PICK n \in Nat : n = Len(slot)
  OBVIOUS
<1>2. IsFiniteSet(1 .. n) /\ Cardinality(1 .. n) = IF 1 > n THEN 0 ELSE n - 1 + 1
  BY FS_Interval
<1>3. QED
  BY <1>1, <1>2 DEF Indices

LEMMA FunctionsAreSequences ==
  ASSUME NEW S, NEW n \in Nat, NEW s \in [1 .. n -> S]
  PROVE  s \in Seq(S)
BY SeqDef

LEMMA SequencesOfIndices ==
  ASSUME NEW S, NEW d \in Seq(Seq(Nat)), \A i \in 1 .. Len(d) : {d[i][k] : k \in DOMAIN d[i]} \subseteq S
  PROVE  d \in Seq(Seq(S))
<1>1. ASSUME NEW i \in 1 .. Len(d) PROVE d[i] \in Seq(S)
  <2>1. PICK s \in Seq(Nat) : s = d[i]
    OBVIOUS
  <2>2. s \in [1 .. Len(s) -> Nat] /\ Len(s) \in Nat
    BY LenProperties
  <2>3. s \in [1 .. Len(s) -> S]
    BY <2>1, <2>2
  <2>4. QED
    BY <2>1, <2>2, <2>3, FunctionsAreSequences
<1>2. d \in [1 .. Len(d) -> Seq(Nat)] /\ Len(d) \in Nat
  BY LenProperties
<1>3. d \in [1 .. Len(d) -> Seq(S)]
  BY <1>1, <1>2
<1>4. QED
  BY <1>2, <1>3, FunctionsAreSequences

\* Every table of the registry stays in its type and within its capacity,
\* whatever is registered, offered, withdrawn and resolved.
THEOREM TypeCorrect == Spec => []TypeOK
<1>1. IInv => TypeOK
  <2> SUFFICES ASSUME IInv PROVE TypeOK
    OBVIOUS
  <2>1. deps \in Seq(Seq(Indices))
    <3>1. \A i \in 1 .. Len(deps) : {deps[i][k] : k \in DOMAIN deps[i]} \subseteq Indices
      BY DEF IInv, EdgesInv, Upstream, Indices
    <3>2. QED
      BY <3>1, SequencesOfIndices DEF IInv, EdgesInv
  <2>2. QED
    BY <2>1 DEF IInv, EdgesInv, TypeInv, TypeOK
<1>2. QED
  BY <1>1, Invariant, PTL

\* Whatever healed and broke, and however often a run returned early, as many
\* passes as there are nodes bind exactly the nodes that should be bound.
THEOREM ResolvingConverges == Spec => []RepeatedResolvingConverges
<1>1. IInv => RepeatedResolvingConverges
  <2> SUFFICES ASSUME IInv, settled >= Len(slot) PROVE Bound(node) = Least
    BY DEF RepeatedResolvingConverges
  <2>1. PICK D \in SUBSET Indices : Settled(node, D) /\ (Cardinality(D) >= settled \/ D = Indices)
    BY DEF IInv, SettledInv, Progress
  <2>2. D = Indices
    <3>1. Len(slot) \in Nat /\ settled \in Nat
      BY RegistryAssumption DEF IInv, EdgesInv, TypeInv
    <3>2. IsFiniteSet(Indices) /\ Cardinality(Indices) = Len(slot)
      BY <3>1, IndicesAreCounted
    <3>3. Cardinality(D) <= Cardinality(Indices) /\ Cardinality(D) \in Nat
      BY <3>2, FS_Subset, FS_CardinalityType
    <3>4. CASE Cardinality(D) >= settled
      <4>1. Cardinality(D) = Cardinality(Indices)
        BY <3>1, <3>2, <3>3, <3>4
      <4>2. QED
        BY <3>2, <4>1, FS_Subset
    <3>5. QED
      BY <2>1, <3>4
  <2>3. \A i \in Indices : i \in Bound(node) <=> i \in Least
    BY <2>1, <2>2 DEF Settled, Decided
  <2>4. Bound(node) \subseteq Indices /\ Least \subseteq Indices
    BY NodesAreATable DEF IInv, Bound, Least
  <2>5. QED
    BY <2>3, <2>4
<1>2. QED
  BY <1>1, Invariant, PTL

\* A report without a fault is true at the moment it is given: every node is
\* bound, ought to be, and shows the address its provider has now.
THEOREM CompleteReportsStayTrue == Spec => []CompleteReportsAreTrue
<1>1. IInv => CompleteReportsAreTrue
  <2> SUFFICES ASSUME IInv, settled > 0, report.faulted = 0
               PROVE  /\ Bound(node) = Indices /\ Least = Indices
                      /\ \A i \in Indices : node[i].w = node[i].u2.address
    BY DEF CompleteReportsAreTrue
  <2>1. /\ Len(slot) \in Nat /\ node \in TableOf(Len(slot))
        /\ IsFiniteSet(Indices) /\ Cardinality(Indices) = Len(slot)
    BY NodesAreATable, IndicesAreCounted DEF IInv
  <2>2. Bound(node) \subseteq Indices /\ Cardinality(Bound(node)) \in Nat
    BY <2>1, BoundIsCounted DEF Indices
  <2>3. Cardinality(Bound(node)) = Cardinality(Indices)
    BY <2>1, <2>2 DEF IInv, SettledInv
  <2>4. Bound(node) = Indices
    BY <2>1, <2>2, <2>3, FS_Subset
  <2>5. \A i \in Indices : Admits(node[i].u1, node[i].u2, policy) /\ node[i].w = node[i].u2.address
    BY <2>4 DEF IInv, SettledInv, Justified
  <2>6. ASSUME NEW S \in SUBSET Indices, Bindable(S) \subseteq S, S # Indices
        PROVE  FALSE
    <3>1. PICK i \in Indices \ S : Upstream(i) \intersect (Indices \ S) = {}
      BY <2>6 DEF IInv, EdgesInv, EdgesAreAcyclic
    <3>2. Upstream(i) \subseteq S
      BY <3>1 DEF IInv, EdgesInv
    <3>3. i \in Bindable(S)
      BY <2>5, <3>1, <3>2 DEF Bindable
    <3>4. QED
      BY <2>6, <3>1, <3>3
  <2>7. Least = Indices
    BY <2>6 DEF Least
  <2>8. QED
    BY <2>4, <2>5, <2>7
<1>2. QED
  BY <1>1, Invariant, PTL
=============================================================================
