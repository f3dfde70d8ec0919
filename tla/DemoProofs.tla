------------------------------- MODULE DemoProofs -------------------------------
(***************************************************************************)
(* Theorems about the dynamic loader demo: shortest_path, for every graph  *)
(* it can be called with and for every way to pass it its arguments, and   *)
(* the answers of the server, for every manifest and every sequence of     *)
(* requests.                                                               *)
(***************************************************************************)
EXTENDS DynLoader, PyCall, FiniteSetTheorems, SequenceTheorems, WellFoundedInduction, TLAPS

-----------------------------------------------------------------------------
(* Numbers                                                                 *)

\* A set of natural numbers has a least one: it begins the smallest of the
\* finite sets that its members begin.
LEMMA LeastNumber ==
  ASSUME NEW S \in SUBSET Nat, S # {}
  PROVE  \E m \in S : \A k \in S : m <= k
<1>1. PICK n \in S : TRUE
  OBVIOUS
<1> DEFINE Below(k) == {j \in 0 .. n : j < k}
           T == {Below(k) : k \in {k \in S : k <= n}}
           R == StrictSubsetOrdering(0 .. n)
<1>2. IsWellFoundedOn(R, SUBSET (0 .. n))
  <2>1. IsFiniteSet(0 .. n)
    BY FS_Interval
  <2>2. QED
    BY <2>1, FS_StrictSubsetOrderingWellFounded, FS_FiniteSubsetsOfFinite
<1>3. T # {} /\ T \subseteq SUBSET (0 .. n)
  <2>1. n <= n
    OBVIOUS
  <2>2. Below(n) \in T
    BY <2>1
  <2>3. \A k \in S : Below(k) \subseteq 0 .. n
    OBVIOUS
  <2>4. QED
    BY <2>2, <2>3
<1>4. PICK X \in T : \A Y \in T : <<Y, X>> \notin R
  <2> HIDE DEF T, R
  <2>1. QED
    BY <1>2, <1>3, WFMin
<1>5. PICK m \in S : m <= n /\ X = Below(m)
  BY <1>4
<1>6. ASSUME NEW k \in S, k < m PROVE FALSE
  <2>1. Below(k) \in T /\ Below(k) \subseteq Below(m) /\ k \in Below(m) /\ k \notin Below(k)
    BY <1>5, <1>6
  <2>2. Below(k) \in SUBSET (0 .. n) /\ Below(m) \in SUBSET (0 .. n) /\ Below(k) # Below(m)
    BY <2>1
  <2>3. <<Below(k), Below(m)>> \in R
    <3> HIDE DEF Below
    <3>1. QED
      BY <2>1, <2>2 DEF StrictSubsetOrdering
  <2>4. QED
    BY <1>4, <1>5, <2>1, <2>3
<1>7. QED
  BY <1>6

\* Induction from 1 to n.
LEMMA Climbing ==
  ASSUME NEW n \in Nat, NEW S, 1 \in S,
         \A i \in 2 .. n : i - 1 \in S => i \in S
  PROVE  \A i \in 1 .. n : i \in S
<1> DEFINE F == {i \in 1 .. n : i \notin S}
<1>1. SUFFICES ASSUME F # {} PROVE FALSE
  OBVIOUS
<1>2. F \in SUBSET Nat
  OBVIOUS
<1>3. PICK m \in F : \A k \in F : m <= k
  <2> HIDE DEF F
  <2>1. QED
    BY <1>1, <1>2, LeastNumber
<1>4. m \in 2 .. n /\ m - 1 \in 1 .. n
  BY <1>3
<1>5. m - 1 \in S
  BY <1>3, <1>4
<1>6. QED
  BY <1>3, <1>4, <1>5

\* The sums of c[2], c[3] and so on up to each number.
IsSum(f, n, c) == f = [i \in 1 .. n |-> IF i = 1 THEN 0 ELSE f[i - 1] + c[i]]

LEMMA SumsExist ==
  ASSUME NEW n \in Nat, NEW c \in [1 .. n -> Nat]
  PROVE  \E f \in [1 .. n -> Nat] : IsSum(f, n, c)
<1> DEFINE Upto(k, f) == f[1] = 0 /\ \A i \in 2 .. k : f[i] = f[i - 1] + c[i]
           S == {k \in 1 .. n : \E f \in [1 .. n -> Nat] : Upto(k, f)}
<1>1. CASE n = 0
  <2> DEFINE e == [i \in 1 .. n |-> 0]
  <2>1. e \in [1 .. n -> Nat] /\ IsSum(e, n, c)
    BY <1>1 DEF IsSum
  <2>2. QED
    BY <2>1
<1>2. CASE n # 0
  <2>1. 1 \in S
    <3> DEFINE e == [i \in 1 .. n |-> 0]
    <3>1. e \in [1 .. n -> Nat] /\ Upto(1, e)
      BY <1>2
    <3>2. QED
      BY <1>2, <3>1
  <2>2. ASSUME NEW k \in 2 .. n, k - 1 \in S PROVE k \in S
    <3>1. PICK f \in [1 .. n -> Nat] : Upto(k - 1, f)
      BY <2>2
    <3> DEFINE g == [f EXCEPT ![k] = f[k - 1] + c[k]]
    <3>2. /\ g \in [1 .. n -> Nat] /\ g[k] = f[k - 1] + c[k]
          /\ \A i \in 1 .. n : i # k => g[i] = f[i]
      BY <2>2
    <3> HIDE DEF g
    <3>3. g[1] = 0
      BY <3>1, <3>2, <1>2
    <3>4. ASSUME NEW i \in 2 .. k PROVE g[i] = g[i - 1] + c[i]
      <4>1. i - 1 \in 1 .. n /\ i - 1 # k /\ i \in 1 .. n
        OBVIOUS
      <4>2. g[i - 1] = f[i - 1]
        BY <3>2, <4>1
      <4>3. CASE i = k
        BY <3>2, <4>2, <4>3
      <4>4. CASE i # k
        <5>1. i \in 2 .. k - 1 /\ g[i] = f[i]
          BY <3>2, <4>1, <4>4
        <5>2. QED
          BY <3>1, <4>2, <5>1
      <4>5. QED
        BY <4>3, <4>4
    <3>5. Upto(k, g) /\ k \in 1 .. n
      BY <3>3, <3>4
    <3>6. QED
      BY <3>2, <3>5
  <2>3. n \in S
    <3> HIDE DEF S
    <3>1. \A i \in 1 .. n : i \in S
      BY <2>1, <2>2, Climbing
    <3>2. QED
      BY <3>1, <1>2
  <2>4. PICK f \in [1 .. n -> Nat] : Upto(n, f)
    BY <2>3
  <2>5. f = [i \in 1 .. n |-> IF i = 1 THEN 0 ELSE f[i - 1] + c[i]]
    BY <2>4
  <2>6. QED
    BY <2>5 DEF IsSum
<1>3. QED
  BY <1>1, <1>2

-----------------------------------------------------------------------------
(* Edges                                                                   *)

\* What shortest_path is called with: finitely many nodes, and costs that are doubles.
IsGraph(g) ==
  /\ IsFiniteSet(DOMAIN g)
  /\ \A n \in DOMAIN g : \A i \in DOMAIN g[n] : g[n][i].weight \in Costs

LEMMA CostsAreNumbers ==
  /\ \A c \in Costs : IsFinite(c) <=> c \in Int
  /\ \A c \in Costs : IsNegative(c) <=> c \in Int /\ c < 0
  /\ \A c \in Nat : IsFinite(c) /\ c # Infinity /\ c # NaN
<1>1. \A c \in Costs : IsFinite(c) <=> c \in Int
  BY InfinityAssumption DEF Costs, IsFinite
<1>2. \A c \in Nat : IsFinite(c) /\ c # Infinity /\ c # NaN
  BY InfinityAssumption DEF IsFinite
<1>3. QED
  BY <1>1, <1>2 DEF IsNegative

\* The comparison of two distances, and of a sum with one.
LEMMA NearerMeaning ==
  ASSUME NEW d \in Nat \union {Infinity}, NEW k \in Nat
  PROVE  /\ \A c \in Nat \union {Infinity} :
              Nearer(c, d) <=> c # Infinity /\ (d = Infinity \/ c < d)
         /\ \A c \in Costs : Nearer(Plus(k, c), d) <=> IsFinite(c) /\ (d = Infinity \/ k + c < d)
<1>1. d # NaN /\ IsFinite(k) /\ NaN # Infinity /\ k # NaN
  BY InfinityAssumption, CostsAreNumbers
<1>2. ASSUME NEW c \in Nat \union {Infinity}
      PROVE  Nearer(c, d) <=> c # Infinity /\ (d = Infinity \/ c < d)
  BY <1>1, CostsAreNumbers DEF Nearer, IsFinite
<1>3. ASSUME NEW c \in Costs
      PROVE  Nearer(Plus(k, c), d) <=> IsFinite(c) /\ (d = Infinity \/ k + c < d)
  <2>1. CASE IsFinite(c)
    <3>1. c \in Int
      BY <2>1, CostsAreNumbers
    <3>2. k + c \in Int
      BY <3>1
    <3>3. IsFinite(k + c)
      BY <3>2, InfinityAssumption DEF IsFinite
    <3>4. Plus(k, c) = k + c
      BY <1>1, <2>1 DEF Plus
    <3>5. QED
      BY <1>1, <2>1, <3>3, <3>4 DEF Nearer
  <2>2. CASE ~ IsFinite(c)
    BY <1>1, <2>2 DEF Plus, Nearer, IsFinite
  <2>3. QED
    BY <2>1, <2>2
<1>4. QED
  BY <1>2, <1>3

LEMMA LeastOfMeaning ==
  ASSUME NEW E, E # {}, \A e \in E : e.weight \in Nat
  PROVE  LeastOf(E) \in E /\ \A f \in E : LeastOf(E).weight <= f.weight
<1> DEFINE W == {e.weight : e \in E}
<1>1. W \in SUBSET Nat /\ W # {}
  OBVIOUS
<1>2. PICK m \in W : \A k \in W : m <= k
  <2> HIDE DEF W
  <2>1. QED
    BY <1>1, LeastNumber
<1>3. PICK e \in E : e.weight = m
  BY <1>2
<1>4. \A f \in E : e.weight <= f.weight
  BY <1>2, <1>3
<1>5. QED
  BY <1>3, <1>4 DEF LeastOf

\* The ways of the graph do not change while a call runs.
LEMMA GraphStays ==
  ASSUME graph' = graph
  PROVE  /\ NodeNames' = NodeNames /\ Ways' = Ways
         /\ NonNegative' <=> NonNegative
         /\ IsGraph(graph)' <=> IsGraph(graph)
         /\ \A a, b : Between(a, b)' = Between(a, b) /\ EdgeCost(a, b)' = EdgeCost(a, b)
         /\ target' = target => Routes' = Routes
<1>1. NodeNames' = NodeNames /\ Ways' = Ways
  BY DEF NodeNames, Ways
<1>2. NonNegative' <=> NonNegative
  BY <1>1 DEF NonNegative
<1>3. IsGraph(graph)' <=> IsGraph(graph)
  BY DEF IsGraph
<1>4. \A a, b : Between(a, b)' = Between(a, b)
  BY <1>1 DEF Between
<1>5. \A a, b : EdgeCost(a, b)' = EdgeCost(a, b)
  BY <1>4 DEF EdgeCost
<1>6. target' = target => Routes' = Routes
  BY <1>4 DEF Routes
<1>7. QED
  BY <1>1, <1>2, <1>3, <1>4, <1>5, <1>6

LEMMA WaysOutOf ==
  ASSUME NEW n \in NodeNames, NEW b
  PROVE  Between(n, b) = {[from |-> n, to |-> graph[n][i].to, weight |-> graph[n][i].weight] :
                            i \in {j \in DOMAIN graph[n] :
                                     graph[n][j].to = b /\ IsFinite(graph[n][j].weight)}}
BY DEF Between, Ways, NodeNames

LEMMA EdgesAreWays ==
  ASSUME current \in NodeNames, NEW b
  PROVE  /\ \A e \in Edges : e.to = b /\ IsFinite(e.weight) =>
              \E w \in Between(current, b) : w.weight = e.weight
         /\ \A w \in Between(current, b) :
              IsFinite(w.weight) /\ \E e \in Edges : e.to = b /\ e.weight = w.weight
<1>1. ASSUME NEW e \in Edges, e.to = b, IsFinite(e.weight)
      PROVE  \E w \in Between(current, b) : w.weight = e.weight
  <2>1. PICK i \in DOMAIN graph[current] : e = graph[current][i]
    BY DEF Edges
  <2> DEFINE w == [from |-> current, to |-> graph[current][i].to, weight |-> graph[current][i].weight]
  <2>2. w \in Between(current, b) /\ w.weight = e.weight
    BY <1>1, <2>1, WaysOutOf
  <2>3. QED
    BY <2>2
<1>2. ASSUME NEW w \in Between(current, b)
      PROVE  IsFinite(w.weight) /\ \E e \in Edges : e.to = b /\ e.weight = w.weight
  <2>1. PICK i \in {j \in DOMAIN graph[current] :
                     graph[current][j].to = b /\ IsFinite(graph[current][j].weight)} :
          w = [from |-> current, to |-> graph[current][i].to, weight |-> graph[current][i].weight]
    BY WaysOutOf
  <2>2. graph[current][i] \in Edges
    BY DEF Edges
  <2>3. QED
    BY <2>1, <2>2
<1>3. QED
  BY <1>1, <1>2

-----------------------------------------------------------------------------
(* The search                                                              *)

Searching == phase \in {"pick", "relax", "found", "rebuild", "returned"}

Chosen == NodeNames \ pending

\* The chosen nodes whose edges have been looked at: all but the target, at
\* which the search ends, and the one just chosen.
Scanned == Chosen \ ({target} \union (IF phase = "relax" THEN {current} ELSE {}))

SearchTypeInv ==
  /\ IsGraph(graph)
  /\ {Root, target} \subseteq NodeNames
  /\ pending \subseteq NodeNames
  /\ distance \in [NodeNames -> Nat \union {Infinity}]
  /\ distance[Root] = 0
  /\ phase \in {"pick", "relax"} => target \in pending
  /\ phase = "relax" => current \in Chosen /\ \A s \in Chosen : distance[s] <= distance[current]

\* Every node reached but the start was reached last from a scanned node.
TreeInv ==
  \A n \in NodeNames \ {Root} : ~ Unreached(n) =>
    /\ n \in DOMAIN previous /\ previous[n] \in Scanned
    /\ Between(previous[n], n) # {}
    /\ distance[n] = distance[previous[n]] + EdgeCost(previous[n], n)

\* No chosen nodes are each reached from another of them: edges may cost
\* nothing, so the distances alone do not show that the way back ends.
RootedInv ==
  \A X \in SUBSET (Chosen \ {Root}) : X # {} => \E m \in X : previous[m] \notin X

\* Nodes are chosen in the order of their distance.
OrderInv ==
  \A s \in Chosen : /\ ~ Unreached(s)
                    /\ \A m \in pending : ~ Unreached(m) => distance[s] <= distance[m]

\* No edge out of a scanned node shortens a distance any more.
ScannedInv ==
  \A s \in Scanned : \A n \in NodeNames : \A w \in Between(s, n) :
    w.weight \in Nat /\ ~ Unreached(n) /\ distance[n] <= distance[s] + w.weight

\* Once the search is over, what is nearer than the target has been scanned.
OverInv ==
  phase \in {"found", "rebuild", "returned"} =>
    \A n \in NodeNames :
      ~ Unreached(n) /\ (Unreached(target) \/ distance[n] < distance[target]) => n \in Scanned

\* The path leads back from the target.
PathInv ==
  phase \in {"rebuild", "returned"} =>
    /\ path \in Seq(NodeNames) /\ path # <<>> /\ path[Len(path)] = target
    /\ \A i \in 1 .. Len(path) : ~ Unreached(path[i])
    /\ \A i \in 2 .. Len(path) : path[i] # Root /\ path[i - 1] = previous[path[i]]
    /\ phase = "returned" => path[1] = Root

SearchInv ==
  SearchTypeInv /\ TreeInv /\ RootedInv /\ OrderInv /\ ScannedInv /\ OverInv /\ PathInv

LEMMA BeginSearches ==
  ASSUME IsGraph(graph), Begin
  PROVE  phase' = "KeyError" \/ (Searching /\ SearchInv)'
<1>1. CASE ~ Present
  BY <1>1 DEF Begin, Raise
<1>2. CASE Present
  <2>1. /\ phase' = "pick" /\ pending' = NodeNames /\ graph' = graph /\ target' = target
        /\ distance' = [n \in NodeNames |-> IF n = Root THEN 0 ELSE Infinity]
        /\ {Root, target} \subseteq NodeNames
    BY <1>2 DEF Begin, Present
  <2>2. NodeNames' = NodeNames /\ IsGraph(graph)' /\ Chosen' = {} /\ Scanned' = {}
    BY <2>1, GraphStays DEF Chosen, Scanned
  <2>3. SearchTypeInv'
    BY <2>1, <2>2 DEF SearchTypeInv
  <2>4. TreeInv'
    BY <2>1, <2>2 DEF TreeInv, Unreached
  <2>5. QED
    BY <2>1, <2>2, <2>3, <2>4
       DEF Searching, SearchInv, RootedInv, OrderInv, ScannedInv, OverInv, PathInv
<1>3. QED
  BY <1>1, <1>2

LEMMA PickSearches ==
  ASSUME SearchInv, Pick
  PROVE  (Searching /\ SearchInv)'
<1>1. PICK n \in Nearest :
        /\ pending' = pending \ {n} /\ current' = n
        /\ phase' = IF n = target THEN "found" ELSE "relax"
        /\ UNCHANGED <<graph, target, distance, previous, path>>
  BY DEF Pick
<1>2. /\ phase = "pick" /\ SearchTypeInv /\ TreeInv /\ RootedInv /\ OrderInv /\ ScannedInv
      /\ target \in pending
  BY DEF Pick, SearchInv, SearchTypeInv
<1>3. /\ n \in pending /\ n \in NodeNames /\ ~ Unreached(n) /\ distance[n] \in Nat
      /\ \A m \in NodeNames : distance[m] \in Nat \union {Infinity}
      /\ \A m \in pending : ~ Unreached(m) => distance[n] <= distance[m]
  <2>1. /\ n \in pending /\ n \in NodeNames /\ ~ Unreached(n)
        /\ \A m \in pending : ~ Nearer(distance[m], distance[n])
        /\ \A m \in NodeNames : distance[m] \in Nat \union {Infinity}
    BY <1>2 DEF Nearest, SearchTypeInv
  <2>2. distance[n] \in Nat
    BY <2>1 DEF Unreached
  <2>3. ASSUME NEW m \in pending, ~ Unreached(m) PROVE distance[n] <= distance[m]
    <3>1. distance[m] \in Nat
      BY <1>2, <2>1, <2>3 DEF Unreached, SearchTypeInv
    <3>2. distance[n] # Infinity /\ distance[m] # Infinity
      BY <2>2, <3>1, InfinityAssumption
    <3>3. ~ (distance[m] < distance[n])
      BY <2>1, <2>2, <3>1, <3>2, NearerMeaning
    <3>4. QED
      BY <2>2, <3>1, <3>3
  <2>4. QED
    BY <2>1, <2>2, <2>3
<1>4. /\ NodeNames' = NodeNames /\ IsGraph(graph)' = IsGraph(graph)
      /\ \A a, b : Between(a, b)' = Between(a, b) /\ EdgeCost(a, b)' = EdgeCost(a, b)
      /\ \A m : Unreached(m)' = Unreached(m)
  BY <1>1, GraphStays DEF Unreached
<1>5. Chosen' = Chosen \union {n} /\ n \notin Chosen /\ Scanned = Chosen /\ Scanned' = Chosen
  BY <1>1, <1>2, <1>3, <1>4 DEF Chosen, Scanned
<1>6. \A s \in Chosen : ~ Unreached(s) /\ distance[s] <= distance[n]
  BY <1>2, <1>3 DEF OrderInv
<1>7. SearchTypeInv'
  <2>1. phase' \in {"pick", "relax"} => target' \in pending'
    BY <1>1, <1>2
  <2>2. \A s \in Chosen' : distance[s] <= distance[n]
    BY <1>3, <1>5, <1>6
  <2>3. pending' \subseteq NodeNames
    BY <1>1, <1>2 DEF SearchTypeInv
  <2>4. QED
    BY <1>1, <1>2, <1>4, <1>5, <2>1, <2>2, <2>3 DEF SearchTypeInv
<1>8. TreeInv'
  BY <1>1, <1>2, <1>4, <1>5 DEF TreeInv
<1>9. RootedInv'
  <2>1. ASSUME NEW X \in SUBSET ((Chosen \union {n}) \ {Root}), X # {}
        PROVE  \E m \in X : previous[m] \notin X
    <3>1. CASE X = {n}
      BY <1>2, <1>3, <1>5, <2>1, <3>1 DEF TreeInv
    <3>2. CASE X # {n}
      <4>1. X \ {n} \in SUBSET (Chosen \ {Root}) /\ X \ {n} # {}
        BY <2>1, <3>2
      <4>2. PICK m \in X \ {n} : previous[m] \notin X \ {n}
        BY <1>2, <4>1 DEF RootedInv
      <4>3. previous[m] \in Chosen
        BY <1>2, <1>5, <1>6, <4>1, <4>2 DEF TreeInv, Chosen
      <4>4. QED
        BY <1>5, <4>2, <4>3
    <3>3. QED
      BY <3>1, <3>2
  <2>2. QED
    BY <1>1, <1>4, <1>5, <2>1 DEF RootedInv
<1>10. OrderInv'
  BY <1>1, <1>2, <1>3, <1>4, <1>5 DEF OrderInv
<1>11. ScannedInv'
  BY <1>1, <1>2, <1>4, <1>5 DEF ScannedInv
<1>12. OverInv'
  <2>1. ASSUME n = target, NEW m \in NodeNames, ~ Unreached(m), distance[m] < distance[n]
        PROVE  m \in Chosen
    BY <1>3, <2>1, InfinityAssumption DEF Chosen, Unreached
  <2>2. QED
    BY <1>1, <1>3, <1>4, <1>5, <2>1 DEF OverInv
<1>13. PathInv'
  BY <1>1 DEF PathInv
<1>14. QED
  BY <1>1, <1>7, <1>8, <1>9, <1>10, <1>11, <1>12, <1>13 DEF Searching, SearchInv

LEMMA NoneLeftSearches ==
  ASSUME SearchInv, NoneLeft
  PROVE  (Searching /\ SearchInv)'
<1>1. /\ phase = "pick" /\ phase' = "found" /\ Nearest = {}
      /\ UNCHANGED <<graph, target, distance, previous, pending, current, path>>
      /\ SearchTypeInv /\ TreeInv /\ RootedInv /\ OrderInv /\ ScannedInv /\ target \in pending
  BY DEF NoneLeft, SearchInv, SearchTypeInv
<1>2. /\ NodeNames' = NodeNames /\ IsGraph(graph)' = IsGraph(graph)
      /\ \A a, b : Between(a, b)' = Between(a, b) /\ EdgeCost(a, b)' = EdgeCost(a, b)
      /\ \A m : Unreached(m)' = Unreached(m)
  BY <1>1, GraphStays DEF Unreached
<1>3. Chosen' = Chosen /\ Scanned = Chosen /\ Scanned' = Chosen
  BY <1>1, <1>2 DEF Chosen, Scanned
<1>4. \A n \in pending : Unreached(n)
  <2> DEFINE R == {n \in pending : ~ Unreached(n)}
             D == {distance[n] : n \in R}
  <2>1. SUFFICES ASSUME R # {} PROVE FALSE
    OBVIOUS
  <2>2. \A n \in R : distance[n] \in Nat
    BY <1>1 DEF SearchTypeInv, Unreached
  <2>3. D \in SUBSET Nat /\ D # {}
    BY <2>1, <2>2
  <2>4. PICK d \in D : \A e \in D : d <= e
    <3> HIDE DEF D
    <3>1. QED
      BY <2>3, LeastNumber
  <2>5. PICK n \in R : distance[n] = d
    BY <2>4
  <2>6. \A m \in R : distance[n] <= distance[m]
    BY <2>4, <2>5
  <2>7. n \in Nearest
    <3>1. \A m \in pending : ~ Nearer(distance[m], distance[n])
      <4>1. SUFFICES ASSUME NEW m \in pending, Nearer(distance[m], distance[n]) PROVE FALSE
        OBVIOUS
      <4>2. distance[m] \in Nat \union {Infinity} /\ distance[n] \in Nat
        BY <1>1, <2>2, <2>5 DEF SearchTypeInv
      <4>3. distance[m] # Infinity /\ distance[m] < distance[n]
        <5> DEFINE x == distance[m]
                   y == distance[n]
        <5>1. x \in Nat \union {Infinity} /\ y \in Nat /\ Nearer(x, y) /\ y # Infinity
          BY <4>1, <4>2, InfinityAssumption
        <5> HIDE DEF x, y
        <5>2. x # Infinity /\ x < y
          BY <5>1, NearerMeaning
        <5>3. QED
          BY <5>2 DEF x, y
      <4>4. m \in R
        BY <4>3 DEF Unreached
      <4>5. QED
        BY <2>6, <4>2, <4>3, <4>4
    <3>2. QED
      BY <2>5, <3>1 DEF Nearest
  <2>8. QED
    BY <1>1, <2>7
<1>5. SearchTypeInv' /\ TreeInv' /\ RootedInv' /\ OrderInv' /\ ScannedInv'
  BY <1>1, <1>2, <1>3 DEF SearchTypeInv, TreeInv, RootedInv, OrderInv, ScannedInv
<1>6. OverInv'
  BY <1>1, <1>2, <1>3, <1>4 DEF OverInv, Chosen
<1>7. PathInv'
  BY <1>1 DEF PathInv
<1>8. QED
  BY <1>1, <1>5, <1>6, <1>7 DEF Searching, SearchInv

\* What the scan of the edges out of the node just chosen makes of the distance of n.
IsCloser(d, n) ==
  /\ d \in Nat \union {Infinity}
  /\ n \in Improved =>
       /\ n \in pending /\ n # Root /\ Between(current, n) # {}
       /\ d \in Nat /\ d = distance[current] + EdgeCost(current, n)
       /\ Unreached(n) \/ d < distance[n]
  /\ n \notin Improved => d = distance[n]
  /\ \A w \in Between(current, n) :
       w.weight \in Nat /\ d # Infinity /\ d <= distance[current] + w.weight

LEMMA CloserMeaning ==
  ASSUME SearchTypeInv, OrderInv, phase = "relax",
         \A e \in Edges : ~ IsNegative(e.weight),
         NEW n \in NodeNames
  PROVE  IsCloser(Closer[n], n)
<1>1. /\ current \in NodeNames /\ distance[current] \in Nat /\ distance[Root] = 0
      /\ distance[n] \in Nat \union {Infinity}
      /\ n \notin pending => ~ Unreached(n) /\ distance[n] <= distance[current]
  BY DEF SearchTypeInv, OrderInv, Chosen, Unreached
<1>2. \A e \in Edges : e.weight \in Costs /\ (IsFinite(e.weight) => e.weight \in Nat)
  <2>1. \A e \in Edges : e.weight \in Costs
    BY <1>1 DEF SearchTypeInv, IsGraph, Edges, NodeNames
  <2>2. QED
    BY <2>1, CostsAreNumbers
<1>3. \A w \in Between(current, n) : w.weight \in Nat
  BY <1>1, <1>2, EdgesAreWays
<1>4. \A e \in Edges : e \in Shorter(n) <=>
        /\ e.to = n /\ n \in pending /\ IsFinite(e.weight)
        /\ Unreached(n) \/ distance[current] + e.weight < distance[n]
  BY <1>1, <1>2, NearerMeaning DEF Shorter, Unreached
<1>5. Shorter(n) \subseteq Edges
  BY DEF Shorter
<1>6. n \in Improved <=> Shorter(n) # {}
  BY DEF Improved
<1>7. CASE n \in Improved
  <2> DEFINE e == LeastOf(Shorter(n))
             c == LeastOf(Between(current, n))
  <2>1. e \in Shorter(n) /\ \A f \in Shorter(n) : e.weight <= f.weight
    <3>1. \A f \in Shorter(n) : f.weight \in Nat
      BY <1>2, <1>4, <1>5
    <3>2. QED
      BY <1>6, <1>7, <3>1, LeastOfMeaning
  <2>2. e \in Edges /\ e.to = n /\ n \in pending /\ e.weight \in Nat /\ IsFinite(e.weight)
        /\ (Unreached(n) \/ distance[current] + e.weight < distance[n])
    BY <1>2, <1>4, <1>5, <2>1
  <2>3. PICK v \in Between(current, n) : v.weight = e.weight
    BY <1>1, <2>2, EdgesAreWays
  <2>4. c \in Between(current, n) /\ \A w \in Between(current, n) : c.weight <= w.weight
    BY <1>3, <2>3, LeastOfMeaning
  <2>5. PICK f \in Edges : f.to = n /\ f.weight = c.weight /\ IsFinite(f.weight)
    BY <1>1, <2>4, EdgesAreWays
  <2>6. c.weight \in Nat /\ c.weight <= e.weight
    BY <1>3, <2>3, <2>4
  <2>7. f \in Shorter(n)
    BY <1>1, <1>4, <2>2, <2>5, <2>6, InfinityAssumption DEF Unreached
  <2>8. e.weight = c.weight
    BY <2>1, <2>2, <2>5, <2>6, <2>7
  <2>9. Closer[n] = distance[current] + e.weight
    BY <1>1, <1>7, <2>2, CostsAreNumbers DEF Closer, Plus
  <2> HIDE DEF e, c
  <2>10. EdgeCost(current, n) = c.weight
    BY DEF EdgeCost, c
  <2>11. Closer[n] \in Nat /\ Closer[n] # Infinity
    BY <1>1, <2>2, <2>9, InfinityAssumption
  <2>12. n # Root
    BY <1>1, <2>2, InfinityAssumption DEF Unreached
  <2>13. \A w \in Between(current, n) : Closer[n] <= distance[current] + w.weight
    BY <1>1, <1>3, <2>4, <2>6, <2>8, <2>9
  <2>14. QED
    BY <1>3, <1>7, <2>2, <2>3, <2>8, <2>9, <2>10, <2>11, <2>12, <2>13 DEF IsCloser
<1>8. CASE n \notin Improved
  <2>1. Closer[n] = distance[n]
    BY <1>8 DEF Closer
  <2>2. ASSUME NEW w \in Between(current, n)
        PROVE  ~ Unreached(n) /\ distance[n] <= distance[current] + w.weight
    <3>1. PICK e \in Edges : e.to = n /\ e.weight = w.weight /\ IsFinite(e.weight)
      BY <1>1, <2>2, EdgesAreWays
    <3>2. e \notin Shorter(n)
      BY <1>6, <1>8
    <3>3. CASE n \in pending
      BY <1>1, <1>2, <1>4, <3>1, <3>2, <3>3 DEF Unreached
    <3>4. CASE n \notin pending
      <4>1. ~ Unreached(n) /\ distance[n] <= distance[current] /\ w.weight \in Nat
        BY <1>1, <1>3, <3>4
      <4>2. QED
        BY <1>1, <4>1 DEF Unreached
    <3>5. QED
      BY <3>3, <3>4
  <2>3. QED
    BY <1>1, <1>3, <1>8, <2>1, <2>2 DEF IsCloser, Unreached
<1>9. QED
  BY <1>7, <1>8

LEMMA RelaxSearches ==
  ASSUME SearchInv, Relax
  PROVE  (phase' = "ValueError" /\ ~ NonNegative /\ graph' = graph) \/ (Searching /\ SearchInv)'
<1>1. /\ phase = "relax" /\ SearchTypeInv /\ TreeInv /\ RootedInv /\ OrderInv /\ ScannedInv
      /\ current \in Chosen /\ current \in NodeNames /\ target \in pending
  BY DEF Relax, SearchInv, SearchTypeInv, Chosen
<1>2. CASE \E e \in Edges : IsNegative(e.weight)
  <2>1. phase' = "ValueError" /\ graph' = graph
    BY <1>2 DEF Relax, Raise
  <2>2. PICK e \in Edges : IsNegative(e.weight)
    BY <1>2
  <2>3. e.weight \in Int /\ e.weight < 0 /\ IsFinite(e.weight)
    <3>1. e.weight \in Costs
      BY <1>1 DEF SearchTypeInv, IsGraph, Edges, NodeNames
    <3>2. QED
      BY <2>2, <3>1, CostsAreNumbers
  <2>4. PICK w \in Between(current, e.to) : w.weight = e.weight
    BY <1>1, <2>3, EdgesAreWays
  <2>5. w \in Ways /\ w.weight \in Int /\ w.weight < 0
    BY <2>2, <2>3, <2>4 DEF Between
  <2>6. ~ NonNegative
    BY <2>5 DEF NonNegative
  <2>7. QED
    BY <2>1, <2>6
<1>3. CASE \A e \in Edges : ~ IsNegative(e.weight)
  <2>1. /\ distance' = Closer /\ previous' = Behind /\ phase' = "pick"
        /\ UNCHANGED <<graph, target, pending, current, path>>
    BY <1>3 DEF Relax
  <2>2. /\ NodeNames' = NodeNames /\ IsGraph(graph)' = IsGraph(graph)
        /\ \A a, b : Between(a, b)' = Between(a, b) /\ EdgeCost(a, b)' = EdgeCost(a, b)
    BY <2>1, GraphStays
  <2>3. /\ Chosen' = Chosen /\ Scanned = Chosen \ {current} /\ Scanned' = Chosen
    BY <1>1, <2>1, <2>2 DEF Chosen, Scanned
  <2>4. /\ distance[current] \in Nat /\ \A s \in Chosen : distance[s] \in Nat /\ ~ Unreached(s)
        /\ \A s \in Chosen : distance[s] <= distance[current]
        /\ \A n \in NodeNames : distance[n] \in Nat \union {Infinity}
    BY <1>1 DEF SearchTypeInv, OrderInv, Unreached, Chosen
  <2>5. ASSUME NEW n \in NodeNames
        PROVE  /\ distance'[n] \in Nat \union {Infinity}
               /\ n \in Improved =>
                    /\ n \in pending /\ n # Root /\ Between(current, n) # {}
                    /\ distance'[n] \in Nat
                    /\ distance'[n] = distance[current] + EdgeCost(current, n)
                    /\ Unreached(n) \/ distance'[n] < distance[n]
               /\ n \notin Improved => distance'[n] = distance[n]
               /\ \A w \in Between(current, n) :
                    /\ w.weight \in Nat /\ distance'[n] # Infinity
                    /\ distance'[n] <= distance[current] + w.weight
    <3>1. IsCloser(distance'[n], n)
      BY <1>1, <1>3, <2>1, CloserMeaning
    <3>2. QED
      BY <3>1 DEF IsCloser
  <2>6. \A n \in NodeNames : Unreached(n)' <=> distance'[n] = Infinity
    BY DEF Unreached
  <2>7. \A s \in Chosen : s \in NodeNames /\ s \notin Improved /\ distance'[s] = distance[s]
                          /\ ~ Unreached(s)'
    BY <2>4, <2>5, <2>6 DEF Chosen, Unreached
  <2>8. /\ \A n \in Improved : n \in DOMAIN previous' /\ previous'[n] = current
        /\ \A n \in DOMAIN previous : n \notin Improved =>
             n \in DOMAIN previous' /\ previous'[n] = previous[n]
    BY <2>1 DEF Behind
  <2>9. SearchTypeInv'
    <3>1. distance' \in [NodeNames -> Nat \union {Infinity}]
      <4>1. distance' = [n \in NodeNames |-> distance'[n]]
        BY <2>1 DEF Closer
      <4>2. QED
        BY <2>5, <4>1
    <3>2. distance'[Root] = 0
      BY <1>1, <2>5 DEF SearchTypeInv
    <3>3. QED
      BY <1>1, <2>1, <2>2, <3>1, <3>2 DEF SearchTypeInv
  <2>10. TreeInv'
    <3>1. ASSUME NEW n \in NodeNames \ {Root}, ~ Unreached(n)'
          PROVE  /\ n \in DOMAIN previous' /\ previous'[n] \in Chosen
                 /\ Between(previous'[n], n) # {}
                 /\ distance'[n] = distance'[previous'[n]] + EdgeCost(previous'[n], n)
      <4>1. CASE n \in Improved
        BY <1>1, <2>5, <2>7, <2>8, <4>1
      <4>2. CASE n \notin Improved
        <5>1. ~ Unreached(n) /\ distance'[n] = distance[n]
          BY <2>5, <2>6, <3>1, <4>2 DEF Unreached
        <5>2. /\ n \in DOMAIN previous /\ previous[n] \in Scanned
              /\ Between(previous[n], n) # {}
              /\ distance[n] = distance[previous[n]] + EdgeCost(previous[n], n)
          BY <1>1, <5>1 DEF TreeInv
        <5>3. QED
          BY <2>3, <2>7, <2>8, <4>2, <5>1, <5>2
      <4>3. QED
        BY <4>1, <4>2
    <3>2. QED
      BY <2>2, <2>3, <3>1 DEF TreeInv
  <2>11. RootedInv'
    <3>1. \A m \in Chosen \ {Root} : previous'[m] = previous[m]
      BY <1>1, <2>4, <2>7, <2>8 DEF TreeInv, Chosen
    <3>2. QED
      BY <1>1, <2>1, <2>3, <3>1 DEF RootedInv
  <2>12. OrderInv'
    <3>1. ASSUME NEW s \in Chosen, NEW m \in pending, ~ Unreached(m)'
          PROVE  distance'[s] <= distance'[m]
      <4>1. m \in NodeNames
        BY <1>1 DEF SearchTypeInv
      <4>2. CASE m \in Improved
        <5>1. PICK w \in Between(current, m) : TRUE
          BY <2>5, <4>1, <4>2
        <5>2. \A v \in Between(current, m) : v.weight \in Nat
          BY <2>5, <4>1
        <5>3. EdgeCost(current, m) \in Nat
          BY <5>1, <5>2, LeastOfMeaning DEF EdgeCost
        <5>4. distance'[m] = distance[current] + EdgeCost(current, m)
          BY <2>5, <4>1, <4>2
        <5>5. QED
          BY <2>4, <2>7, <5>3, <5>4
      <4>3. CASE m \notin Improved
        <5>1. distance'[m] = distance[m] /\ ~ Unreached(m)
          BY <2>5, <2>6, <3>1, <4>1, <4>3 DEF Unreached
        <5>2. QED
          BY <1>1, <2>7, <5>1 DEF OrderInv
      <4>4. QED
        BY <4>2, <4>3
    <3>2. QED
      BY <2>1, <2>3, <2>7, <3>1 DEF OrderInv
  <2>13. ScannedInv'
    <3>1. ASSUME NEW s \in Chosen, NEW n \in NodeNames, NEW w \in Between(s, n)
          PROVE  w.weight \in Nat /\ ~ Unreached(n)' /\ distance'[n] <= distance'[s] + w.weight
      <4>1. CASE s = current
        BY <2>5, <2>6, <2>7, <4>1
      <4>2. CASE s # current
        <5>1. w.weight \in Nat /\ ~ Unreached(n) /\ distance[n] <= distance[s] + w.weight
          BY <1>1, <2>3, <3>1, <4>2 DEF ScannedInv
        <5>2. distance[n] \in Nat /\ distance'[n] \in Nat /\ distance'[n] <= distance[n]
          BY <2>4, <2>5, <5>1 DEF Unreached
        <5>3. ~ Unreached(n)'
          BY <2>6, <5>2, InfinityAssumption
        <5>4. QED
          BY <2>4, <2>7, <5>1, <5>2, <5>3
      <4>3. QED
        BY <4>1, <4>2
    <3>2. QED
      BY <2>2, <2>3, <3>1 DEF ScannedInv
  <2>14. QED
    BY <2>1, <2>9, <2>10, <2>11, <2>12, <2>13 DEF Searching, SearchInv, OverInv, PathInv
<1>4. QED
  BY <1>2, <1>3

-----------------------------------------------------------------------------
(* Costs                                                                   *)

\* The costs of the beginnings of a way, in the order of their lengths.
IsCost(f, r) ==
  /\ f[1] = 0
  /\ \A i \in 2 .. Len(r) : f[i] = f[i - 1] + EdgeCost(r[i - 1], r[i])
  /\ CostOf(r) = f[Len(r)]

LEMMA CostMeaning ==
  ASSUME NEW n \in Nat, n > 0, NEW r, Len(r) = n,
         \A i \in 2 .. n : EdgeCost(r[i - 1], r[i]) \in Nat
  PROVE  \E f : IsCost(f, r)
<1> DEFINE c == [i \in 1 .. n |-> IF i = 1 THEN 0 ELSE EdgeCost(r[i - 1], r[i])]
           g == CHOOSE g : g = [i \in 1 .. n |->
                  IF i = 1 THEN 0 ELSE g[i - 1] + EdgeCost(r[i - 1], r[i])]
<1>1. c \in [1 .. n -> Nat] /\ \A i \in 2 .. n : c[i] = EdgeCost(r[i - 1], r[i])
  <2>1. ASSUME NEW i \in 1 .. n PROVE (IF i = 1 THEN 0 ELSE EdgeCost(r[i - 1], r[i])) \in Nat
    OBVIOUS
  <2>2. c \in [1 .. n -> Nat]
    BY <2>1
  <2>3. QED
    BY <2>2
<1>2. PICK f \in [1 .. n -> Nat] : IsSum(f, n, c)
  <2> HIDE DEF c
  <2>1. QED
    BY <1>1, SumsExist
<1>3. f = [i \in 1 .. n |-> IF i = 1 THEN 0 ELSE f[i - 1] + EdgeCost(r[i - 1], r[i])]
  <2> HIDE DEF c
  <2>1. \A i \in 1 .. n : (IF i = 1 THEN 0 ELSE f[i - 1] + c[i])
                          = (IF i = 1 THEN 0 ELSE f[i - 1] + EdgeCost(r[i - 1], r[i]))
    BY <1>1
  <2>2. f = [i \in 1 .. n |-> IF i = 1 THEN 0 ELSE f[i - 1] + c[i]]
    BY <1>2 DEF IsSum
  <2>3. QED
    BY <2>1, <2>2
<1>4. g = [i \in 1 .. n |-> IF i = 1 THEN 0 ELSE g[i - 1] + EdgeCost(r[i - 1], r[i])]
  BY <1>3
<1>5. CostOf(r) = g[n]
  BY DEF CostOf
<1> HIDE DEF g, c
<1>6. g[1] = 0
  <2>1. 1 \in 1 .. n
    OBVIOUS
  <2>2. QED
    BY <1>4, <2>1
<1>7. ASSUME NEW i \in 2 .. n PROVE g[i] = g[i - 1] + EdgeCost(r[i - 1], r[i])
  <2>1. i \in 1 .. n /\ i # 1
    OBVIOUS
  <2>2. QED
    BY <1>4, <2>1
<1>8. QED
  BY <1>5, <1>6, <1>7 DEF IsCost

\* No way to the target is shorter than its distance: as long as a way costs
\* less than that, it has visited only scanned nodes, whose edges it follows.
LEMMA NoRouteIsCheaper ==
  ASSUME SearchInv, phase \in {"found", "rebuild", "returned"}, NonNegative, NEW r \in Routes
  PROVE  ~ Unreached(target) /\ distance[target] <= CostOf(r)
<1>1. PICK n \in 1 .. Cardinality(NodeNames) :
        /\ r \in [1 .. n -> NodeNames] /\ r[1] = Root
        /\ r[Len(r)] = target /\ \A i \in 2 .. Len(r) : Between(r[i - 1], r[i]) # {}
  BY DEF Routes, NodeNames
<1>2. n \in Nat /\ n > 0 /\ n \in 1 .. n
  <2>1. Cardinality(NodeNames) \in Nat
    BY FS_CardinalityType DEF SearchInv, SearchTypeInv, IsGraph, NodeNames
  <2>2. QED
    BY <2>1
<1>3. Len(r) = n
  BY <1>1, <1>2
<1>4. /\ SearchTypeInv /\ ScannedInv /\ OverInv
      /\ distance \in [NodeNames -> Nat \union {Infinity}] /\ distance[Root] = 0
      /\ target \in NodeNames
  BY DEF SearchInv, SearchTypeInv
<1>5. ASSUME NEW i \in 2 .. n
      PROVE  /\ EdgeCost(r[i - 1], r[i]) \in Nat
             /\ \E w \in Between(r[i - 1], r[i]) : w.weight = EdgeCost(r[i - 1], r[i])
  <2>1. Between(r[i - 1], r[i]) # {} /\ r[i - 1] \in NodeNames
    BY <1>1, <1>2, <1>3
  <2>2. \A w \in Between(r[i - 1], r[i]) : w.weight \in Nat
    <3>1. \A w \in Between(r[i - 1], r[i]) : w.weight \in Int
      <4>1. ASSUME NEW w \in Between(r[i - 1], r[i])
            PROVE  IsFinite(w.weight) /\ w.weight \in Costs
        BY <1>4, <2>1, WaysOutOf DEF SearchTypeInv, IsGraph, NodeNames
      <4>2. QED
        BY <4>1, CostsAreNumbers
    <3>2. QED
      BY <3>1 DEF NonNegative, Between
  <2>3. LeastOf(Between(r[i - 1], r[i])) \in Between(r[i - 1], r[i])
    BY <2>1, <2>2, LeastOfMeaning
  <2>4. QED
    BY <2>2, <2>3 DEF EdgeCost
<1>6. PICK f : /\ f[1] = 0
               /\ \A i \in 2 .. n : f[i] = f[i - 1] + EdgeCost(r[i - 1], r[i])
               /\ CostOf(r) = f[n]
  <2>1. \A i \in 2 .. n : EdgeCost(r[i - 1], r[i]) \in Nat
    BY <1>5
  <2>2. \E f : IsCost(f, r)
    BY <1>2, <1>3, <2>1, CostMeaning
  <2>3. QED
    BY <1>3, <2>2 DEF IsCost
<1> DEFINE AtMost(m, k) == ~ Unreached(m) /\ distance[m] <= f[k]
           S == {k \in 1 .. n : f[k] \in Nat /\ (AtMost(r[k], k) \/ AtMost(target, k))}
<1>7. 1 \in S
  BY <1>1, <1>2, <1>4, <1>6, InfinityAssumption DEF Unreached
<1>8. ASSUME NEW i \in 2 .. n, i - 1 \in S PROVE i \in S
  <2>1. /\ i - 1 \in 1 .. n /\ i \in 1 .. n /\ f[i - 1] \in Nat
        /\ r[i - 1] \in NodeNames /\ r[i] \in NodeNames
    BY <1>1, <1>8
  <2>2. f[i] = f[i - 1] + EdgeCost(r[i - 1], r[i]) /\ f[i] \in Nat /\ f[i - 1] <= f[i]
    BY <1>5, <1>6, <2>1
  <2>3. CASE AtMost(target, i - 1)
    <3>1. distance[target] \in Nat
      BY <1>4, <2>3 DEF Unreached
    <3>2. QED
      BY <2>1, <2>2, <2>3, <3>1
  <2>4. CASE ~ AtMost(target, i - 1)
    <3>1. ~ Unreached(r[i - 1]) /\ distance[r[i - 1]] <= f[i - 1]
      BY <1>8, <2>4
    <3>2. distance[r[i - 1]] \in Nat
      BY <1>4, <2>1, <3>1 DEF Unreached
    <3>3. Unreached(target) \/ distance[r[i - 1]] < distance[target]
      BY <1>4, <2>1, <2>4, <3>1, <3>2 DEF Unreached
    <3>4. r[i - 1] \in Scanned
      BY <1>4, <2>1, <3>1, <3>3 DEF OverInv
    <3>5. PICK w \in Between(r[i - 1], r[i]) : w.weight = EdgeCost(r[i - 1], r[i])
      BY <1>5
    <3>6. ~ Unreached(r[i]) /\ distance[r[i]] <= distance[r[i - 1]] + w.weight
      BY <1>4, <2>1, <3>4 DEF ScannedInv
    <3>7. distance[r[i]] \in Nat
      BY <1>4, <2>1, <3>6 DEF Unreached
    <3>8. EdgeCost(r[i - 1], r[i]) \in Nat
      BY <1>5
    <3>9. distance[r[i]] <= f[i]
      BY <2>1, <2>2, <3>1, <3>2, <3>5, <3>6, <3>7, <3>8
    <3>10. QED
      BY <2>1, <2>2, <3>6, <3>9
  <2>5. QED
    BY <2>3, <2>4
<1>9. n \in S
  <2> HIDE DEF S
  <2>1. \A k \in 1 .. n : k \in S
    BY <1>2, <1>7, <1>8, Climbing
  <2>2. QED
    BY <1>2, <2>1
<1>10. QED
  BY <1>1, <1>3, <1>6, <1>9

LEMMA FoundSearches ==
  ASSUME SearchInv, Found
  PROVE  \/ /\ phase' = "ValueError" /\ graph' = graph /\ target' = target
            /\ NonNegative => Routes = {}
         \/ (Searching /\ SearchInv)'
<1>1. phase = "found" /\ SearchTypeInv
  BY DEF Found, SearchInv
<1>2. CASE Unreached(target)
  BY <1>1, <1>2, NoRouteIsCheaper DEF Found, Raise
<1>3. CASE ~ Unreached(target)
  <2>1. /\ path' = <<target>> /\ phase' = "rebuild"
        /\ UNCHANGED <<graph, target, distance, previous, pending, current>>
    BY <1>3 DEF Found
  <2>2. /\ NodeNames' = NodeNames /\ IsGraph(graph)' = IsGraph(graph)
        /\ \A a, b : Between(a, b)' = Between(a, b) /\ EdgeCost(a, b)' = EdgeCost(a, b)
        /\ \A m : Unreached(m)' = Unreached(m)
    BY <2>1, GraphStays DEF Unreached
  <2>3. Chosen' = Chosen /\ Scanned' = Scanned
    BY <1>1, <2>1, <2>2 DEF Chosen, Scanned
  <2>4. SearchTypeInv' /\ TreeInv' /\ RootedInv' /\ OrderInv' /\ ScannedInv' /\ OverInv'
    BY <1>1, <2>1, <2>2, <2>3
       DEF SearchInv, SearchTypeInv, TreeInv, RootedInv, OrderInv, ScannedInv, OverInv
  <2>5. PathInv'
    <3>1. target \in NodeNames
      BY <1>1 DEF SearchTypeInv
    <3>2. path' \in Seq(NodeNames) /\ Len(path') = 1 /\ path'[1] = target
      BY <2>1, <3>1
    <3>3. QED
      BY <1>3, <2>1, <2>2, <3>2 DEF PathInv
  <2>6. QED
    BY <2>1, <2>4, <2>5 DEF Searching, SearchInv
<1>4. QED
  BY <1>2, <1>3

LEMMA RebuildSearches ==
  ASSUME SearchInv, Rebuild
  PROVE  (Searching /\ SearchInv)'
<1>1. /\ phase = "rebuild" /\ phase' \in {"rebuild", "returned"} /\ SearchTypeInv /\ TreeInv
      /\ UNCHANGED <<graph, target, distance, previous, pending, current>>
      /\ path \in Seq(NodeNames) /\ path # <<>> /\ path[Len(path)] = target
      /\ \A i \in 1 .. Len(path) : ~ Unreached(path[i])
      /\ \A i \in 2 .. Len(path) : path[i] # Root /\ path[i - 1] = previous[path[i]]
  BY DEF Rebuild, SearchInv, PathInv
<1>2. /\ NodeNames' = NodeNames /\ IsGraph(graph)' = IsGraph(graph)
      /\ \A a, b : Between(a, b)' = Between(a, b) /\ EdgeCost(a, b)' = EdgeCost(a, b)
      /\ \A m : Unreached(m)' = Unreached(m)
  BY <1>1, GraphStays DEF Unreached
<1>3. Chosen' = Chosen /\ Scanned' = Scanned
  BY <1>1, <1>2 DEF Chosen, Scanned
<1>4. SearchTypeInv' /\ TreeInv' /\ RootedInv' /\ OrderInv' /\ ScannedInv' /\ OverInv'
  BY <1>1, <1>2, <1>3
     DEF SearchInv, SearchTypeInv, TreeInv, RootedInv, OrderInv, ScannedInv, OverInv
<1>5. Head(path) = path[1] /\ Len(path) \in Nat /\ Len(path) > 0 /\ path[1] \in NodeNames
  BY <1>1
<1>6. PathInv'
  <2>1. CASE path[1] = Root
    BY <1>1, <1>2, <1>5, <2>1 DEF Rebuild, PathInv
  <2>2. CASE path[1] # Root
    <3> DEFINE p == previous[path[1]]
    <3>1. path' = <<p>> \o path /\ phase' = "rebuild"
      BY <1>1, <1>5, <2>2 DEF Rebuild
    <3>2. p \in NodeNames /\ ~ Unreached(p)
      <4>1. ~ Unreached(path[1])
        BY <1>1, <1>5
      <4>2. p \in Scanned
        BY <1>1, <1>5, <2>2, <4>1 DEF TreeInv
      <4>3. QED
        BY <4>2 DEF Scanned, Chosen, SearchInv, OrderInv
    <3> HIDE DEF p
    <3>3. /\ path' \in Seq(NodeNames) /\ Len(path') = Len(path) + 1 /\ path'[1] = p
          /\ \A i \in 2 .. Len(path') : path'[i] = path[i - 1]
      BY <1>1, <3>1, <3>2
    <3>4. path'[Len(path')] = target' /\ path' # <<>>
      BY <1>1, <1>5, <3>3
    <3>5. \A i \in 1 .. Len(path') : ~ Unreached(path'[i])
      BY <1>1, <1>5, <3>2, <3>3
    <3>6. ASSUME NEW i \in 2 .. Len(path')
          PROVE  path'[i] # Root /\ path'[i - 1] = previous[path'[i]]
      <4>1. CASE i = 2
        BY <1>5, <2>2, <3>3, <4>1 DEF p
      <4>2. CASE i # 2
        <5>1. i - 1 \in 2 .. Len(path) /\ i - 1 \in 2 .. Len(path') /\ (i - 1) - 1 = i - 2
          BY <1>5, <3>3, <4>2
        <5>2. path'[i] = path[i - 1] /\ path'[i - 1] = path[(i - 1) - 1]
          BY <3>3, <5>1
        <5>3. QED
          BY <1>1, <5>1, <5>2
      <4>3. QED
        BY <4>1, <4>2
    <3>7. QED
      BY <1>1, <1>2, <3>1, <3>3, <3>4, <3>5, <3>6 DEF PathInv
  <2>3. QED
    BY <2>1, <2>2
<1>7. QED
  BY <1>1, <1>4, <1>6 DEF Searching, SearchInv

\* The path is a way from the start to the target, no node of it twice: the nodes
\* between two visits would each be reached from another of them.
LEMMA PathIsRoute ==
  ASSUME SearchInv, phase = "returned"
  PROVE  path \in Routes
<1>1. /\ SearchTypeInv /\ TreeInv /\ RootedInv
      /\ path \in Seq(NodeNames) /\ path # <<>> /\ path[Len(path)] = target /\ path[1] = Root
      /\ \A i \in 1 .. Len(path) : ~ Unreached(path[i])
      /\ \A i \in 2 .. Len(path) : path[i] # Root /\ path[i - 1] = previous[path[i]]
  BY DEF SearchInv, PathInv
<1>2. /\ Len(path) \in Nat /\ Len(path) > 0 /\ path \in [1 .. Len(path) -> NodeNames]
  BY <1>1
<1>3. ASSUME NEW i \in 2 .. Len(path)
      PROVE  path[i - 1] \in Chosen /\ Between(path[i - 1], path[i]) # {}
  <2>1. path[i] \in NodeNames \ {Root} /\ ~ Unreached(path[i])
    BY <1>1, <1>2
  <2>2. previous[path[i]] \in Scanned /\ Between(previous[path[i]], path[i]) # {}
    BY <1>1, <2>1 DEF TreeInv
  <2>3. QED
    BY <1>1, <2>2 DEF Scanned
<1>4. ASSUME NEW i \in 1 .. Len(path), NEW j \in 1 .. Len(path), i < j, path[i] = path[j]
      PROVE  FALSE
  <2> DEFINE X == {path[k] : k \in i .. j - 1}
  <2>1. ASSUME NEW k \in i .. j - 1
        PROVE  path[k] \in Chosen \ {Root} /\ previous[path[k]] \in X
    <3>1. k \in 1 .. Len(path) /\ k + 1 \in 2 .. Len(path) /\ (k + 1) - 1 = k
      BY <1>4
    <3>2. path[k] \in Chosen
      BY <1>3, <3>1
    <3>3. CASE k = i
      <4>1. j \in 2 .. Len(path) /\ j - 1 \in i .. j - 1
        BY <1>4
      <4>2. path[k] = path[j] /\ path[j] # Root /\ previous[path[j]] = path[j - 1]
        BY <1>1, <1>4, <3>3, <4>1
      <4>3. path[j - 1] \in X
        BY <4>1
      <4>4. QED
        BY <3>2, <4>2, <4>3
    <3>4. CASE k # i
      <4>1. k \in 2 .. Len(path) /\ k - 1 \in i .. j - 1
        BY <1>4, <3>1, <3>4
      <4>2. path[k] # Root /\ previous[path[k]] = path[k - 1]
        BY <1>1, <4>1
      <4>3. path[k - 1] \in X
        BY <4>1
      <4>4. QED
        BY <3>2, <4>2, <4>3
    <3>5. QED
      BY <3>3, <3>4
  <2>2. i \in i .. j - 1
    BY <1>4
  <2>3. X \in SUBSET (Chosen \ {Root}) /\ X # {}
    BY <2>1, <2>2
  <2>4. \A m \in X : previous[m] \in X
    BY <2>1
  <2>5. QED
    <3> HIDE DEF X
    <3>1. QED
      BY <1>1, <2>3, <2>4 DEF RootedInv
<1>5. Len(path) <= Cardinality(NodeNames) /\ Cardinality(NodeNames) \in Nat
  <2>1. IsFiniteSet(NodeNames)
    BY <1>1 DEF SearchTypeInv, IsGraph, NodeNames
  <2>2. IsFiniteSet(1 .. Len(path)) /\ Cardinality(1 .. Len(path)) = Len(path)
    BY <1>2, FS_Interval
  <2>3. Cardinality(NodeNames) \in Nat
    BY <2>1, FS_CardinalityType
  <2>4. CASE Cardinality(NodeNames) < Len(path)
    <3>1. PICK i, j \in 1 .. Len(path) : i # j /\ path[i] = path[j]
      BY <1>2, <2>1, <2>2, <2>4, FS_PigeonHole
    <3>2. QED
      BY <1>4, <3>1
  <2>5. QED
    BY <1>2, <2>3, <2>4
<1>6. path \in UNION {[1 .. k -> DOMAIN graph] : k \in 1 .. Cardinality(DOMAIN graph)}
  <2>1. Len(path) \in 1 .. Cardinality(NodeNames)
    BY <1>2, <1>5
  <2>2. QED
    BY <1>2, <2>1 DEF NodeNames
<1>7. QED
  BY <1>1, <1>3, <1>6 DEF Routes

\* Its cost is the distance of the target, node by node.
LEMMA PathCostsItsDistance ==
  ASSUME SearchInv, phase = "returned"
  PROVE  CostOf(path) = distance[target]
<1>1. /\ SearchTypeInv /\ TreeInv /\ ScannedInv
      /\ path \in Seq(NodeNames) /\ path # <<>> /\ path[Len(path)] = target /\ path[1] = Root
      /\ \A i \in 1 .. Len(path) : ~ Unreached(path[i])
      /\ \A i \in 2 .. Len(path) : path[i] # Root /\ path[i - 1] = previous[path[i]]
  BY DEF SearchInv, PathInv
<1>2. Len(path) \in Nat /\ Len(path) > 0 /\ path \in [1 .. Len(path) -> NodeNames]
  BY <1>1
<1>3. ASSUME NEW i \in 2 .. Len(path)
      PROVE  /\ EdgeCost(path[i - 1], path[i]) \in Nat
             /\ distance[path[i]] = distance[path[i - 1]] + EdgeCost(path[i - 1], path[i])
  <2>1. path[i] \in NodeNames \ {Root} /\ ~ Unreached(path[i]) /\ path[i - 1] = previous[path[i]]
    BY <1>1, <1>2
  <2>2. /\ path[i - 1] \in Scanned /\ Between(path[i - 1], path[i]) # {}
        /\ distance[path[i]] = distance[path[i - 1]] + EdgeCost(path[i - 1], path[i])
    BY <1>1, <2>1 DEF TreeInv
  <2>3. \A w \in Between(path[i - 1], path[i]) : w.weight \in Nat
    BY <1>1, <2>1, <2>2 DEF ScannedInv
  <2>4. QED
    BY <2>2, <2>3, LeastOfMeaning DEF EdgeCost
<1>4. PICK f : /\ f[1] = 0 /\ CostOf(path) = f[Len(path)]
               /\ \A i \in 2 .. Len(path) : f[i] = f[i - 1] + EdgeCost(path[i - 1], path[i])
  <2>1. \A i \in 2 .. Len(path) : EdgeCost(path[i - 1], path[i]) \in Nat
    BY <1>3
  <2>2. \E f : IsCost(f, path)
    BY <1>2, <2>1, CostMeaning
  <2>3. QED
    BY <2>2 DEF IsCost
<1> DEFINE S == {k \in 1 .. Len(path) : f[k] = distance[path[k]]}
<1>5. 1 \in S
  BY <1>1, <1>2, <1>4 DEF SearchTypeInv
<1>6. ASSUME NEW i \in 2 .. Len(path), i - 1 \in S PROVE i \in S
  BY <1>3, <1>4, <1>6
<1>7. Len(path) \in S
  <2> HIDE DEF S
  <2>1. \A k \in 1 .. Len(path) : k \in S
    BY <1>2, <1>5, <1>6, Climbing
  <2>2. QED
    BY <1>2, <2>1
<1>8. QED
  BY <1>1, <1>4, <1>7

-----------------------------------------------------------------------------
(* The call                                                                *)

RouteInv ==
  /\ phase = "called" => IsGraph(graph)
  /\ Searching => SearchInv
  /\ phase = "ValueError" /\ NonNegative => Routes = {}

LEMMA RouteStep ==
  ASSUME RouteInv, RouteNext
  PROVE  RouteInv'
<1>1. CASE Begin
  <2>1. IsGraph(graph)
    BY <1>1 DEF Begin, RouteInv
  <2>2. QED
    BY <1>1, <2>1, BeginSearches DEF RouteInv, Searching
<1>2. CASE Pick
  <2>1. SearchInv
    BY <1>2 DEF Pick, RouteInv, Searching
  <2>2. QED
    BY <1>2, <2>1, PickSearches DEF RouteInv, Searching
<1>3. CASE NoneLeft
  <2>1. SearchInv
    BY <1>3 DEF NoneLeft, RouteInv, Searching
  <2>2. QED
    BY <1>3, <2>1, NoneLeftSearches DEF RouteInv, Searching
<1>4. CASE Relax
  <2>1. SearchInv
    BY <1>4 DEF Relax, RouteInv, Searching
  <2>2. CASE phase' = "ValueError" /\ ~ NonNegative /\ graph' = graph
    BY <2>2, GraphStays DEF RouteInv, Searching
  <2>3. CASE (Searching /\ SearchInv)'
    BY <2>3 DEF RouteInv, Searching
  <2>4. QED
    BY <1>4, <2>1, <2>2, <2>3, RelaxSearches
<1>5. CASE Found
  <2>1. SearchInv
    BY <1>5 DEF Found, RouteInv, Searching
  <2>2. CASE /\ phase' = "ValueError" /\ graph' = graph /\ target' = target
             /\ NonNegative => Routes = {}
    BY <2>2, GraphStays DEF RouteInv, Searching
  <2>3. CASE (Searching /\ SearchInv)'
    BY <2>3 DEF RouteInv, Searching
  <2>4. QED
    BY <1>5, <2>1, <2>2, <2>3, FoundSearches
<1>6. CASE Rebuild
  <2>1. SearchInv
    BY <1>6 DEF Rebuild, RouteInv, Searching
  <2>2. QED
    BY <1>6, <2>1, RebuildSearches DEF RouteInv, Searching
<1>7. QED
  BY <1>1, <1>2, <1>3, <1>4, <1>5, <1>6 DEF RouteNext

LEMMA RouteVarsStay ==
  ASSUME RouteInv, UNCHANGED routeVars
  PROVE  RouteInv'
<1>1. UNCHANGED <<graph, target, distance, previous, pending, current, path, phase>>
  BY DEF routeVars
<1>2. /\ NodeNames' = NodeNames /\ (IsGraph(graph)' <=> IsGraph(graph))
      /\ (NonNegative' <=> NonNegative) /\ Routes' = Routes
      /\ \A a, b : Between(a, b)' = Between(a, b) /\ EdgeCost(a, b)' = EdgeCost(a, b)
      /\ \A m : Unreached(m)' = Unreached(m)
  BY <1>1, GraphStays DEF Unreached
<1>3. Chosen' = Chosen /\ Scanned' = Scanned /\ Searching' = Searching
  BY <1>1, <1>2 DEF Chosen, Scanned, Searching
<1>4. SearchInv => SearchInv'
  BY <1>1, <1>2, <1>3
     DEF SearchInv, SearchTypeInv, TreeInv, RootedInv, OrderInv, ScannedInv, OverInv, PathInv
<1>5. QED
  BY <1>1, <1>2, <1>3, <1>4 DEF RouteInv

LEMMA RouteInvImplies == RouteInv => RouteIsLeast
<1> SUFFICES ASSUME RouteInv, NonNegative
             PROVE  /\ phase = "returned" =>
                         /\ path \in Routes /\ CostOf(path) = distance[target]
                         /\ \A r \in Routes : CostOf(path) <= CostOf(r)
                    /\ phase = "ValueError" => Routes = {}
  BY DEF RouteIsLeast
<1>1. CASE phase = "returned"
  <2>1. SearchInv
    BY <1>1 DEF RouteInv, Searching
  <2>2. QED
    BY <1>1, <2>1, PathIsRoute, PathCostsItsDistance, NoRouteIsCheaper
<1>2. QED
  BY <1>1 DEF RouteInv

\* A call of shortest_path by anyone, with any graph.
RouteSpec == phase = "called" /\ IsGraph(graph) /\ [][RouteNext]_routeVars

LEMMA RouteInvariant == RouteSpec => []RouteInv
<1>1. phase = "called" /\ IsGraph(graph) => RouteInv
  BY DEF RouteInv, Searching
<1>2. RouteInv /\ [RouteNext]_routeVars => RouteInv'
  <2> SUFFICES ASSUME RouteInv, [RouteNext]_routeVars PROVE RouteInv'
    OBVIOUS
  <2>1. CASE RouteNext
    BY <2>1, RouteStep
  <2>2. CASE UNCHANGED routeVars
    BY <2>2, RouteVarsStay
  <2>3. QED
    BY <2>1, <2>2
<1>3. QED
  BY <1>1, <1>2, PTL DEF RouteSpec

\* RouteIsLeast for every graph: the route shortest_path returns costs the least,
\* and it raises ValueError, where no cost is negative, only if there is none.
THEOREM ShortestPathIsShortest == RouteSpec => []RouteIsLeast
<1>1. RouteInv => RouteIsLeast
  BY RouteInvImplies
<1>2. QED
  BY <1>1, RouteInvariant, PTL

-----------------------------------------------------------------------------
(* The queues between the client and the server                            *)

Answers == [module : Requested, ok : BOOLEAN, route : Seq(DOMAIN manifest \union {Root})]

\* The modules of the answers printed, in their order.
Printed(out) == [i \in DOMAIN out |-> out[i].module]

LEMMA PrintedIsSequence ==
  ASSUME NEW out \in Seq(Answers)
  PROVE  Printed(out) \in Seq(Requested) /\ Len(Printed(out)) = Len(out)
<1>1. out \in [1 .. Len(out) -> Answers] /\ Len(out) \in Nat
  OBVIOUS
<1>2. \A i \in 1 .. Len(out) : out[i].module \in Requested
  BY <1>1 DEF Answers
<1>3. Printed(out) \in [1 .. Len(out) -> Requested]
  BY <1>1, <1>2 DEF Printed
<1>4. QED
  BY <1>1, <1>3

LEMMA PrintedGrows ==
  ASSUME NEW out \in Seq(Answers), NEW a \in Answers
  PROVE  Printed(Append(out, a)) = Append(Printed(out), a.module)
<1>1. /\ Printed(out) \in Seq(Requested) /\ Len(Printed(out)) = Len(out) /\ Len(out) \in Nat
      /\ a.module \in Requested
  <2>1. a.module \in Requested
    BY DEF Answers
  <2>2. QED
    BY <2>1, PrintedIsSequence
<1>2. /\ Append(out, a) \in Seq(Answers) /\ Len(Append(out, a)) = Len(out) + 1
      /\ DOMAIN Append(out, a) = 1 .. Len(out) + 1
      /\ \A i \in 1 .. Len(out) : Append(out, a)[i] = out[i]
      /\ Append(out, a)[Len(out) + 1] = a
  OBVIOUS
<1>3. /\ Append(Printed(out), a.module) \in Seq(Requested)
      /\ Len(Append(Printed(out), a.module)) = Len(out) + 1
      /\ \A i \in 1 .. Len(out) : Append(Printed(out), a.module)[i] = Printed(out)[i]
      /\ Append(Printed(out), a.module)[Len(out) + 1] = a.module
  BY <1>1
<1>4. Printed(Append(out, a)) \in Seq(Requested) /\ Len(Printed(Append(out, a))) = Len(out) + 1
  BY <1>2, PrintedIsSequence
<1>5. ASSUME NEW i \in 1 .. Len(out) + 1
      PROVE  Printed(Append(out, a))[i] = Append(Printed(out), a.module)[i]
  <2>1. Printed(Append(out, a))[i] = Append(out, a)[i].module
    BY <1>2 DEF Printed
  <2>2. CASE i = Len(out) + 1
    BY <1>2, <1>3, <2>1, <2>2
  <2>3. CASE i # Len(out) + 1
    <3>1. i \in 1 .. Len(out) /\ i \in DOMAIN out
      BY <1>1, <2>3
    <3>2. Printed(out)[i] = out[i].module
      BY <3>1 DEF Printed
    <3>3. QED
      BY <1>2, <1>3, <2>1, <3>1, <3>2
  <2>4. QED
    BY <2>2, <2>3
<1>6. QED
  BY <1>3, <1>4, <1>5, SeqEqual

LEMMA PrintedShrinks ==
  ASSUME NEW out \in Seq(Answers), out # <<>>
  PROVE  Printed(Tail(out)) = Tail(Printed(out))
<1>1. /\ Printed(out) \in Seq(Requested) /\ Len(Printed(out)) = Len(out)
      /\ Len(out) \in Nat /\ Len(out) > 0
  BY PrintedIsSequence
<1>2. /\ Tail(out) \in Seq(Answers) /\ Len(Tail(out)) = Len(out) - 1
      /\ \A i \in 1 .. Len(out) - 1 : Tail(out)[i] = out[i + 1]
  BY <1>1
<1>3. /\ Tail(Printed(out)) \in Seq(Requested) /\ Len(Tail(Printed(out))) = Len(out) - 1
      /\ \A i \in 1 .. Len(out) - 1 : Tail(Printed(out))[i] = Printed(out)[i + 1]
  BY <1>1
<1>4. Printed(Tail(out)) \in Seq(Requested) /\ Len(Printed(Tail(out))) = Len(out) - 1
  BY <1>2, PrintedIsSequence
<1>5. ASSUME NEW i \in 1 .. Len(out) - 1 PROVE Printed(Tail(out))[i] = Tail(Printed(out))[i]
  <2>1. i \in DOMAIN Tail(out) /\ i + 1 \in DOMAIN out
    BY <1>1, <1>2
  <2>2. Printed(Tail(out))[i] = Tail(out)[i].module /\ Printed(out)[i + 1] = out[i + 1].module
    BY <2>1 DEF Printed
  <2>3. QED
    BY <1>2, <1>3, <2>2
<1>6. QED
  BY <1>3, <1>4, <1>5, SeqEqual

LEMMA QueueFacts ==
  ASSUME NEW S, NEW s \in Seq(S), NEW t \in Seq(S), NEW e \in S
  PROVE  /\ Append(s \o t, e) = s \o Append(t, e)
         /\ Append(s, e) \o t = s \o (<<e>> \o t)
         /\ s # <<>> => Tail(s \o t) = Tail(s) \o t
         /\ t # <<>> => <<Head(t)>> \o Tail(t) = t
<1> <<e>> \in Seq(S)
  OBVIOUS
<1>1. Append(s \o t, e) = s \o Append(t, e)
  <2>1. s \o t \in Seq(S)
    OBVIOUS
  <2>2. Append(s \o t, e) = (s \o t) \o <<e>> /\ Append(t, e) = t \o <<e>>
    BY <2>1, AppendIsConcat
  <2>3. (s \o t) \o <<e>> = s \o (t \o <<e>>)
    BY ConcatAssociative
  <2>4. QED
    BY <2>2, <2>3
<1>2. Append(s, e) \o t = s \o (<<e>> \o t)
  <2>1. Append(s, e) = s \o <<e>>
    BY AppendIsConcat
  <2>2. (s \o <<e>>) \o t = s \o (<<e>> \o t)
    BY ConcatAssociative
  <2>3. QED
    BY <2>1, <2>2
<1>3. s # <<>> => Tail(s \o t) = Tail(s) \o t
  BY SeqEqual
<1>4. t # <<>> => <<Head(t)>> \o Tail(t) = t
  BY SeqEqual
<1>5. QED
  BY <1>1, <1>2, <1>3, <1>4

-----------------------------------------------------------------------------
(* The graph of a manifest                                                 *)

LEMMA SetToSeqMeaning ==
  ASSUME NEW S, IsFiniteSet(S)
  PROVE  SetToSeq(S) \in [1 .. Cardinality(S) -> S]
<1>1. PICK f : f \in Bijection(1 .. Cardinality(S), S)
  BY FS_CardinalityType DEF ExistsBijection
<1>2. f \in [1 .. Cardinality(S) -> S] /\ IsInjective(f)
  BY <1>1 DEF Bijection, Injection, IsInjective
<1>3. QED
  BY <1>2 DEF SetToSeq

\* The edges of the graph of a manifest are its dependencies, and lead to modules
\* without any from the start.
LEMMA GraphOfMeaning ==
  ASSUME manifest \in Manifests
  PROVE  /\ IsGraph(GraphOf) /\ DOMAIN GraphOf = DOMAIN manifest \union {Root}
         /\ \A n \in DOMAIN GraphOf : \A i \in DOMAIN GraphOf[n] :
              n \in DepsOf(GraphOf[n][i].to) \/ (n = Root /\ DepsOf(GraphOf[n][i].to) = {})
<1>1. IsFiniteSet(DOMAIN manifest) /\ \A m \in DOMAIN manifest : manifest[m].cost \in Costs
  BY ManifestAssumption
<1>2. DOMAIN GraphOf = DOMAIN manifest \union {Root}
  BY DEF GraphOf
<1>3. IsFiniteSet(DOMAIN manifest \union {Root})
  BY <1>1, FS_AddElement
<1>4. ASSUME NEW n \in DOMAIN GraphOf, NEW i \in DOMAIN GraphOf[n]
      PROVE  /\ GraphOf[n][i].weight \in Costs
             /\ n \in DepsOf(GraphOf[n][i].to) \/ (n = Root /\ DepsOf(GraphOf[n][i].to) = {})
  <2> DEFINE after == {m \in DOMAIN manifest : n \in DepsOf(m) \/ (n = Root /\ FromStart(m))}
             S     == {EdgeTo(m) : m \in after}
  <2>1. IsFiniteSet(S)
    <3>1. IsFiniteSet(after)
      BY <1>1, FS_Subset
    <3> DEFINE f == [m \in after |-> EdgeTo(m)]
    <3>2. f \in Surjection(after, S)
      BY DEF Surjection
    <3> HIDE DEF after, f, S
    <3>3. QED
      BY <3>1, <3>2, FS_Surjection
  <2>2. GraphOf[n] = SetToSeq(S)
    BY <1>2, <1>4 DEF GraphOf
  <2>3. SetToSeq(S) \in [1 .. Cardinality(S) -> S]
    <3> HIDE DEF S
    <3>1. QED
      BY <2>1, SetToSeqMeaning
  <2>4. GraphOf[n][i] \in S
    <3> HIDE DEF S
    <3>1. QED
      BY <1>4, <2>2, <2>3
  <2>5. PICK m \in after : GraphOf[n][i] = EdgeTo(m)
    BY <2>4
  <2>6. GraphOf[n][i].to = m /\ GraphOf[n][i].weight = manifest[m].cost
    BY <2>5 DEF EdgeTo
  <2>7. QED
    BY <1>1, <2>5, <2>6 DEF FromStart
<1>5. QED
  BY <1>2, <1>3, <1>4 DEF IsGraph

-----------------------------------------------------------------------------
(* The demo                                                                *)

Names == DOMAIN manifest \union {Root}

DemoTypeInv ==
  /\ manifest \in Manifests
  /\ waiting \in Seq(Requested) /\ stdin \in Seq(Requested) /\ stdout \in Seq(Answers)
  /\ serving \in Requested \union {Nobody}
  /\ toLoad \in Seq(Names) /\ came \in Seq(Names)

QueueInv == waiting = Printed(stdout) \o Unanswered

\* Between two requests the server holds nothing of either; while shortest_path
\* runs, it runs on the graph of the manifest, for the module asked for.
ServingInv ==
  /\ serving = Nobody => phase = "idle"
  /\ phase # "idle" \/ serving = Nobody => toLoad = <<>> /\ came = <<>>
  /\ phase \notin {"idle", "LoaderError"} => graph = GraphOf /\ target = serving

\* The route leads from a module without dependencies, or with one on a module named
\* like the start, to the one asked for, each module depending on the one before it,
\* and what of it is not yet to load is cached.
CameInv ==
  /\ serving # Nobody /\ phase = "idle" => (came = <<>> <=> serving = Root)
  /\ came # <<>> =>
       came[Len(came)] = serving /\ (DepsOf(came[1]) = {} \/ Root \in DepsOf(came[1]))
  /\ \A i \in 2 .. Len(came) : came[i - 1] \in DepsOf(came[i])
  /\ Len(toLoad) <= Len(came)
  /\ \A i \in 1 .. Len(toLoad) : toLoad[i] = came[Len(came) - Len(toLoad) + i]
  /\ \A i \in 1 .. Len(came) - Len(toLoad) : came[i] \in handles

AnswersInv ==
  \A i \in DOMAIN stdout : stdout[i].ok => IsGranted(stdout[i])

GroundedInv == \A m \in handles : Grounded(m)

DemoInv ==
  DemoTypeInv /\ QueueInv /\ ServingInv /\ CameInv /\ AnswersInv /\ GroundedInv /\ RouteInv

demoVars == <<loaderVars, routeVars>>

DemoSpec == LoaderInit /\ [][LoaderNext]_demoVars

LEMMA DemoStarts == LoaderInit => DemoInv
<1> SUFFICES ASSUME LoaderInit PROVE DemoInv
  OBVIOUS
<1>1. /\ manifest \in Manifests /\ waiting = <<>> /\ stdin = <<>> /\ stdout = <<>>
      /\ serving = Nobody /\ toLoad = <<>> /\ came = <<>> /\ handles = {} /\ phase = "idle"
  BY DEF LoaderInit, LoaderIdle, RouteIdle
<1>2. DemoTypeInv
  BY <1>1 DEF DemoTypeInv
<1>3. QueueInv
  <2>1. Printed(stdout) = <<>>
    <3>1. stdout \in Seq(Answers) /\ Len(stdout) = 0
      BY <1>1
    <3>2. Printed(stdout) \in Seq(Requested) /\ Len(Printed(stdout)) = 0
      BY <3>1, PrintedIsSequence
    <3>3. QED
      BY <3>2
  <2>2. QED
    BY <1>1, <2>1 DEF QueueInv, Unanswered
<1>4. CameInv
  BY <1>1 DEF CameInv
<1>5. QED
  BY <1>1, <1>2, <1>3, <1>4
     DEF DemoInv, ServingInv, AnswersInv, GroundedInv, RouteInv, Searching

LEMMA AskKeeps ==
  ASSUME DemoInv, NEW m \in Requested, Ask(m)
  PROVE  DemoInv'
<1>1. /\ waiting' = Append(waiting, m) /\ stdin' = Append(stdin, m)
      /\ UNCHANGED <<manifest, stdout, serving, toLoad, came, handles>> /\ UNCHANGED routeVars
      /\ UNCHANGED <<graph, target, phase>>
  BY DEF Ask, routeVars
<1>2. /\ waiting \in Seq(Requested) /\ stdin \in Seq(Requested) /\ stdout \in Seq(Answers)
      /\ serving \in Requested \union {Nobody}
  BY DEF DemoInv, DemoTypeInv
<1>3. Answers' = Answers /\ Names' = Names
  BY <1>1 DEF Answers, Names
<1>4. DemoTypeInv'
  BY <1>1, <1>2, <1>3 DEF DemoInv, DemoTypeInv
<1>5. QueueInv'
  <2>1. Unanswered' = Append(Unanswered, m) /\ Unanswered \in Seq(Requested)
    <3>1. CASE serving = Nobody
      BY <1>1, <1>2, <3>1 DEF Unanswered
    <3>2. CASE serving # Nobody
      <4>1. <<serving>> \in Seq(Requested)
        BY <1>2, <3>2
      <4>2. <<serving>> \o Append(stdin, m) = Append(<<serving>> \o stdin, m)
        BY <1>2, <4>1, QueueFacts
      <4>3. <<serving>> \o stdin \in Seq(Requested)
        BY <1>2, <4>1
      <4>4. QED
        BY <1>1, <3>2, <4>2, <4>3 DEF Unanswered
    <3>3. QED
      BY <3>1, <3>2
  <2>2. Printed(stdout) \in Seq(Requested)
    BY <1>2, PrintedIsSequence
  <2>3. Append(Printed(stdout) \o Unanswered, m) = Printed(stdout) \o Append(Unanswered, m)
    <3>1. Unanswered \in Seq(Requested)
      BY <2>1
    <3>2. QED
      BY <2>2, <3>1, QueueFacts
  <2>4. QED
    BY <1>1, <2>1, <2>3 DEF DemoInv, QueueInv
<1>6. GraphOf' = GraphOf /\ \A x : DepsOf(x)' = DepsOf(x)
  BY <1>1 DEF GraphOf, FromStart, DepsOf, EdgeTo
<1>7. ServingInv' /\ CameInv' /\ AnswersInv' /\ GroundedInv'
  BY <1>1, <1>6 DEF DemoInv, ServingInv, CameInv, AnswersInv, GroundedInv, Grounded, IsGranted
<1>8. RouteInv'
  BY <1>1, RouteVarsStay DEF DemoInv
<1>9. QED
  BY <1>4, <1>5, <1>7, <1>8 DEF DemoInv

LEMMA ReceiveKeeps ==
  ASSUME DemoInv, Receive
  PROVE  DemoInv'
<1>1. /\ stdout # <<>> /\ waiting' = Tail(waiting) /\ stdout' = Tail(stdout)
      /\ UNCHANGED <<manifest, stdin, serving, toLoad, came, handles>> /\ UNCHANGED routeVars
      /\ UNCHANGED <<graph, target, phase>>
  BY DEF Receive, routeVars
<1>2. /\ waiting \in Seq(Requested) /\ stdin \in Seq(Requested) /\ stdout \in Seq(Answers)
      /\ serving \in Requested \union {Nobody}
  BY DEF DemoInv, DemoTypeInv
<1>3. Answers' = Answers /\ Names' = Names
  BY <1>1 DEF Answers, Names
<1>4. /\ Printed(stdout) \in Seq(Requested) /\ Len(Printed(stdout)) = Len(stdout)
      /\ Printed(stdout) # <<>>
  BY <1>1, <1>2, PrintedIsSequence
<1>5. Unanswered \in Seq(Requested) /\ Unanswered' = Unanswered
  BY <1>1, <1>2 DEF Unanswered
<1>6. waiting # <<>>
  <2>1. Len(waiting) = Len(Printed(stdout)) + Len(Unanswered)
    <3>1. Printed(stdout) \in Seq(Requested) /\ Unanswered \in Seq(Requested)
      BY <1>4, <1>5
    <3>2. waiting = Printed(stdout) \o Unanswered
      BY DEF DemoInv, QueueInv
    <3>3. QED
      BY <3>1, <3>2, ConcatProperties
  <2>2. QED
    BY <1>4, <1>5, <2>1
<1>7. DemoTypeInv'
  BY <1>1, <1>2, <1>3, <1>6 DEF DemoInv, DemoTypeInv
<1>8. QueueInv'
  <2>1. Tail(Printed(stdout) \o Unanswered) = Tail(Printed(stdout)) \o Unanswered
    BY <1>4, <1>5, QueueFacts
  <2>2. Printed(Tail(stdout)) = Tail(Printed(stdout))
    BY <1>1, <1>2, PrintedShrinks
  <2>3. Printed(stdout)' = Printed(Tail(stdout))
    BY <1>1 DEF Printed
  <2>4. QED
    BY <1>1, <1>5, <2>1, <2>2, <2>3 DEF DemoInv, QueueInv
<1>9. GraphOf' = GraphOf /\ \A x : DepsOf(x)' = DepsOf(x)
  BY <1>1 DEF GraphOf, FromStart, DepsOf, EdgeTo
<1>10. ServingInv' /\ CameInv' /\ GroundedInv'
  BY <1>1, <1>9 DEF DemoInv, ServingInv, CameInv, GroundedInv, Grounded
<1>11. AnswersInv'
  <2>1. \A i \in DOMAIN stdout' : i + 1 \in DOMAIN stdout /\ stdout'[i] = stdout[i + 1]
    BY <1>1, <1>2
  <2>2. QED
    BY <1>1, <2>1 DEF DemoInv, AnswersInv, IsGranted
<1>12. RouteInv'
  BY <1>1, RouteVarsStay DEF DemoInv
<1>13. QED
  BY <1>7, <1>8, <1>10, <1>11, <1>12 DEF DemoInv

LEMMA ServeKeeps ==
  ASSUME DemoInv, Serve
  PROVE  DemoInv'
<1>1. /\ serving = Nobody /\ stdin # <<>> /\ serving' = Head(stdin) /\ stdin' = Tail(stdin)
      /\ UNCHANGED <<manifest, waiting, stdout, toLoad, came, handles>>
      /\ phase = "idle" /\ toLoad = <<>> /\ came = <<>>
      /\ \/ graph' = GraphOf /\ target' = serving' /\ phase' = "called"
         \/ phase' = "LoaderError"
  BY DEF Serve, DemoInv, ServingInv
<1>2. /\ waiting \in Seq(Requested) /\ stdin \in Seq(Requested) /\ stdout \in Seq(Answers)
      /\ manifest \in Manifests /\ Head(stdin) \in Requested /\ Tail(stdin) \in Seq(Requested)
  BY <1>1 DEF DemoInv, DemoTypeInv
<1>3. Answers' = Answers /\ Names' = Names
  BY <1>1 DEF Answers, Names
<1>4. DemoTypeInv'
  BY <1>1, <1>2, <1>3 DEF DemoInv, DemoTypeInv
<1>5. serving' # Nobody
  BY <1>1, <1>2, RequestedAssumption
<1>6. QueueInv'
  <2>1. Unanswered' = <<Head(stdin)>> \o Tail(stdin) /\ Unanswered = stdin
    BY <1>1, <1>5 DEF Unanswered
  <2>2. <<Head(stdin)>> \o Tail(stdin) = stdin
    BY <1>1, <1>2, QueueFacts
  <2>3. QED
    BY <1>1, <2>1, <2>2 DEF DemoInv, QueueInv, Printed
<1>7. GraphOf' = GraphOf /\ \A x : DepsOf(x)' = DepsOf(x)
  BY <1>1 DEF GraphOf, FromStart, DepsOf, EdgeTo
<1>8. ServingInv'
  BY <1>1, <1>5, <1>7 DEF ServingInv
<1>9. CameInv' /\ AnswersInv' /\ GroundedInv'
  BY <1>1, <1>7 DEF DemoInv, CameInv, AnswersInv, GroundedInv, Grounded, IsGranted
<1>10. RouteInv'
  <2>1. CASE graph' = GraphOf /\ phase' = "called"
    BY <1>2, <2>1, GraphOfMeaning DEF RouteInv, Searching
  <2>2. CASE phase' = "LoaderError"
    BY <2>2 DEF RouteInv, Searching
  <2>3. QED
    BY <1>1, <2>1, <2>2
<1>11. QED
  BY <1>4, <1>6, <1>8, <1>9, <1>10 DEF DemoInv

\* A request that is answered, whatever was kept of it.
LEMMA AnswerKeepsQueue ==
  ASSUME DemoInv, serving # Nobody, NEW ok \in BOOLEAN, Answer(ok), manifest' = manifest,
         waiting' = waiting, stdin' = stdin
  PROVE  DemoTypeInv' /\ QueueInv'
<1>1. /\ stdout' = Append(stdout, [module |-> serving, ok |-> ok, route |-> came])
      /\ serving' = Nobody /\ toLoad' = <<>> /\ came' = <<>>
  BY DEF Answer
<1>2. /\ waiting \in Seq(Requested) /\ stdin \in Seq(Requested) /\ stdout \in Seq(Answers)
      /\ manifest \in Manifests /\ serving \in Requested /\ came \in Seq(Names)
  BY DEF DemoInv, DemoTypeInv
<1>3. Answers' = Answers /\ Names' = Names
  BY DEF Answers, Names
<1> DEFINE a == [module |-> serving, ok |-> ok, route |-> came]
<1>4. a \in Answers /\ a.module = serving
  BY <1>2 DEF Answers, Names
<1>5. DemoTypeInv'
  <2>1. stdout' \in Seq(Answers)
    <3> HIDE DEF a
    <3>1. Append(stdout, a) \in Seq(Answers)
      BY <1>2, <1>4
    <3>2. QED
      BY <1>1, <3>1 DEF a
  <2>2. QED
    BY <1>1, <1>2, <1>3, <2>1 DEF DemoTypeInv
<1>6. QueueInv'
  <2>1. Unanswered = <<serving>> \o stdin /\ Unanswered' = stdin
    BY <1>1 DEF Unanswered
  <2>2. Printed(stdout)' = Append(Printed(stdout), serving)
    <3>1. Printed(stdout)' = Printed(Append(stdout, a))
      BY <1>1 DEF Printed
    <3> HIDE DEF a
    <3>2. QED
      BY <1>2, <1>4, <3>1, PrintedGrows
  <2>3. Printed(stdout) \in Seq(Requested)
    BY <1>2, PrintedIsSequence
  <2>4. Append(Printed(stdout), serving) \o stdin = Printed(stdout) \o (<<serving>> \o stdin)
    BY <1>2, <2>3, QueueFacts
  <2>5. QED
    BY <2>1, <2>2, <2>4 DEF DemoInv, QueueInv
<1>7. QED
  BY <1>5, <1>6

\* An answer that refuses is true of any state, and one that grants is true if
\* the whole route is cached.
LEMMA AnswerKeeps ==
  ASSUME DemoInv, serving # Nobody, NEW ok \in BOOLEAN, Answer(ok),
         UNCHANGED <<manifest, waiting, stdin, handles>>,
         ok => phase = "idle" /\ toLoad = <<>>,
         phase' = "idle"
  PROVE  DemoInv'
<1>1. /\ stdout' = Append(stdout, [module |-> serving, ok |-> ok, route |-> came])
      /\ serving' = Nobody /\ toLoad' = <<>> /\ came' = <<>>
  BY DEF Answer
<1>2. DemoTypeInv' /\ QueueInv'
  BY AnswerKeepsQueue
<1>3. ServingInv'
  BY <1>1 DEF ServingInv
<1>4. CameInv'
  BY <1>1 DEF CameInv
<1>5. AnswersInv'
  <2> DEFINE a == [module |-> serving, ok |-> ok, route |-> came]
  <2>1. a.ok => IsGranted(a)
    <3>1. came \in Seq(Names) /\ CameInv
      BY DEF DemoInv, DemoTypeInv
    <3>2. QED
      BY <3>1 DEF CameInv, IsGranted
  <2>2. stdout \in Seq(Answers) /\ AnswersInv
    BY DEF DemoInv, DemoTypeInv
  <2>3. \A i \in DOMAIN stdout' : stdout'[i] = a \/ (i \in DOMAIN stdout /\ stdout'[i] = stdout[i])
    <3> HIDE DEF a
    <3>1. stdout' = Append(stdout, a)
      BY <1>1 DEF a
    <3>2. QED
      BY <2>2, <3>1
  <2>4. QED
    <3> HIDE DEF a
    <3>1. (\A i \in DOMAIN stdout : stdout[i].ok => IsGranted(stdout[i]))'
      BY <2>1, <2>2, <2>3 DEF AnswersInv, IsGranted
    <3>2. QED
      BY <3>1 DEF AnswersInv
<1>6. GroundedInv'
  BY DEF DemoInv, GroundedInv, Grounded, DepsOf
<1>7. RouteInv'
  BY DEF RouteInv, Searching
<1>8. QED
  BY <1>2, <1>3, <1>4, <1>5, <1>6, <1>7 DEF DemoInv

LEMMA RefuseKeeps ==
  ASSUME DemoInv, Refuse
  PROVE  DemoInv'
BY AnswerKeeps DEF Refuse, ForgetCall

LEMMA ScriptKeeps ==
  ASSUME DemoInv, Script
  PROVE  DemoInv'
<1>1. PICK sound \in BOOLEAN : Answer(sound)
  BY DEF Script
<1>2. /\ serving # Nobody /\ UNCHANGED <<manifest, waiting, stdin, handles>>
      /\ toLoad = <<>> /\ phase = "idle"
  BY DEF Script
<1>3. phase' = "idle"
  BY <1>2 DEF Script, routeVars
<1>4. QED
  BY <1>1, <1>2, <1>3, AnswerKeeps

\* The route is the path without its start: the edges it follows are dependencies.
LEMMA TakeRouteKeeps ==
  ASSUME DemoInv, TakeRoute
  PROVE  DemoInv'
<1>1. /\ serving # Nobody /\ phase = "returned" /\ phase' = "idle"
      /\ came' = Tail(path) /\ toLoad' = Tail(path)
      /\ UNCHANGED <<manifest, waiting, stdin, stdout, serving, handles>>
  BY DEF TakeRoute, ForgetCall
<1>2. SearchInv /\ graph = GraphOf /\ target = serving /\ manifest \in Manifests
  BY <1>1 DEF DemoInv, DemoTypeInv, RouteInv, Searching, ServingInv
<1>3. /\ path \in Seq(NodeNames) /\ path # <<>> /\ path[Len(path)] = target /\ path[1] = Root
      /\ \A i \in 2 .. Len(path) : path[i] # Root
  BY <1>1, <1>2 DEF SearchInv, PathInv
<1>4. NodeNames = Names
  BY <1>2, GraphOfMeaning DEF NodeNames, Names
<1>5. \A i \in 2 .. Len(path) : Between(path[i - 1], path[i]) # {}
  <2>1. \A i \in 2 .. Len(path) : ~ Unreached(path[i]) /\ path[i - 1] = previous[path[i]]
    BY <1>1, <1>2, <1>3 DEF SearchInv, PathInv
  <2>2. \A i \in 2 .. Len(path) : path[i] \in NodeNames
    BY <1>3
  <2>3. QED
    BY <1>2, <1>3, <2>1, <2>2 DEF SearchInv, TreeInv
<1>6. ASSUME NEW i \in 2 .. Len(path)
      PROVE  path[i - 1] \in DepsOf(path[i]) \/ (i = 2 /\ DepsOf(path[i]) = {})
  <2>1. path[i - 1] \in NodeNames /\ i - 1 \in 1 .. Len(path)
    BY <1>3
  <2>2. PICK w \in Between(path[i - 1], path[i]) : TRUE
    BY <1>5
  <2>3. PICK k \in DOMAIN graph[path[i - 1]] : graph[path[i - 1]][k].to = path[i]
    BY <2>1, <2>2, WaysOutOf
  <2>4. path[i - 1] \in DepsOf(path[i]) \/ (path[i - 1] = Root /\ DepsOf(path[i]) = {})
    BY <1>2, <2>1, <2>3, GraphOfMeaning DEF NodeNames
  <2>5. path[i - 1] = Root <=> i = 2
    BY <1>3, <2>1
  <2>6. QED
    BY <2>4, <2>5
<1>7. /\ Len(path) \in Nat /\ Len(path) > 0 /\ Tail(path) \in Seq(Names)
      /\ Len(Tail(path)) = Len(path) - 1
      /\ \A i \in 1 .. Len(path) - 1 : Tail(path)[i] = path[i + 1]
  BY <1>3, <1>4
<1>8. Answers' = Answers /\ Names' = Names /\ \A x : DepsOf(x)' = DepsOf(x)
  BY <1>1 DEF Answers, Names, DepsOf
<1>9. DemoTypeInv' /\ QueueInv'
  BY <1>1, <1>7, <1>8 DEF DemoInv, DemoTypeInv, QueueInv, Unanswered, Printed
<1>10. ServingInv'
  BY <1>1 DEF ServingInv
<1>11. CameInv'
  <2> DEFINE first == Tail(path)[1]
  <2>1. ASSUME Tail(path) # <<>>
        PROVE  /\ Tail(path)[Len(Tail(path))] = serving
               /\ DepsOf(first) = {} \/ Root \in DepsOf(first)
    <3>1. Len(path) - 1 \in 1 .. Len(path) - 1 /\ 1 \in 1 .. Len(path) - 1
      BY <1>7, <2>1
    <3>2. Tail(path)[Len(path) - 1] = path[Len(path)] /\ Tail(path)[1] = path[2]
      BY <1>7, <3>1
    <3>3. 2 \in 2 .. Len(path)
      BY <1>7, <3>1
    <3>4. Tail(path)[Len(Tail(path))] = serving
      BY <1>2, <1>3, <1>7, <3>2
    <3>5. path[2 - 1] \in DepsOf(path[2]) \/ DepsOf(path[2]) = {}
      BY <1>6, <3>3
    <3>6. path[2 - 1] = Root
      BY <1>3
    <3>7. QED
      BY <3>2, <3>4, <3>5, <3>6
  <2>2. ASSUME NEW i \in 2 .. Len(Tail(path)) PROVE Tail(path)[i - 1] \in DepsOf(Tail(path)[i])
    <3>1. i \in 1 .. Len(path) - 1 /\ i - 1 \in 1 .. Len(path) - 1 /\ i + 1 \in 2 .. Len(path)
      BY <1>7
    <3>2. Tail(path)[i] = path[i + 1] /\ Tail(path)[i - 1] = path[i]
      BY <1>7, <3>1
    <3>3. path[(i + 1) - 1] \in DepsOf(path[i + 1])
      BY <1>6, <3>1
    <3>4. QED
      BY <3>1, <3>2, <3>3
  <2>3. /\ came' = Tail(path) /\ toLoad' = Tail(path) /\ serving' = serving
        /\ Len(Tail(path)) \in Nat
    BY <1>1, <1>7
  <2>4. (came # <<>> =>
           came[Len(came)] = serving /\ (DepsOf(came[1]) = {} \/ Root \in DepsOf(came[1])))'
    BY <1>1, <2>1, <2>3 DEF DepsOf
  <2>5. (\A i \in 2 .. Len(came) : came[i - 1] \in DepsOf(came[i]))'
    BY <1>1, <2>2, <2>3 DEF DepsOf
  <2>6. /\ Len(toLoad') <= Len(came') /\ Len(came') - Len(toLoad') = 0
        /\ \A i \in 1 .. Len(toLoad') : toLoad'[i] = came'[0 + i]
    BY <2>3
  <2>7. Tail(path) = <<>> <=> serving = Root
    <3>1. CASE Len(path) = 1
      BY <1>2, <1>3, <1>7, <3>1
    <3>2. CASE Len(path) # 1
      <4>1. Len(path) \in 2 .. Len(path)
        BY <1>7, <3>2
      <4>2. path[Len(path)] # Root /\ Len(Tail(path)) > 0
        BY <1>3, <1>7, <3>2, <4>1
      <4>3. serving # Root
        BY <1>2, <1>3, <4>2
      <4>4. Tail(path) # <<>>
        <5>1. Len(Tail(path)) # 0 /\ Len(<<>>) = 0
          BY <4>2
        <5>2. QED
          BY ONLY <5>1
      <4>5. QED
        BY <4>3, <4>4
    <3>3. QED
      BY <3>1, <3>2
  <2>8. (serving # Nobody /\ phase = "idle" => (came = <<>> <=> serving = Root))'
    BY <2>3, <2>7
  <2>9. /\ \A i \in 1 .. Len(toLoad') : toLoad'[i] = came'[Len(came') - Len(toLoad') + i]
        /\ \A i \in 1 .. Len(came') - Len(toLoad') : came'[i] \in handles'
    BY <2>6
  <2>10. QED
    BY <2>4, <2>5, <2>6, <2>8, <2>9 DEF CameInv
<1>12. AnswersInv' /\ GroundedInv'
  BY <1>1, <1>8 DEF DemoInv, AnswersInv, GroundedInv, Grounded, IsGranted
<1>13. RouteInv'
  BY <1>1 DEF RouteInv, Searching
<1>14. QED
  BY <1>9, <1>10, <1>11, <1>12, <1>13 DEF DemoInv

\* The module before it on the route is cached already.
LEMMA LoadNextKeeps ==
  ASSUME DemoInv, LoadNext
  PROVE  DemoInv'
<1>1. /\ serving # Nobody /\ toLoad # <<>> /\ UNCHANGED <<manifest, waiting, stdin>>
      /\ UNCHANGED routeVars /\ UNCHANGED <<graph, target, phase>>
  BY DEF LoadNext, routeVars
<1>2. phase = "idle" /\ toLoad \in Seq(Names) /\ came \in Seq(Names)
  BY <1>1 DEF DemoInv, ServingInv, DemoTypeInv
<1>3. CASE Answer(FALSE) /\ UNCHANGED handles
  BY <1>1, <1>2, <1>3, AnswerKeeps
<1>4. CASE /\ handles' = handles \union {Head(toLoad)} /\ toLoad' = Tail(toLoad)
           /\ UNCHANGED <<stdout, serving, came>>
  <2>1. /\ Len(toLoad) \in Nat /\ Len(toLoad) > 0 /\ Head(toLoad) = toLoad[1]
        /\ Tail(toLoad) \in Seq(Names) /\ Len(Tail(toLoad)) = Len(toLoad) - 1
        /\ \A i \in 1 .. Len(toLoad) - 1 : Tail(toLoad)[i] = toLoad[i + 1]
        /\ Len(came) \in Nat
    BY <1>1, <1>2
  <2>2. CameInv
    BY DEF DemoInv
  <2> DEFINE k == Len(came) - Len(toLoad)
  <2>3. k \in Nat /\ k + 1 \in 1 .. Len(came) /\ toLoad[1] = came[k + 1]
    <3>1. Len(toLoad) <= Len(came) /\ 1 \in 1 .. Len(toLoad)
      BY <2>1, <2>2 DEF CameInv
    <3>2. toLoad[1] = came[Len(came) - Len(toLoad) + 1]
      BY <2>2, <3>1 DEF CameInv
    <3>3. QED
      BY <2>1, <3>1, <3>2
  <2>4. Answers' = Answers /\ Names' = Names /\ GraphOf' = GraphOf
        /\ \A x : DepsOf(x)' = DepsOf(x)
    BY <1>1 DEF Answers, Names, GraphOf, FromStart, DepsOf, EdgeTo
  <2>5. DemoTypeInv' /\ QueueInv' /\ ServingInv'
    BY <1>1, <1>2, <1>4, <2>1, <2>4
       DEF DemoInv, DemoTypeInv, QueueInv, Unanswered, Printed, ServingInv
  <2>6. CameInv'
    <3>1. Len(came) - Len(toLoad') = k + 1 /\ Len(toLoad') <= Len(came)
      BY <1>4, <2>1, <2>3
    <3>2. ASSUME NEW i \in 1 .. Len(toLoad') PROVE toLoad'[i] = came[k + 1 + i]
      <4>1. i + 1 \in 1 .. Len(toLoad) /\ toLoad'[i] = toLoad[i + 1]
        BY <1>4, <2>1
      <4>2. toLoad[i + 1] = came[k + (i + 1)]
        BY <2>2, <4>1 DEF CameInv
      <4>3. k + (i + 1) = k + 1 + i
        BY <2>3, <4>1
      <4>4. QED
        BY <4>1, <4>2, <4>3
    <3>3. ASSUME NEW i \in 1 .. k + 1 PROVE came[i] \in handles'
      <4>1. CASE i = k + 1
        BY <1>4, <2>1, <2>3, <4>1
      <4>2. CASE i # k + 1
        <5>1. i \in 1 .. k
          BY <2>3, <4>2
        <5>2. came[i] \in handles
          BY <2>2, <5>1 DEF CameInv
        <5>3. QED
          BY <1>4, <5>2
      <4>3. QED
        BY <4>1, <4>2
    <3> HIDE DEF k
    <3>4. QED
      BY <1>1, <1>4, <2>2, <2>4, <3>1, <3>2, <3>3 DEF CameInv
  <2>7. AnswersInv'
    BY <1>4 DEF DemoInv, AnswersInv, IsGranted
  <2>8. GroundedInv'
    <3>1. Grounded(Head(toLoad))
      <4>1. CASE k = 0
        <5>1. came # <<>> /\ Head(toLoad) = came[1]
          BY <2>1, <2>3, <4>1
        <5>2. QED
          BY <2>2, <5>1 DEF CameInv, Grounded
      <4>2. CASE k # 0
        <5>1. k + 1 \in 2 .. Len(came) /\ k \in 1 .. k /\ (k + 1) - 1 = k
          BY <2>3, <4>2
        <5>2. came[k] \in DepsOf(came[k + 1]) /\ came[k] \in handles
          BY <2>2, <5>1 DEF CameInv
        <5>3. QED
          BY <2>1, <2>3, <5>2 DEF Grounded
      <4>3. QED
        BY <4>1, <4>2
    <3>2. \A m \in handles' : Grounded(m)
      BY <1>4, <3>1 DEF DemoInv, GroundedInv
    <3>3. QED
      BY <1>4, <2>4, <3>2 DEF GroundedInv, Grounded
  <2>9. RouteInv'
    BY <1>1, RouteVarsStay DEF DemoInv
  <2>10. QED
    BY <2>5, <2>6, <2>7, <2>8, <2>9 DEF DemoInv
<1>5. QED
  BY <1>3, <1>4 DEF LoadNext

LEMMA RoutingKeeps ==
  ASSUME DemoInv, Routing
  PROVE  DemoInv'
<1>1. /\ RouteNext
      /\ UNCHANGED <<manifest, waiting, stdin, stdout, serving, toLoad, came, handles>>
  BY DEF Routing, loaderVars
<1>2. UNCHANGED <<graph, target>> /\ {phase, phase'} \cap {"idle", "LoaderError"} = {}
  <2>1. CASE Begin
    BY <2>1 DEF Begin, Raise
  <2>2. CASE Pick
    BY <2>2 DEF Pick
  <2>3. CASE NoneLeft
    BY <2>3 DEF NoneLeft
  <2>4. CASE Relax
    BY <2>4 DEF Relax, Raise
  <2>5. CASE Found
    BY <2>5 DEF Found, Raise
  <2>6. CASE Rebuild
    BY <2>6 DEF Rebuild
  <2>7. QED
    BY <1>1, <2>1, <2>2, <2>3, <2>4, <2>5, <2>6 DEF RouteNext
<1>3. Answers' = Answers /\ Names' = Names /\ GraphOf' = GraphOf /\ \A x : DepsOf(x)' = DepsOf(x)
  BY <1>1 DEF Answers, Names, GraphOf, FromStart, DepsOf, EdgeTo
<1>4. DemoTypeInv' /\ QueueInv'
  BY <1>1, <1>3 DEF DemoInv, DemoTypeInv, QueueInv, Unanswered, Printed
<1>5. ServingInv'
  BY <1>1, <1>2, <1>3 DEF DemoInv, ServingInv
<1>6. CameInv' /\ AnswersInv' /\ GroundedInv'
  <2>1. CameInv /\ phase # "idle" /\ phase' # "idle"
    BY <1>2 DEF DemoInv
  <2>2. CameInv'
    BY <1>1, <1>3, <2>1 DEF CameInv
  <2>3. QED
    BY <1>1, <1>3, <2>2 DEF DemoInv, AnswersInv, GroundedInv, Grounded, IsGranted
<1>7. RouteInv'
  BY <1>1, RouteStep DEF DemoInv
<1>8. QED
  BY <1>4, <1>5, <1>6, <1>7 DEF DemoInv

LEMMA IdleKeeps ==
  ASSUME DemoInv, UNCHANGED demoVars
  PROVE  DemoInv'
<1>1. /\ UNCHANGED <<manifest, asked, waiting, stdin, stdout, serving, toLoad, came, handles>>
      /\ UNCHANGED routeVars /\ UNCHANGED <<graph, target, phase>>
  BY DEF demoVars, loaderVars, routeVars
<1>2. Answers' = Answers /\ Names' = Names /\ GraphOf' = GraphOf /\ \A x : DepsOf(x)' = DepsOf(x)
  BY <1>1 DEF Answers, Names, GraphOf, FromStart, DepsOf, EdgeTo
<1>3. DemoTypeInv' /\ QueueInv' /\ ServingInv' /\ CameInv' /\ AnswersInv' /\ GroundedInv'
  BY <1>1, <1>2 DEF DemoInv, DemoTypeInv, QueueInv, Unanswered, Printed, ServingInv,
                    CameInv, AnswersInv, GroundedInv, Grounded, IsGranted
<1>4. RouteInv'
  BY <1>1, RouteVarsStay DEF DemoInv
<1>5. QED
  BY <1>3, <1>4 DEF DemoInv

LEMMA DemoInvariant == DemoSpec => []DemoInv
<1>1. LoaderInit => DemoInv
  BY DemoStarts
<1>2. DemoInv /\ [LoaderNext]_demoVars => DemoInv'
  <2> SUFFICES ASSUME DemoInv, [LoaderNext]_demoVars PROVE DemoInv'
    OBVIOUS
  <2>1. CASE \E m \in Requested : Ask(m)
    BY <2>1, AskKeeps
  <2>2. CASE Receive
    BY <2>2, ReceiveKeeps
  <2>3. CASE Serve
    BY <2>3, ServeKeeps
  <2>4. CASE Refuse
    BY <2>4, RefuseKeeps
  <2>5. CASE TakeRoute
    BY <2>5, TakeRouteKeeps
  <2>6. CASE LoadNext
    BY <2>6, LoadNextKeeps
  <2>7. CASE Script
    BY <2>7, ScriptKeeps
  <2>8. CASE Routing
    BY <2>8, RoutingKeeps
  <2>9. CASE UNCHANGED demoVars
    BY <2>9, IdleKeeps
  <2>10. QED
    BY <2>1, <2>2, <2>3, <2>4, <2>5, <2>6, <2>7, <2>8, <2>9 DEF LoaderNext, ServerNext
<1>3. QED
  BY <1>1, <1>2, PTL DEF DemoSpec

\* AnswersMatchRequests for every manifest: the client gives each answer to the
\* promise it was printed for, a request is granted only with its whole route
\* cached, which is empty for a module named "@root" and for no other, and a library
\* is cached only after one it depends on, if that is no module named "@root".
THEOREM AnswersReachTheirPromises == DemoSpec => []AnswersMatchRequests
<1>1. DemoInv => AnswersMatchRequests
  BY DEF DemoInv, QueueInv, Printed, AnswersInv, GroundedInv, AnswersMatchRequests
<1>2. QED
  BY <1>1, DemoInvariant, PTL

\* The routes the server loads along cost the least, too.
THEOREM RoutesServedAreShortest == DemoSpec => []RouteIsLeast
<1>1. DemoInv => RouteIsLeast
  BY RouteInvImplies DEF DemoInv
<1>2. QED
  BY <1>1, DemoInvariant, PTL

-----------------------------------------------------------------------------
(* The arguments of a call                                                 *)

LEMMA CallMeaning ==
  ASSUME NEW c \in Calls
  PROVE  /\ Len(c.pos) \in Nat /\ DOMAIN c.pos = 1 .. Len(c.pos)
         /\ Len(c.kw) \in Nat /\ DOMAIN c.kw = 1 .. Len(c.kw)
         /\ c.kw = <<>> <=> Len(c.kw) = 0
         /\ \A k, l \in DOMAIN c.kw : c.kw[k].name = c.kw[l].name => k = l
         /\ \A i \in 1 .. 3 : ~ Accepts(i, Unbound)
<1>1. IsList(c.pos) /\ IsList(c.kw)
  BY CallsAssumption
<1>2. PICK S : c.pos \in Seq(S)
  BY <1>1 DEF IsList
<1>3. PICK T : c.kw \in Seq(T)
  BY <1>1 DEF IsList
<1>4. Len(c.pos) \in Nat /\ DOMAIN c.pos = 1 .. Len(c.pos)
  BY <1>2, LenProperties
<1>5. Len(c.kw) \in Nat /\ DOMAIN c.kw = 1 .. Len(c.kw) /\ (c.kw = <<>> <=> Len(c.kw) = 0)
  BY <1>3, LenProperties, EmptySeq
<1>6. \A i \in 1 .. 3 : ~ Accepts(i, Unbound)
  <2>1. \A i \in 1 .. 3 : i = 1 \/ i = 2 \/ i = 3
    OBVIOUS
  <2>2. ParamType[1] = "dict" /\ ParamType[2] = "str" /\ ParamType[3] = "str"
    BY DEF ParamType
  <2>3. QED
    BY <2>1, <2>2, CallsAssumption DEF Accepts
<1>7. QED
  BY <1>4, <1>5, <1>6, CallsAssumption

LEMMA ParamsAreDistinct ==
  \A i, j \in 1 .. 3 : Params[i] = Params[j] => i = j
<1>1. Params[1] = "graph" /\ Params[2] = "start" /\ Params[3] = "target"
  BY DEF Params
<1>2. \A i \in 1 .. 3 : i = 1 \/ i = 2 \/ i = 3
  OBVIOUS
<1>3. QED
  BY <1>1, <1>2

\* The two ways of parsing the names refuse the same calls, those with a name
\* that is unknown or whose parameter has its value already: as no name comes
\* twice, the parameters named are as many as the names that name one.
LEMMA SameRefusals ==
  ASSUME NEW c \in Calls
  PROVE  /\ TupleRefused(c) <=> DictRefused(c)
         /\ ~ DictRefused(c) <=> Cardinality(Extracted(c)) = Len(c.kw)
<1> DEFINE n == Len(c.kw)
           f == [i \in Extracted(c) |-> CHOOSE k \in 1 .. n : c.kw[k].name = Params[i]]
<1>1. /\ n \in Nat /\ DOMAIN c.kw = 1 .. n
      /\ \A k, l \in 1 .. n : c.kw[k].name = c.kw[l].name => k = l
  BY CallMeaning
<1> HIDE DEF n
<1>2. \A i \in Extracted(c) : f[i] \in 1 .. n /\ c.kw[f[i]].name = Params[i]
  BY <1>1 DEF Extracted
<1>3. f \in [Extracted(c) -> 1 .. n]
  BY <1>2
<1> HIDE DEF f
<1>4. \A i, j \in Extracted(c) : f[i] = f[j] => i = j
  BY <1>2, ParamsAreDistinct DEF Extracted, ByName
<1>5. f \in Injection(Extracted(c), 1 .. n)
  BY <1>3, <1>4 DEF Injection, IsInjective
<1>6. IsFiniteSet(1 .. n) /\ Cardinality(1 .. n) = n
  BY <1>1, FS_Interval
<1>7. /\ IsFiniteSet(Extracted(c)) /\ Cardinality(Extracted(c)) <= n
      /\ Cardinality(Extracted(c)) = n <=> f \in Surjection(Extracted(c), 1 .. n)
  BY <1>5, <1>6, FS_Injection
<1>8. Cardinality(Extracted(c)) \in Nat
  BY <1>7, FS_CardinalityType
<1>9. f \in Surjection(Extracted(c), 1 .. n) <=> \A k \in 1 .. n : \E i \in Extracted(c) : f[i] = k
  BY <1>3 DEF Surjection
<1>10. TupleRefused(c) <=> \E k \in 1 .. n : ~ \E i \in Extracted(c) : f[i] = k
  <2>1. ASSUME NEW k \in 1 .. n
        PROVE  Matches(c, c.kw[k].name) = {} <=> ~ \E i \in Extracted(c) : f[i] = k
    <3>1. ASSUME NEW i \in Matches(c, c.kw[k].name) PROVE i \in Extracted(c) /\ f[i] = k
      <4>1. i \in ByName(c) /\ Params[i] = c.kw[k].name
        BY DEF Matches
      <4>2. i \in Extracted(c)
        BY <1>1, <4>1 DEF Extracted
      <4>3. QED
        BY <1>1, <1>2, <4>1, <4>2
    <3>2. ASSUME NEW i \in Extracted(c), f[i] = k PROVE i \in Matches(c, c.kw[k].name)
      BY <1>2, <3>2 DEF Matches, Extracted
    <3>3. QED
      BY <3>1, <3>2
  <2>2. QED
    BY <1>1, <2>1 DEF TupleRefused
<1>11. DictRefused(c) <=> n > Cardinality(Extracted(c))
  BY DEF DictRefused, n
<1>12. QED
  BY <1>1, <1>7, <1>8, <1>9, <1>10, <1>11 DEF n

\* They find the same values: the value under its own name for a parameter that
\* is named, and what its position gives for any other.
LEMMA SameValues ==
  ASSUME NEW c \in Calls
  PROVE  /\ TupleValues(c) = DictValues(c)
         /\ \A i \in 1 .. 3 : i \notin Extracted(c) => DictValues(c)[i] = Positional(c)[i]
         /\ \A i \in Extracted(c), k \in DOMAIN c.kw :
              c.kw[k].name = Params[i] => DictValues(c)[i] = c.kw[k].value
<1>1. \A k, l \in DOMAIN c.kw : c.kw[k].name = c.kw[l].name => k = l
  BY CallMeaning
<1>2. Extracted(c) \subseteq 1 .. 3
  BY DEF Extracted, ByName
<1>3. \A i \in 1 .. 3 : i \notin Extracted(c) => DictValues(c)[i] = Positional(c)[i]
  BY <1>2 DEF DictValues
<1>4. ASSUME NEW i \in Extracted(c), NEW k \in DOMAIN c.kw, c.kw[k].name = Params[i]
      PROVE  DictValues(c)[i] = c.kw[k].value /\ TupleValues(c)[i] = c.kw[k].value
  <2>1. (CHOOSE l \in DOMAIN c.kw : c.kw[l].name = Params[i]) = k
    BY <1>1, <1>4
  <2>2. DictValues(c)[i] = c.kw[k].value
    BY <1>2, <2>1 DEF DictValues
  <2>3. \A l \in DOMAIN c.kw : i \in Matches(c, c.kw[l].name) <=> l = k
    BY <1>1, <1>2, <1>4 DEF Matches, Extracted
  <2>4. (CHOOSE l \in DOMAIN c.kw : i \in Matches(c, c.kw[l].name)) = k
    BY <2>3
  <2>5. TupleValues(c)[i] = c.kw[k].value
    BY <1>2, <2>3, <2>4 DEF TupleValues
  <2>6. QED
    BY <2>2, <2>5
<1>5. \A i \in 1 .. 3 : i \notin Extracted(c) => TupleValues(c)[i] = Positional(c)[i]
  <2>1. \A i \in 1 .. 3 : i \notin Extracted(c) =>
          ~ \E k \in DOMAIN c.kw : i \in Matches(c, c.kw[k].name)
    BY DEF Matches, Extracted
  <2>2. QED
    BY <2>1 DEF TupleValues
<1>6. ASSUME NEW i \in 1 .. 3 PROVE TupleValues(c)[i] = DictValues(c)[i]
  <2>1. CASE i \in Extracted(c)
    <3>1. PICK k \in DOMAIN c.kw : c.kw[k].name = Params[i]
      BY <2>1 DEF Extracted
    <3>2. QED
      BY <1>4, <2>1, <3>1
  <2>2. CASE i \notin Extracted(c)
    BY <1>3, <1>5, <2>2
  <2>3. QED
    BY <2>1, <2>2
<1>7. TupleValues(c) \in [1 .. 3 -> {TupleValues(c)[i] : i \in 1 .. 3}]
  BY DEF TupleValues
<1>8. DictValues(c) \in [1 .. 3 -> {DictValues(c)[i] : i \in 1 .. 3}]
  BY DEF DictValues
<1>9. TupleValues(c) = DictValues(c)
  BY <1>6, <1>7, <1>8
<1>10. QED
  BY <1>3, <1>4, <1>9

LEMMA LeftToNames ==
  ASSUME NEW c \in Calls, Len(c.pos) <= 3
  PROVE  Cardinality(ByName(c)) = 3 - Len(c.pos)
<1> DEFINE p == Len(c.pos)
           q == p + 1
           last == 3
<1>1. p \in Nat
  BY CallMeaning
<1>2. q \in Int /\ last \in Int /\ q = p + 1 /\ last = 3
  BY <1>1
<1>3. ByName(c) = q .. last
  BY <1>1 DEF ByName
<1> HIDE DEF q, last
<1>4. Cardinality(q .. last) = IF q > last THEN 0 ELSE last - q + 1
  BY <1>2, FS_Interval
<1>5. Cardinality(q .. last) = 3 - p
  BY <1>1, <1>2, <1>4
<1>6. QED
  BY <1>3, <1>5

\* When the names name exactly the parameters that the positions leave, every
\* parameter is given one value, the one the parser finds.
LEMMA GivenOnce ==
  ASSUME NEW c \in Calls, Len(c.pos) <= 3, Extracted(c) = ByName(c),
         Cardinality(Extracted(c)) = Len(c.kw)
  PROVE  Suppliers(c) = 3 /\ \A i \in 1 .. 3 : Given(c, i) = {DictValues(c)[i]}
<1>1. /\ Len(c.pos) \in Nat /\ DOMAIN c.pos = 1 .. Len(c.pos)
      /\ \A k, l \in DOMAIN c.kw : c.kw[k].name = c.kw[l].name => k = l
      /\ Len(c.kw) \in Nat
  BY CallMeaning
<1>2. Suppliers(c) = 3
  <2>1. Len(c.kw) = 3 - Len(c.pos)
    BY LeftToNames
  <2>2. QED
    BY <1>1, <2>1 DEF Suppliers
<1>3. ASSUME NEW i \in 1 .. 3, i \in Extracted(c) PROVE Given(c, i) = {DictValues(c)[i]}
  <2>1. {i} \cap DOMAIN c.pos = {}
    BY <1>1, <1>3 DEF ByName
  <2>2. PICK k \in DOMAIN c.kw : c.kw[k].name = Params[i]
    BY <1>3 DEF Extracted
  <2>3. {x \in DOMAIN c.kw : c.kw[x].name = Params[i]} = {k}
    BY <1>1, <2>2
  <2>4. DictValues(c)[i] = c.kw[k].value
    BY <1>3, <2>2, SameValues
  <2>5. QED
    BY <2>1, <2>3, <2>4 DEF Given
<1>4. ASSUME NEW i \in 1 .. 3, i \notin Extracted(c) PROVE Given(c, i) = {DictValues(c)[i]}
  <2>1. i <= Len(c.pos) /\ i \in DOMAIN c.pos
    BY <1>1, <1>4 DEF ByName
  <2>2. DictValues(c)[i] = c.pos[i]
    BY <1>4, <2>1, SameValues DEF Positional
  <2>3. ASSUME NEW k \in DOMAIN c.kw, c.kw[k].name = Params[i] PROVE FALSE
    <3>1. ~ TupleRefused(c)
      BY SameRefusals
    <3>2. PICK j \in ByName(c) : Params[j] = c.kw[k].name
      BY <3>1 DEF TupleRefused, Matches
    <3>3. j = i
      BY <2>3, <3>2, ParamsAreDistinct DEF ByName
    <3>4. QED
      BY <1>4, <3>2, <3>3
  <2>4. Given(c, i) = {c.pos[i]}
    BY <2>1, <2>3 DEF Given
  <2>5. QED
    BY <2>2, <2>4
<1>5. QED
  BY <1>2, <1>3, <1>4

\* The wrapper calls the function exactly when the call is a good one.
LEMMA WrapperMeaning ==
  ASSUME NEW c \in Calls
  PROVE  LET good   == /\ Suppliers(c) = 3
                       /\ \A i \in 1 .. 3 : \E v \in Given(c, i) : Accepts(i, v)
             values == [i \in 1 .. 3 |-> CHOOSE v \in Given(c, i) : TRUE]
         IN  ByDict(c) = (IF good THEN values ELSE <<>>)
<1> DEFINE p      == Len(c.pos)
           n      == Len(c.kw)
           good   == /\ Suppliers(c) = 3
                     /\ \A i \in 1 .. 3 : \E v \in Given(c, i) : Accepts(i, v)
           values == [i \in 1 .. 3 |-> CHOOSE v \in Given(c, i) : TRUE]
           found  == DictValues(c)
           taken  == /\ c.kw = <<>> => p = 3
                     /\ c.kw # <<>> => ~ (p > 3)
                     /\ c.kw # <<>> => ~ DictRefused(c)
                     /\ ~ Missing(found) /\ Typed(found)
<1>1. ByDict(c) = IF taken THEN found ELSE <<>>
  BY DEF ByDict, Wrapped
<1>2. /\ p \in Nat /\ DOMAIN c.pos = 1 .. p
      /\ n \in Nat /\ DOMAIN c.kw = 1 .. n
      /\ c.kw = <<>> <=> n = 0
      /\ \A i \in 1 .. 3 : ~ Accepts(i, Unbound)
  BY CallMeaning
<1>3. Extracted(c) \subseteq ByName(c)
  BY DEF Extracted
<1>4. \A i \in 1 .. 3 : i \notin Extracted(c) =>
        found[i] = IF i <= p THEN c.pos[i] ELSE Unbound
  BY SameValues DEF Positional
<1> HIDE DEF found, p, n
<1>5. ASSUME taken PROVE good /\ values = found
  <2>a. c.kw = <<>> => p = 3
    BY <1>5
  <2>b. c.kw # <<>> => ~ (p > 3)
    BY <1>5
  <2>1. p <= 3
    BY <1>2, <2>a, <2>b
  <2>2. \A i \in 1 .. 3 : found[i] # Unbound /\ Accepts(i, found[i])
    BY <1>5 DEF Missing, Typed
  <2>3. ByName(c) \subseteq Extracted(c)
    <3>1. SUFFICES ASSUME NEW i \in ByName(c), i \notin Extracted(c) PROVE FALSE
      OBVIOUS
    <3>2. i \in 1 .. 3 /\ ~ (i <= p)
      BY <1>2 DEF ByName, p
    <3>3. found[i] = Unbound
      BY <1>4, <3>1, <3>2
    <3>4. QED
      BY <2>2, <3>2, <3>3
  <2>4. ~ DictRefused(c)
    <3>1. CASE c.kw = <<>>
      <4>1. DOMAIN c.kw = {}
        BY <1>2, <3>1
      <4>2. ~ TupleRefused(c)
        BY <4>1 DEF TupleRefused
      <4>3. QED
        BY <4>2, SameRefusals
    <3>2. CASE c.kw # <<>>
      BY <1>5, <3>2
    <3>3. QED
      BY <3>1, <3>2
  <2>5. Cardinality(Extracted(c)) = n
    BY <2>4, SameRefusals DEF n
  <2>6. Suppliers(c) = 3 /\ \A i \in 1 .. 3 : Given(c, i) = {found[i]}
    <3>1. Extracted(c) = ByName(c)
      BY <1>3, <2>3
    <3>2. QED
      BY <2>1, <2>5, <3>1, GivenOnce DEF found, p, n
  <2>7. good
    BY <2>2, <2>6
  <2>8. values = found
    <3>1. \A i \in 1 .. 3 : values[i] = found[i]
      BY <2>6
    <3>2. found = [i \in 1 .. 3 |-> found[i]]
      BY DEF found, DictValues
    <3>3. QED
      BY <3>1, <3>2
  <2>9. QED
    BY <2>7, <2>8
<1>6. ASSUME good PROVE taken
  <2>a. Suppliers(c) = 3
    BY <1>6
  <2>b. p + n = 3
    BY <2>a DEF Suppliers, p, n
  <2>1. p + n = 3 /\ p <= 3
    BY <1>2, <2>b
  <2>2. ByName(c) \subseteq Extracted(c)
    <3>1. SUFFICES ASSUME NEW i \in ByName(c) PROVE i \in Extracted(c)
      OBVIOUS
    <3>2. i \in 1 .. 3 /\ {i} \cap DOMAIN c.pos = {}
      BY <1>2 DEF ByName, p
    <3>3. PICK v : v \in Given(c, i)
      BY <1>6, <3>2
    <3>4. QED
      BY <3>2, <3>3 DEF Given, Extracted
  <2>3. Cardinality(ByName(c)) = 3 - p
    BY <2>1, LeftToNames DEF p
  <2>4. Cardinality(Extracted(c)) = n /\ Extracted(c) = ByName(c)
    BY <1>2, <1>3, <2>1, <2>2, <2>3
  <2>5. ~ DictRefused(c) /\ \A i \in 1 .. 3 : Given(c, i) = {found[i]}
    BY <2>1, <2>4, SameRefusals, GivenOnce DEF found, p, n
  <2>6. \A i \in 1 .. 3 : Accepts(i, found[i])
    BY <1>6, <2>5
  <2>7. ~ Missing(found) /\ Typed(found)
    BY <1>2, <2>6 DEF Missing, Typed
  <2>8. c.kw = <<>> => p = 3
    BY <1>2, <2>1
  <2>9. QED
    BY <1>2, <2>1, <2>5, <2>7, <2>8
<1> HIDE DEF taken, good, values
<1>7. ByDict(c) = IF good THEN values ELSE <<>>
  BY <1>1, <1>5, <1>6
<1>8. QED
  BY <1>7 DEF good, values

\* A call with a key that is no string is refused by the wrapper as well.
LEMMA NamesAreStrings ==
  ASSUME NEW c \in Calls, NEW k \in DOMAIN c.kw, c.kw[k].name \in NotStrings
  PROVE  ByTuple(c) = <<>>
<1>1. \A i \in 1 .. 3 : Params[i] \notin NotStrings
  <2>1. Params[1] = "graph" /\ Params[2] = "start" /\ Params[3] = "target"
    BY DEF Params
  <2>2. \A i \in 1 .. 3 : i = 1 \/ i = 2 \/ i = 3
    OBVIOUS
  <2>3. QED
    BY <2>1, <2>2, CallsAssumption
<1>2. Matches(c, c.kw[k].name) = {}
  BY <1>1 DEF Matches, ByName
<1>3. TupleRefused(c)
  BY <1>2 DEF TupleRefused
<1>4. c.kw # <<>>
  BY CallMeaning
<1>5. QED
  BY <1>3, <1>4 DEF ByTuple, Wrapped

\* Every way to call the compiled function, call syntax or its __call__, in a
\* build with vectorcall or without, takes the same arguments for the same
\* parameters, for every call.
THEOREM CallsBindTheirArguments == CallSpec => []ArgumentsAreBound
<1>1. CallInit => call \in Calls
  BY DEF CallInit
<1>2. call \in Calls /\ [UNCHANGED call]_call => (call \in Calls)'
  OBVIOUS
<1>3. call \in Calls => ArgumentsAreBound
  <2>1. SUFFICES ASSUME call \in Calls PROVE ArgumentsAreBound
    OBVIOUS
  <2>2. ByTuple(call) = ByDict(call)
    <3>1. (TupleRefused(call) <=> DictRefused(call)) /\ TupleValues(call) = DictValues(call)
      BY <2>1, SameRefusals, SameValues
    <3>2. QED
      BY <3>1 DEF ByTuple, ByDict, Wrapped
  <2>3. ~ TakesSelf
    BY DEF TakesSelf, Flags
  <2>4. FastCall(call) = ByTuple(call)
    BY <2>3 DEF FastCall
  <2>5. CallAsMethod(call, TRUE) = ByTuple(call)
    <3>1. FastCallDict(call) = ByTuple(call)
      BY <2>1, <2>4, NamesAreStrings DEF FastCallDict
    <3>2. QED
      BY <3>1 DEF CallAsMethod
  <2>6. CallAsMethod(call, FALSE) = ByDict(call)
    BY <2>3 DEF CallAsMethod, CallMethod, CallFlags
  <2>7. \A vectorcall \in BOOLEAN : CallAsMethod(call, vectorcall) = ByDict(call)
    BY <2>2, <2>5, <2>6
  <2>8. FastCall(call) = ByDict(call)
    BY <2>2, <2>4
  <2>9. QED
    BY <2>1, <2>7, <2>8, WrapperMeaning DEF ArgumentsAreBound
<1>4. QED
  BY <1>1, <1>2, <1>3, PTL DEF CallSpec
=============================================================================
