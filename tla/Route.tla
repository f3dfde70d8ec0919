--------------------------------- MODULE Route ---------------------------------
(***************************************************************************)
(* shortest_path of the dynamic loader demo (_dijkstra.pyx, built as       *)
(* _dijkstra.c): Dijkstra over the graph of modules, one step to the       *)
(* choice of a node, to the scan of its edges, and to each node of the     *)
(* path it returns.                                                        *)
(*                                                                         *)
(* The nodes not yet chosen are a Python set.  Its order is the order of   *)
(* the hashes of strings, which differs from one process to the next, so   *)
(* any of several nearest nodes may come first.                            *)
(***************************************************************************)
EXTENDS Integers, Sequences, FiniteSets

CONSTANTS
  Root,        \* "@root", where every route starts
  Infinity,    \* the distance of a node not reached
  NaN          \* what is no number, and less than nothing

ASSUME InfinityAssumption == Infinity \notin Int /\ NaN \notin Int \union {Infinity}

\* The costs JSON has: Python reads Infinity and NaN as well.  (-Infinity is as any
\* negative cost.)
Costs == Int \union {Infinity, NaN}

VARIABLES
  graph,       \* node |-> the list of its edges [to, weight]
  target,      \* the module a route is wanted to
  distance,
  previous,
  pending,     \* nodes not yet chosen
  current,
  path,        \* the route, as far as it is rebuilt
  phase        \* where the call is: "idle" when there is none

routeVars == <<graph, target, distance, previous, pending, current, path, phase>>

NoGraph == [n \in {} |-> <<>>]

RouteIdle ==
  /\ graph = NoGraph /\ distance = NoGraph /\ previous = NoGraph
  /\ target = Root /\ current = Root
  /\ pending = {} /\ path = <<>>
  /\ phase = "idle"

-----------------------------------------------------------------------------
(* Numbers, as doubles are compared and added                              *)

IsFinite(a) == a \notin {Infinity, NaN}

\* <, which no comparison with NaN is.
Nearer(a, b) == IsFinite(a) /\ b # NaN /\ (b = Infinity \/ a < b)

IsNegative(weight) == IsFinite(weight) /\ weight < 0

Plus(a, weight) ==
  IF IsFinite(a) /\ IsFinite(weight) THEN a + weight
  ELSE IF NaN \in {a, weight} THEN NaN ELSE Infinity

Unreached(n) == distance[n] = Infinity

-----------------------------------------------------------------------------
(* The call                                                                *)

\* What the caller is left with when a call raises.
Raise(error) ==
  /\ phase' = error
  /\ UNCHANGED <<graph, target, distance, previous, pending, current, path>>

\* The keys of the graph, one at a time.
NodeNames == DOMAIN graph

Present == {Root, target} \subseteq NodeNames

\* Every node starts out infinitely far away, except the start.
Begin ==
  /\ phase = "called"
  /\ IF ~ Present THEN Raise("KeyError")
     ELSE /\ distance' = [n \in NodeNames |-> IF n = Root THEN 0 ELSE Infinity]
          /\ previous' = NoGraph
          /\ pending'  = NodeNames
          /\ phase'    = "pick"
          /\ UNCHANGED <<graph, target, current, path>>

\* The nodes the scan of the pending set may come out with.
Nearest ==
  {n \in pending : ~ Unreached(n) /\ \A m \in pending : ~ Nearer(distance[m], distance[n])}

\* Mutant: the node chosen stays pending.
PickKeepingPending ==
  /\ phase = "pick"
  /\ \E n \in Nearest :
       /\ current' = n
       /\ phase' = IF n = target THEN "found" ELSE "relax"
  /\ UNCHANGED <<graph, target, distance, previous, pending, path>>

Pick ==
  /\ phase = "pick"
  /\ \E n \in Nearest :
       /\ pending' = pending \ {n}
       /\ current' = n
       /\ phase' = IF n = target THEN "found" ELSE "relax"
  /\ UNCHANGED <<graph, target, distance, previous, path>>

NoneLeft ==
  /\ phase = "pick" /\ Nearest = {}
  /\ phase' = "found"
  /\ UNCHANGED <<graph, target, distance, previous, pending, current, path>>

Edges == {graph[current][i] : i \in DOMAIN graph[current]}

\* The edges that shorten the way to n, which must still be pending.
Shorter(n) ==
  {e \in Edges : e.to = n /\ n \in pending
                 /\ Nearer(Plus(distance[current], e.weight), distance[n])}

LeastOf(edges) == CHOOSE e \in edges : \A f \in edges : e.weight <= f.weight

Improved == {n \in NodeNames : Shorter(n) # {}}

\* The distances and the previous nodes once the edges are scanned.
Closer ==
  [n \in NodeNames |->
     IF n \in Improved THEN Plus(distance[current], LeastOf(Shorter(n)).weight) ELSE distance[n]]

Behind ==
  [n \in Improved \union DOMAIN previous |-> IF n \in Improved THEN current ELSE previous[n]]

\* Mutant: the search ends as soon as it sees the target.
RelaxUntilSeen ==
  /\ phase = "relax"
  /\ IF \E e \in Edges : IsNegative(e.weight) THEN Raise("ValueError")
     ELSE /\ distance' = Closer
          /\ previous' = Behind
          /\ phase' = IF target \in Improved THEN "found" ELSE "pick"
          /\ UNCHANGED <<graph, target, pending, current, path>>

\* A negative cost is noticed only on an edge that is scanned, and NaN never is.
Relax ==
  /\ phase = "relax"
  /\ IF \E e \in Edges : IsNegative(e.weight) THEN Raise("ValueError")
     ELSE /\ distance' = Closer
          /\ previous' = Behind
          /\ phase' = "pick"
          /\ UNCHANGED <<graph, target, pending, current, path>>

Found ==
  /\ phase = "found"
  /\ IF Unreached(target) THEN Raise("ValueError")
     ELSE /\ path' = <<target>> /\ phase' = "rebuild"
          /\ UNCHANGED <<graph, target, distance, previous, pending, current>>

\* One node of the path; the code appends them and reverses the list.
Rebuild ==
  /\ phase = "rebuild"
  /\ IF Head(path) = Root THEN phase' = "returned" /\ UNCHANGED path
     ELSE path' = <<previous[Head(path)]>> \o path /\ UNCHANGED phase
  /\ UNCHANGED <<graph, target, distance, previous, pending, current>>

RouteNext == Begin \/ Pick \/ NoneLeft \/ Relax \/ Found \/ Rebuild

-----------------------------------------------------------------------------
(* Properties                                                              *)

\* The edges of the graph that cost a number, each with the node it leaves.
Ways ==
  UNION {{[from |-> n, to |-> graph[n][i].to, weight |-> graph[n][i].weight] :
            i \in {i \in DOMAIN graph[n] : IsFinite(graph[n][i].weight)}} : n \in DOMAIN graph}

Between(a, b) == {w \in Ways : w.from = a /\ w.to = b}

Routes ==
  {r \in UNION {[1 .. k -> DOMAIN graph] : k \in 1 .. Cardinality(DOMAIN graph)} :
     /\ r[1] = Root /\ r[Len(r)] = target
     /\ \A i \in 2 .. Len(r) : Between(r[i - 1], r[i]) # {}}

NonNegative == \A w \in Ways : w.weight >= 0

EdgeCost(a, b) == LeastOf(Between(a, b)).weight

CostOf(route) ==
  LET sum[i \in 1 .. Len(route)] ==
        IF i = 1 THEN 0 ELSE sum[i - 1] + EdgeCost(route[i - 1], route[i])
  IN  sum[Len(route)]

\* Where no cost is negative, the route returned is a way of the graph from the
\* start to the target, no way costs less, and its cost is the distance returned;
\* and the call fails only if there is no way.  An edge that costs NaN or Infinity is
\* no way: the call neither takes it nor is misled by it, nor does it say so.
RouteIsLeast ==
  NonNegative =>
    /\ phase = "returned" =>
         /\ path \in Routes /\ CostOf(path) = distance[target]
         /\ \A r \in Routes : CostOf(path) <= CostOf(r)
    /\ phase = "ValueError" => Routes = {}
=============================================================================
