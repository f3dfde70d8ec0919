------------------------------ MODULE SelectGraph ------------------------------
(***************************************************************************)
(* The graph of candidates of select.rs and the walk over it, a step of    *)
(* the model to a step of the walk.  The graph is what any sequence of     *)
(* calls of add and edge makes of it, cycles included.  Its nodes serve as *)
(* the list of candidates given to select, too.                            *)
(***************************************************************************)
EXTENDS Select, FiniteSets

CONSTANTS
  Candidates,   \* candidates added
  WeightSets,   \* weights passed
  MaxNodes,     \* the capacity N
  MaxChildren,  \* MAX_CHILDREN
  MaxEdges,     \* bound on the edges of a graph
  OutLens       \* lengths of the buffer the path is written to

\* No two candidates share an identifier.  add does not check it; find, which
\* looks a candidate up by it, and the last tie-break rest on it.
ASSUME CandidatesAssumption ==
  /\ Candidates \subseteq Candidate
  /\ \A c, d \in Candidates : c.id = d.id => c = d

ASSUME WalksAssumption == WeightSets \subseteq WeightTriple /\ OutLens \subseteq Nat

VARIABLES
  nodes,     \* the candidates added
  children,  \* the edges out of each of them
  weights,   \* the weights of the walk
  mode,      \* "build", "walk", "done" or "panic"; "idle" without a graph
  cur,       \* where the walk is
  walked,      \* what it has written
  room       \* the length of its buffer

graphVars == <<nodes, children, weights, mode, cur, walked, room>>

GraphEmpty ==
  /\ nodes = <<>> /\ children = <<>> /\ weights = DefaultWeights
  /\ cur = None /\ walked = <<>> /\ room = 0

GraphInit == GraphEmpty /\ mode = "build"

GraphIdle == GraphEmpty /\ mode = "idle"

\* add
Add(c) ==
  /\ mode = "build" /\ Len(nodes) < MaxNodes
  /\ nodes' = Append(nodes, c)
  /\ children' = Append(children, <<>>)
  /\ UNCHANGED <<weights, mode, cur, walked, room>>

EdgeCount == Cardinality(UNION {{<<n, k>> : k \in DOMAIN children[n]} : n \in DOMAIN nodes})

\* edge; an index out of range and a full node change nothing.
Edge(from, to) ==
  /\ mode = "build" /\ EdgeCount < MaxEdges /\ {from, to} \subseteq DOMAIN nodes
  /\ Len(children[from]) < MaxChildren
  /\ children' = [children EXCEPT ![from] = Append(@, to)]
  /\ UNCHANGED <<nodes, weights, mode, cur, walked, room>>

StartWalk(start, w, len) ==
  /\ mode = "build"
  /\ mode' = "walk" /\ cur' = start /\ weights' = w /\ room' = len
  /\ UNCHANGED <<nodes, children, walked>>

Visited == {walked[i] : i \in DOMAIN walked}

ChildList(n) == [k \in DOMAIN children[n] |-> nodes[children[n][k]]]

BestChild(n) == BestOf(ChildList(n), weights)

\* Mutant: the walk does not remember where it has been.
WalkOnForgetting ==
  /\ mode = "walk" /\ Len(walked) < room /\ cur \in DOMAIN nodes
  /\ walked' = Append(walked, cur)
  /\ IF ScoringPanics(ChildList(cur), weights) THEN mode' = "panic" /\ UNCHANGED cur
     ELSE IF BestChild(cur) = None THEN mode' = "done" /\ UNCHANGED cur
     ELSE cur' = children[cur][BestChild(cur)] /\ UNCHANGED mode
  /\ UNCHANGED <<nodes, children, weights, room>>

\* best_path: one turn of the loop.
WalkOn ==
  /\ mode = "walk" /\ Len(walked) < room /\ cur \in DOMAIN nodes /\ cur \notin Visited
  /\ walked' = Append(walked, cur)
  /\ IF ScoringPanics(ChildList(cur), weights) THEN mode' = "panic" /\ UNCHANGED cur
     ELSE IF BestChild(cur) = None THEN mode' = "done" /\ UNCHANGED cur
     ELSE cur' = children[cur][BestChild(cur)] /\ UNCHANGED mode
  /\ UNCHANGED <<nodes, children, weights, room>>

\* and the loop's condition.
WalkStops ==
  /\ mode = "walk"
  /\ \/ Len(walked) = room \/ cur \notin DOMAIN nodes \/ cur \in Visited
  /\ mode' = "done"
  /\ UNCHANGED <<nodes, children, weights, cur, walked, room>>

GraphNext ==
  \/ \E c \in Candidates : Add(c)
  \/ \E from, to \in 1 .. MaxNodes : Edge(from, to)
  \/ \E start \in 1 .. MaxNodes, w \in WeightSets, len \in OutLens : StartWalk(start, w, len)
  \/ WalkOn
  \/ WalkStops

GraphSpec == GraphInit /\ [][GraphNext]_graphVars

-----------------------------------------------------------------------------
(* Properties                                                              *)

\* The nodes as a list of candidates, before any edge is added.
JustAList == mode = "build" /\ \A n \in DOMAIN children : children[n] = <<>>

Summable == {w \in WeightSets : ~ SumPanics(w)}

Chosen(list, w) == IF BestOf(list, w) = None THEN NoDesc ELSE list[BestOf(list, w)]

Exchanged(i, j) == [nodes EXCEPT ![i] = nodes[j], ![j] = nodes[i]]

\* A list in which every copy of candidate c has one more vote.
Voted(c, ballot) ==
  [i \in DOMAIN nodes |->
     IF nodes[i] = c THEN [c EXCEPT !.votes = Cast(@, ballot)] ELSE nodes[i]]

\* The choice does not depend on the order in which candidates are listed; the
\* winner passes the gate and no other candidate that does is better; there is
\* no winner only if none passes.  And votes count: one more endorsement never
\* takes the choice from the winner, one more rejection never gives it to a loser.
WinnerIsTheBest ==
  JustAList => \A w \in Summable :
    LET gated == {nodes[i] : i \in {k \in DOMAIN nodes : PassesGate(nodes[k])}}
        win   == Chosen(nodes, w)
    IN  /\ \A i, j \in DOMAIN nodes : Chosen(Exchanged(i, j), w) = win
        /\ IF gated = {} THEN win = NoDesc
           ELSE /\ win \in gated /\ ~ \E c \in gated : Better(c, win, w)
                /\ Chosen(Voted(win, "yes"), w).id = win.id
                /\ \A c \in gated \ {win} : Chosen(Voted(c, "no"), w).id = win.id

\* The walk enters no node twice and only nodes that pass the gate, and when it
\* ends, it ends for a reason the caller can tell from the path.
WalkIsAPath ==
  LET last == walked[Len(walked)]
  IN  /\ \A i, j \in DOMAIN walked : walked[i] = walked[j] => i = j
      /\ \A i \in DOMAIN walked : i > 1 =>
           /\ PassesGate(nodes[walked[i]])
           /\ \E k \in DOMAIN children[walked[i - 1]] : children[walked[i - 1]][k] = walked[i]
      /\ mode = "done" /\ walked # <<>> /\ Len(walked) < room =>
           \/ ~ \E k \in DOMAIN children[last] : PassesGate(nodes[children[last][k]])
           \/ \E k \in DOMAIN children[last] : children[last][k] \in Visited

\* "it cannot overflow or panic on any input"
ScoringNeverPanics == mode # "panic"
=============================================================================
