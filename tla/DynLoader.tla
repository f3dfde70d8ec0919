------------------------------- MODULE DynLoader -------------------------------
(***************************************************************************)
(* The dynamic loader demo: a Node client (loader-client.mjs) asks a       *)
(* Python server (server.py, runtime.py) for modules, one line a request,  *)
(* over the pipes of the server's process.                                 *)
(*                                                                         *)
(* A manifest maps modules to [deps, cost, at], where at is the place of   *)
(* the module in the file.  A module may be named "@root", the name the    *)
(* graph has for the start of every route.  What a library or a script is  *)
(* found to be, when it is verified and opened, is a choice: the files may *)
(* change between two requests.                                            *)
(***************************************************************************)
EXTENDS Route, SequencesExt

CONSTANTS
  Manifests,
  Requested,     \* modules a client asks for
  MaxRequests,   \* bound on the requests of a behaviour
  Nobody         \* the server is between two requests

\* A manifest is JSON: finitely many modules, one after the other, each with a
\* number for its cost.
ASSUME ManifestAssumption ==
  \A m \in Manifests :
    /\ IsFiniteSet(DOMAIN m)
    /\ \A x \in DOMAIN m : m[x].cost \in Costs /\ m[x].at \in Int
    /\ \A x, y \in DOMAIN m : m[x].at = m[y].at => x = y

ASSUME RequestedAssumption == Nobody \notin Requested

VARIABLES
  manifest,
  asked,         \* requests made so far, up to MaxRequests
  waiting,       \* modules whose promises are pending, in the order of the calls
  stdin,         \* requests on their way
  stdout,        \* answers on their way, [module, ok, route]
  serving,       \* the module the server is loading
  toLoad,        \* the rest of its route
  came,          \* and the route
  handles        \* modules whose libraries are cached

loaderVars == <<manifest, asked, waiting, stdin, stdout, serving, toLoad, came, handles>>

LoaderIdle ==
  /\ RouteIdle
  /\ asked = 0 /\ waiting = <<>> /\ stdin = <<>> /\ stdout = <<>>
  /\ serving = Nobody /\ toLoad = <<>> /\ came = <<>> /\ handles = {}

LoaderInit == LoaderIdle /\ manifest \in Manifests

-----------------------------------------------------------------------------
(* The client                                                              *)

\* resolve
Ask(module) ==
  /\ asked < MaxRequests
  /\ asked' = asked + 1
  /\ waiting' = Append(waiting, module)
  /\ stdin' = Append(stdin, module)
  /\ UNCHANGED <<manifest, stdout, serving, toLoad, came, handles, routeVars>>

\* The line handler: the oldest promise is given the oldest answer.
Receive ==
  /\ stdout # <<>>
  /\ waiting' = Tail(waiting) /\ stdout' = Tail(stdout)
  /\ UNCHANGED <<manifest, asked, stdin, serving, toLoad, came, handles, routeVars>>

-----------------------------------------------------------------------------
(* The server                                                              *)

DepsOf(m) == {manifest[m].deps[i] : i \in DOMAIN manifest[m].deps}

EdgeTo(m) == [to |-> m, weight |-> manifest[m].cost]

\* The modules without dependencies that the start keeps an edge to: a module of
\* its name is given a new list of edges, and those listed before it lose theirs.
FromStart(m) ==
  DepsOf(m) = {} /\ (Root \in DOMAIN manifest => manifest[m].at >= manifest[Root].at)

\* _graph: from every dependency to the module that has it, and from @root to the
\* modules without dependencies, at the cost of the module reached.
GraphOf ==
  [n \in DOMAIN manifest \union {Root} |->
     LET after == {m \in DOMAIN manifest : n \in DepsOf(m) \/ (n = Root /\ FromStart(m))}
     IN  SetToSeq({EdgeTo(m) : m \in after})]

GraphIsSound == \A m \in DOMAIN manifest : DepsOf(m) \subseteq DOMAIN manifest

\* The server prints the outcome and forgets the request; handles stay cached.
Answer(ok) ==
  /\ stdout' = Append(stdout, [module |-> serving, ok |-> ok, route |-> came])
  /\ serving' = Nobody /\ toLoad' = <<>> /\ came' = <<>>

ForgetCall ==
  /\ graph' = NoGraph /\ distance' = NoGraph /\ previous' = NoGraph
  /\ target' = Root /\ current' = Root
  /\ pending' = {} /\ path' = <<>>
  /\ phase' = "idle"

\* The loop over the lines, and load up to the call of shortest_path.
Serve ==
  /\ serving = Nobody /\ stdin # <<>>
  /\ serving' = Head(stdin) /\ stdin' = Tail(stdin)
  /\ IF Head(stdin) \in DOMAIN manifest /\ GraphIsSound
     THEN /\ graph' = GraphOf /\ target' = Head(stdin) /\ phase' = "called"
          /\ UNCHANGED <<distance, previous, pending, current, path>>
     ELSE phase' = "LoaderError"
          /\ UNCHANGED <<graph, target, distance, previous, pending, current, path>>
  /\ UNCHANGED <<manifest, asked, waiting, stdout, toLoad, came, handles>>

Raised == phase \in {"LoaderError", "KeyError", "ValueError"}

\* except Exception
Refuse ==
  /\ serving # Nobody /\ Raised
  /\ Answer(FALSE) /\ ForgetCall
  /\ UNCHANGED <<manifest, asked, waiting, stdin, handles>>

\* The route without its start.
TakeRoute ==
  /\ serving # Nobody /\ phase = "returned"
  /\ came' = Tail(path) /\ toLoad' = Tail(path)
  /\ ForgetCall
  /\ UNCHANGED <<manifest, asked, waiting, stdin, stdout, serving, handles>>

\* Mutant: the library of the module asked for is loaded first.
LoadNextFromTheEnd ==
  /\ serving # Nobody /\ toLoad # <<>>
  /\ LET m == toLoad[Len(toLoad)]
     IN  \/ /\ handles' = handles \union {m}
            /\ toLoad' = SubSeq(toLoad, 1, Len(toLoad) - 1)
            /\ UNCHANGED <<stdout, serving, came>>
         \/ /\ m \notin handles /\ Answer(FALSE) /\ UNCHANGED handles
  /\ UNCHANGED <<manifest, asked, waiting, stdin, routeVars>>

\* _load_dll: a cached library is not looked at again; any other is opened, or
\* fails to verify, to open or to have what its exports name.
LoadNext ==
  /\ serving # Nobody /\ toLoad # <<>>
  /\ \/ /\ handles' = handles \union {Head(toLoad)}
        /\ toLoad' = Tail(toLoad)
        /\ UNCHANGED <<stdout, serving, came>>
     \/ /\ Head(toLoad) \notin handles /\ Answer(FALSE) /\ UNCHANGED handles
  /\ UNCHANGED <<manifest, asked, waiting, stdin, routeVars>>

\* The script is verified last, and the request answered, also when the route is
\* empty.
Script ==
  /\ serving # Nobody /\ phase = "idle" /\ toLoad = <<>>
  /\ \E sound \in BOOLEAN : Answer(sound)
  /\ UNCHANGED <<manifest, asked, waiting, stdin, handles, routeVars>>

Routing == RouteNext /\ UNCHANGED loaderVars

ServerNext == Serve \/ Refuse \/ TakeRoute \/ LoadNext \/ Script \/ Routing

LoaderNext == (\E m \in Requested : Ask(m)) \/ Receive \/ ServerNext

-----------------------------------------------------------------------------
(* Properties                                                              *)

Unanswered == IF serving = Nobody THEN stdin ELSE <<serving>> \o stdin

\* The library of a module named "@root" is never opened, and counts as cached.
Grounded(m) == DepsOf(m) = {} \/ DepsOf(m) \cap (handles \union {Root}) # {}

IsGranted(answer) ==
  /\ IF answer.module = Root THEN answer.route = <<>>
     ELSE answer.route # <<>> /\ answer.route[Len(answer.route)] = answer.module
  /\ \A k \in DOMAIN answer.route : answer.route[k] \in handles

\* The client gives an answer to the oldest promise, whatever it says: the answers
\* printed, the request served and those to be read are the promises pending, in
\* their order.  A request is granted only with every library of its route cached,
\* the one asked for among them; only a module named "@root" is granted without
\* any library, its own not even opened.  And whatever failed before, a library is
\* cached only if it depends on nothing, on a module named "@root", or on one that
\* was cached before it.
AnswersMatchRequests ==
  /\ waiting = [i \in DOMAIN stdout |-> stdout[i].module] \o Unanswered
  /\ \A i \in DOMAIN stdout : stdout[i].ok => IsGranted(stdout[i])
  /\ \A m \in handles : Grounded(m)

\* The server answers whatever it is asked: no graph and no failure keeps a
\* promise pending forever.
EveryRequestIsAnswered == waiting # <<>> ~> waiting = <<>>
=============================================================================
