----------------------------- MODULE MCAlgorithms -----------------------------
(***************************************************************************)
(* Instances of Canon, VersionText, SelectGraph, Route, DynLoader, PyCall  *)
(* and ModuleInit.                                                         *)
(* They share nothing: a behaviour does the work of one of them, on an     *)
(* input chosen at the start, and the others are idle.                     *)
(***************************************************************************)
EXTENDS Canon, VersionText, SelectGraph, DynLoader, PyCall, ModuleInit

vars == <<canonVars, given, call, graphVars, loaderVars, routeVars, importVars>>

-----------------------------------------------------------------------------
(* Exports: every kind of type, nested up to MaxDepth and one beyond, in   *)
(* each of its malformed forms, as result, argument and field.             *)

Scalar(code) == [NullType EXCEPT !.code = code]

Aggregate(code, size, align, fields) ==
  [code |-> code, size |-> size, align |-> align, nfields |-> Len(fields), fields |-> fields]

I32  == Scalar("I32")
F64  == Scalar("F64")
Pair == Aggregate("Struct", 16, 8, <<I32, F64>>)
Nest == Aggregate("Struct", 16, 8, <<Pair>>)

GoodTypes ==
  {I32, F64, [I32 EXCEPT !.size = 4], Pair, Nest, Aggregate("Enum", 4, 4, <<>>),
   [Pair EXCEPT !.size = 12, !.align = 4], [Pair EXCEPT !.code = "Union"],
   [Pair EXCEPT !.size = 1, !.align = 16]}

BadTypes ==
  {NullType, Scalar("Quad"), [I32 EXCEPT !.nfields = 1, !.fields = <<F64>>],
   [I32 EXCEPT !.fields = <<F64>>],
   [Pair EXCEPT !.size = 0], [Pair EXCEPT !.align = 0], [Pair EXCEPT !.fields = <<>>],
   [Pair EXCEPT !.fields = <<I32, NullType>>], Aggregate("Struct", 16, 8, <<Nest>>)}

Sig(cc, ret, args, variadic) ==
  [cc |-> cc, ret |-> ret, nargs |-> Len(args), args |-> args, variadic |-> variadic]

ArgLists ==
  {<<>>, <<Scalar("Void")>>, <<I32, I32, I32>>}
  \union {<<t>> : t \in GoodTypes \union BadTypes}
  \union {<<t, u>> : t, u \in {I32, F64, Pair}}

Signatures ==
  {Sig(cc, ret, args, FALSE) :
     cc \in {"Cdecl", "Stdcall"}, ret \in {I32, Scalar("Void"), Pair}, args \in ArgLists}
  \union {Sig("Cdecl", ret, <<>>, v) : ret \in GoodTypes \union BadTypes, v \in BOOLEAN}
  \union {Sig("Regparm", I32, <<>>, FALSE), NullSig,
          [Sig("Cdecl", I32, <<>>, FALSE) EXCEPT !.nargs = 1]}

MCExports ==
  {[symbol |-> "add", sig |-> s, arch |-> 64] : s \in Signatures}
  \union {[symbol |-> n, sig |-> Sig("Cdecl", r, <<>>, FALSE), arch |-> a] :
            n \in {"", "ad"}, a \in {0, 32, 64}, r \in GoodTypes}

TableExports ==
  {[symbol |-> n, sig |-> Sig("Cdecl", r, <<>>, FALSE), arch |-> 0] :
     n \in {"add", "mul"}, r \in {I32, F64, NullType}}

MCTables ==
  {[name |-> n, arch |-> a, version |-> v, exports |-> es] :
     n \in {"m", "m|A=64"}, a \in {32, 64},
     v \in {"1.stable.0.stable.0.stable", "1.stable.0.stable.0.beta"},
     es \in UNION {[1 .. k -> TableExports] : k \in 0 .. 2}}

-----------------------------------------------------------------------------
(* Version texts: numbers at the limits of 16 bits and of five digits,     *)
(* words missing, empty, unknown and left over.                            *)

MCNumerals ==
  [w \in {"0", "1", "2", "9", "65535", "65536", "00001", "000001", "99999"} |->
     CASE w = "0" -> 0 [] w = "2" -> 2 [] w = "9" -> 9 [] w = "65535" -> 65535
       [] w = "65536" -> 65536 [] w = "99999" -> 99999 [] OTHER -> 1]

MCSigned == [w \in {"+1", "+65535", "+65536"} |->
  CASE w = "+1" -> 1 [] w = "+65535" -> 65535 [] OTHER -> 65536]

Words == DOMAIN MCNumerals \union DOMAIN MCSigned \union {"", "1a"}

StateWords == {StateName[s] : s \in ValidStates} \union {"", "alpha"}

LongTexts ==
  {<<n1, s1, n2, s2, n3, "lts">> : n1 \in Words, s1 \in StateWords,
     n2 \in {"0", "65536", "+1"}, s2 \in {"beta", "Beta"}, n3 \in {"65535", "000001", ""}}

MCVersionTexts ==
  {[words |-> ws, channel |-> ""] :
     ws \in LongTexts \union {SubSeq(ws, 1, k) : ws \in LongTexts, k \in 1 .. 5}
            \union {Append(ws, "") : ws \in LongTexts}}
  \union {[words |-> <<n1, n2, "65535">>, channel |-> c] :
            n1 \in Words, n2 \in Words, c \in StateWords}

-----------------------------------------------------------------------------
(* Candidates: one with the best score and the wrong shape, ties in the    *)
(* score that the version or only the identifier breaks, no descriptor.    *)

CONSTANTS run, cdecl, shape, other, code

Ver(major, minor, state) ==
  [major |-> major, minor |-> minor, patch |-> 0,
   majorState |-> state, minorState |-> state, patchState |-> state]

Provided(s, v) ==
  [symbol |-> run, sig |-> [cc |-> cdecl, shape |-> s], since |-> v, address |-> code]

MCRequired == Provided(shape, Ver(1, 0, Stable))
MCPolicy   == [arch |-> Arch64, mask |-> MaskStable]
MCIds      == [broken |-> 1, early |-> 2, middle |-> 3, late |-> 4]

Tally(yes, no, nil) == [yes |-> yes, no |-> no, nil |-> nil]

Provider(id, s, v, artifact, votes) ==
  [id |-> id, version |-> v, artifact |-> artifact, votes |-> votes,
   export |-> IF s = NoDesc THEN NoDesc ELSE Provided(s, v)]

MCCandidates ==
  {Provider("broken", other, Ver(9, 9, Lts), 999, Tally(9, 0, 0)),
   Provider("early", shape, Ver(1, 0, Stable), 100, Tally(0, 0, 0)),
   Provider("middle", shape, Ver(1, 0, Lts), 100, Tally(0, 0, 1)),
   Provider("late", shape, Ver(1, 10, Stable), 20, Tally(65535, 2, 0))}

Weights(c, a, s) == [consensus |-> c, artifact |-> a, semver |-> s]

MCWeightSets == {Weights(10, 0, 0), Weights(1, 0, 0)}

\* The code compares the sum with 10.
PanickingWeights == {Weights(15, 1, 10)}

-----------------------------------------------------------------------------
(* Graphs of three modules, and calls of the pathfinder on any graph.      *)

Entry(deps, cost, at) == [deps |-> deps, cost |-> cost, at |-> at]

\* A module named like the start of every route, at each place of the file.
Named(at, deps, da, db) ==
  (Root :> Entry(deps, 1, at)) @@ ("a" :> Entry(da, 1, 2)) @@ ("b" :> Entry(db, 1, 4))

MCManifests ==
  {("a" :> Entry(da, 1, 1)) @@ ("b" :> Entry(db, cb, 2)) @@ ("c" :> Entry(dc, 2, 3)) :
     da \in {<<>>, <<"b">>}, db \in {<<>>, <<"a">>, <<"c", "a">>}, cb \in {0, 3, NaN},
     dc \in {<<>>, <<"a", "b">>, <<"c">>}}
  \union {Named(at, deps, da, db) :
            at \in {1, 3, 5}, deps \in {<<>>, <<"b">>}, da \in {<<>>, <<Root>>},
            db \in {<<>>, <<"a">>, <<"a", Root>>}}
  \union {("a" :> Entry(<<>>, 1, 1)) @@ ("b" :> Entry(<<"a">>, -1, 2)),
          ("a" :> Entry(<<>>, 1, 1)) @@ ("b" :> Entry(<<"z">>, 1, 2))}

Weighted == {-1, 0, 1, 3, Infinity, NaN}

EdgeList(f) == SetToSeq({[to |-> n, weight |-> f[n]] : n \in DOMAIN f})

EdgesTo(heads, costs) == UNION {[ns -> costs] : ns \in SUBSET heads}

MCGraphs ==
  {(Root :> EdgeList(fr)) @@ ("a" :> EdgeList(fa)) @@ ("b" :> EdgeList(fb)) :
     fr \in EdgesTo({"a", "b"}, Weighted), fa \in EdgesTo({"b"}, Weighted),
     fb \in EdgesTo({Root, "a"}, {1})}

RouteCalled ==
  /\ graph \in MCGraphs /\ target \in {"a", "b", "z"}
  /\ distance = NoGraph /\ previous = NoGraph /\ pending = {} /\ path = <<>>
  /\ current = Root /\ phase = "called"

NoManifest == CHOOSE m \in MCManifests : TRUE

LoaderOff ==
  /\ asked = MaxRequests /\ manifest = NoManifest
  /\ waiting = <<>> /\ stdin = <<>> /\ stdout = <<>>
  /\ serving = Nobody /\ toLoad = <<>> /\ came = <<>> /\ handles = {}

-----------------------------------------------------------------------------

(* Calls of up to four arguments, by position and by name; "1" stands for  *)
(* a key that is no string.                                                *)

Values == {"dict", "str", "None", "int"}

ByNames == {[name |-> n, value |-> v] : n \in {"graph", "start", "target", "1"}, v \in Values}

MCCalls ==
  {[pos |-> p, kw |-> k] :
     p \in {SubSeq(<<a, "str", "str", "str">>, 1, n) : a \in Values, n \in 0 .. 4},
     k \in {x \in UNION {[1 .. n -> ByNames] : n \in 0 .. 3} :
              \A i, j \in DOMAIN x : x[i].name = x[j].name => i = j}}

-----------------------------------------------------------------------------

\* Two threads of one interpreter and one of another.
MCInterpreterOf == ("one" :> 1) @@ ("two" :> 1) @@ ("three" :> 2)

-----------------------------------------------------------------------------

Computing ==
  \/ CanonInit /\ TextIdle /\ CallIdle /\ GraphIdle /\ RouteIdle /\ LoaderOff
  \/ CanonIdle /\ TextInit /\ CallIdle /\ GraphIdle /\ RouteIdle /\ LoaderOff
  \/ CanonIdle /\ TextIdle /\ CallInit /\ GraphIdle /\ RouteIdle /\ LoaderOff
  \/ CanonIdle /\ TextIdle /\ CallIdle /\ GraphInit /\ RouteIdle /\ LoaderOff
  \/ CanonIdle /\ TextIdle /\ CallIdle /\ GraphIdle /\ RouteCalled /\ LoaderOff
  \/ CanonIdle /\ TextIdle /\ CallIdle /\ GraphIdle /\ LoaderInit

Init ==
  \/ Computing /\ ImportIdle
  \/ /\ CanonIdle /\ TextIdle /\ CallIdle /\ GraphIdle /\ RouteIdle /\ LoaderOff
     /\ ImportInit

Next ==
  \/ PutPiece /\ UNCHANGED <<given, call, graphVars, loaderVars, routeVars, importVars>>
  \/ GraphNext /\ UNCHANGED <<canonVars, given, call, loaderVars, routeVars, importVars>>
  \/ LoaderNext /\ UNCHANGED <<canonVars, given, call, graphVars, importVars>>
  \/ /\ shared # NoTypes /\ ImportNext
     /\ UNCHANGED <<canonVars, given, call, graphVars, loaderVars, routeVars>>

Quiet == UNCHANGED <<canonVars, given, call, graphVars, importVars>>

\* The server process runs and the client's event loop turns.
Spec ==
  /\ Init /\ [][Next]_vars
  /\ WF_vars(ServerNext /\ Quiet) /\ WF_vars(Receive /\ Quiet)
=============================================================================
