--------------------------- MODULE MCTridentGraph ---------------------------
(***************************************************************************)
(* Instances of TridentGraph.                                              *)
(*                                                                         *)
(* Graph: three nodes, good and bad offers, edges that include chains      *)
(* along and against the array order, a diamond, cycles and a NULL entry.  *)
(* Mixed: five nodes in two chains, both against the array order.          *)
(***************************************************************************)
EXTENDS TridentGraph

CONSTANTS add, mul, cdecl, stdcall, ii_i, dd_d, tooLong, impl, stub

V(major, minor, state) ==
  [major |-> major, minor |-> minor, patch |-> 0,
   majorState |-> state, minorState |-> state, patchState |-> state]

Sig(cc, shape) == [cc |-> cc, shape |-> shape]

Export(symbol, sig, since, address) ==
  [symbol |-> symbol, sig |-> sig, since |-> since, address |-> address]

\* The call site of tests/test_trident.c, and its providers.
Require == Export(add, Sig(cdecl, ii_i), V(1, 1, Stable), NoAddress)
Good    == Export(add, Sig(cdecl, ii_i), V(1, 1, Stable), impl)
Bad     == Export(add, Sig(cdecl, dd_d), V(1, 1, Stable), stub)

StablePolicy  == [arch |-> Arch64, mask |-> MaskStable]

OnlyStable == {StablePolicy}
Uniform    == [n \in Nodes |-> Require]

GraphOffers == {NoDesc, Good, Bad}
GraphDeps ==
  [n \in Nodes |-> CASE n = 1 -> {{2}, {2, 3}, {3}}
                     [] n = 2 -> {{3}, {1}}
                     [] OTHER -> {{1}, {NullDep}}]

MixedOffers == {Good, Bad}

\* A chain of 3 nodes and one of 2, both against the array order.
MixedDeps == [n \in Nodes |-> {IF n \in {3, 5} THEN {} ELSE {n + 1}}]
=============================================================================
