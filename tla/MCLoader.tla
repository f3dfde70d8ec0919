------------------------------- MODULE MCLoader -------------------------------
(***************************************************************************)
(* Instances of Loader and AbiDump: the mathlib releases of                *)
(* tests/test_loader.c, a release that is not linked whole, and a later    *)
(* one under another name.                                                 *)
(***************************************************************************)
EXTENDS AbiDump, TLC

CONSTANTS m1, m2, c1, p, q, add, mul, mathlib, other, cdecl, ii_i, dd_d

V(major, minor, state) ==
  [major |-> major, minor |-> minor, patch |-> 0,
   majorState |-> state, minorState |-> state, patchState |-> state]

Export(symbol, shape, since) ==
  [symbol |-> symbol, sig |-> [cc |-> cdecl, shape |-> shape], since |-> since,
   address |-> NoAddress]

MathTable(version, addShape) ==
  [magic |-> TRUE, arch |-> Arch64, name |-> mathlib, version |-> version,
   exports |-> [s \in Symbols |-> IF s = add THEN Export(add, addShape, V(1, 0, Stable))
                                  ELSE Export(mul, ii_i, V(1, 0, Stable))],
   duplicates |-> FALSE]

\* A shape that appeared in a minor version that is still in beta.
Unproven == [V(1, 1, Stable) EXCEPT !.minorState = Beta]

Release(table, linked) == [query |-> TRUE, table |-> table, linked |-> linked]

MathContent ==
  [o \in Objects |->
     CASE o = "v1"       -> Release(MathTable(V(1, 0, Stable), ii_i), {add, mul})
       [] o = "v2"       -> Release(MathTable(V(2, 0, Beta), dd_d), {add, mul})
       [] o = "stripped" -> Release(MathTable(V(1, 0, Stable), ii_i), {mul})
       [] o = "bare"     -> [query |-> FALSE, table |-> NoTable, linked |-> {add, mul}]
       [] o = "foreign"  -> Release([MathTable(V(1, 0, Stable), ii_i) EXCEPT !.arch = Arch32],
                                    {add, mul})
       [] o = "corrupt"  -> Release([MathTable(V(1, 0, Stable), ii_i) EXCEPT !.duplicates = TRUE],
                                    {add, mul})
       [] o = "renamed"  -> Release([MathTable(V(1, 1, Stable), ii_i) EXCEPT
                                       !.name = other,
                                       !.exports[add].since = Unproven,
                                       !.exports[mul].since = V(1, 1, Stable)],
                                    {add, mul})]

Needs == <<Export(add, ii_i, V(1, 0, Stable)), Export(mul, ii_i, V(1, 0, Stable))>>

Ask(path, name, minVersion, required, quarantine) ==
  [path |-> path, name |-> name, minVersion |-> minVersion, required |-> required,
   policy |-> DefaultPolicy, quarantine |-> quarantine]

AnyVersion == V(0, 0, 0)

\* Sound for the invariants: the modules of an instance are treated alike.
ModuleSymmetry == Permutations(Modules)

\* Bound: what a caller remembers is the address of a first slot.
FirstSlotsRemembered == \A c \in Callers : cache[c] # NoCache => cache[c].slot = 1

MCAddresses == Handles \X Symbols
MCPolicies  == {DefaultPolicy}

AllRequests ==
  {Ask(p, NoName, AnyVersion, Needs, FALSE), Ask(p, mathlib, V(1, 0, Stable), Needs, TRUE),
   Ask(q, NoName, AnyVersion, Needs \o Needs, FALSE)}

SingleRequests == {Ask(p, NoName, AnyVersion, Needs, FALSE)}
=============================================================================
