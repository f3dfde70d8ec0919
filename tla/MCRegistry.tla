------------------------------ MODULE MCRegistry ------------------------------
(***************************************************************************)
(* Instances of Registry.                                                  *)
(***************************************************************************)
EXTENDS Registry, TLC

CONSTANTS a1, a2, a3, b, add, mul, mathlib, cdecl, ii_i, dd_d, impl, impl32

V(major, minor, state) ==
  [major |-> major, minor |-> minor, patch |-> 0,
   majorState |-> state, minorState |-> state, patchState |-> state]

Export(symbol, shape, address) ==
  [symbol |-> symbol, sig |-> [cc |-> cdecl, shape |-> shape], since |-> V(1, 0, Stable),
   address |-> address]

\* Call sites of add, whose names are alike, and one of mul.
NeedAdd == Export(add, ii_i, NoAddress)
NeedMul == Export(mul, ii_i, NoAddress)
MCSlotNames == {a1, a2, a3, b}
MCCallSites == ({a1, a2, a3} \X {NeedAdd}) \union {<<b, NeedMul>>}
NamesAreAlike == Permutations({a1, a2, a3})

EveryEdge == (1 .. Capacity) \X (1 .. Capacity)
NoEdge    == {}

Release(arch, symbol, shape, address) ==
  [magic |-> TRUE, arch |-> arch, name |-> mathlib, version |-> V(1, 0, Stable),
   exports |-> [s \in Symbols |-> IF s = symbol THEN Export(symbol, shape, address) ELSE NoDesc],
   duplicates |-> FALSE]

AddAndMul == {Release(Arch64, add, ii_i, impl), Release(Arch64, add, dd_d, impl),
              Release(Arch64, mul, ii_i, impl)}
Foreign   == {Release(Arch32, add, ii_i, impl32)}
Withdraw   == {NoDesc}

Stable64      == [arch |-> Arch64, mask |-> MaskStable]
NoProfile     == [arch |-> 0, mask |-> MaskStable]
OnlyStable64  == {Stable64}
EveryPolicy   == {Stable64, NoProfile}
=============================================================================
