------------------------------ MODULE MCHotSwap ------------------------------
(***************************************************************************)
(* Instance of HotSwap: an offer for each way a swap can end, which are    *)
(* bound, bound elsewhere, refused by the contract, and for want of an     *)
(* address.  The other refusals leave the same trap by the same stores.    *)
(***************************************************************************)
EXTENDS HotSwap

CONSTANTS add, cdecl, ii_i, dd_d, impl, impl11, stub

V(minor, state) ==
  [major |-> 1, minor |-> minor, patch |-> 0,
   majorState |-> state, minorState |-> state, patchState |-> state]

Export(shape, since, address) ==
  [symbol |-> add, sig |-> [cc |-> cdecl, shape |-> shape], since |-> since,
   address |-> address]

CallSite == Export(ii_i, V(1, Stable), NoAddress)

SwapOffers ==
  {Export(ii_i, V(1, Stable), NoAddress),
   Export(ii_i, V(1, Stable), impl),
   Export(ii_i, V(2, Stable), impl11),
   Export(dd_d, V(1, Stable), stub)}

SwapPolicies == {[arch |-> Arch64, mask |-> MaskStable]}
=============================================================================
