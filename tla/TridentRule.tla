----------------------------- MODULE TridentRule -----------------------------
(***************************************************************************)
(* One trident node and the consensus rule that decides it                 *)
(* (mmuko_trident_resolve of src/mmuko_trident.c; Trident::resolve of      *)
(* trident.rs takes the same decisions in the same order).                 *)
(*                                                                         *)
(* An export descriptor is a record [symbol, sig, since, address].  A sig  *)
(* is [cc, shape]: the calling convention, and all the rest of the machine *)
(* contract as one value.  BadShapes are the shapes the canonical encoder  *)
(* refuses (too many arguments, a void parameter, an unknown convention,   *)
(* an encoding longer than its buffer).                                    *)
(*                                                                         *)
(* The fingerprint is a 128-bit digest of the canonical text of symbol,    *)
(* profile and signature.  It is modelled by the triple it digests:        *)
(* collisions are outside the model, everything else about it is kept.     *)
(***************************************************************************)
EXTENDS SemVerX

CONSTANTS
  NoDesc,      \* the NULL descriptor pointer: nothing attached to a hook
  NoSymbol,    \* a NULL symbol
  NoSig,       \* a NULL signature
  NoAddress,   \* a NULL address
  Symbols,     \* symbol names
  CallConvs,   \* calling conventions
  Shapes,      \* machine contracts
  BadShapes,   \* those of them the encoder refuses
  Addresses,   \* code addresses a provider may export
  Trap,        \* the address of mmuko_trident_trap
  FpZero       \* MMUKO_FP_ZERO

Arch32   == 32
Arch64   == 64
Profiles == {Arch32, Arch64}

Sigs == [cc : CallConvs, shape : Shapes]

Descriptor ==
  [symbol  : Symbols \union {NoSymbol},
   sig     : Sigs \union {NoSig},
   since   : Version,
   address : Addresses \union {NoAddress}]

Fingerprint == Symbols \X Profiles \X Sigs

Policy == [arch : {0} \union Profiles, mask : SUBSET ValidStates]

ASSUME NullsAssumption ==
  /\ NoDesc \notin Descriptor
  /\ NoSymbol \notin Symbols
  /\ NoSig \notin Sigs
  /\ NoAddress \notin Addresses
  /\ Trap \notin Addresses \union {NoAddress}
  /\ FpZero \notin Fingerprint

ASSUME ShapesAssumption == BadShapes \subseteq Shapes

BindStates == {"UNRESOLVED", "BOUND", "FAULT"}

Faults == {"NONE", "MISSING", "ARCH", "CC", "FINGERPRINT", "VERSION", "STATE",
           "UPSTREAM", "MALFORMED"}

-----------------------------------------------------------------------------
(* The decision                                                            *)

\* mmuko_fp_export: MMUKO_FP_ZERO when the encoder refuses.
FpExport(d, arch) ==
  IF d.sig.shape \in BadShapes THEN FpZero ELSE <<d.symbol, arch, d.sig>>

WellFormed(d) == d.sig # NoSig /\ d.symbol # NoSymbol

\* Mutant: no containment check.
PrecheckIgnoringUpstream(u1, u2, pol, depsBound) ==
  IF u1 = NoDesc THEN "MALFORMED"
  ELSE IF ~ WellFormed(u1) THEN "MALFORMED"
  ELSE IF u2 = NoDesc THEN "MISSING"
  ELSE IF ~ WellFormed(u2) \/ u2.address = NoAddress THEN "MALFORMED"
  ELSE IF pol.arch \notin Profiles THEN "ARCH"
  ELSE IF u1.sig.cc # u2.sig.cc THEN "CC"
  ELSE "NONE"

\* The checks made before either hook is encoded, in the order of the code:
\* containment first, then the hooks, then the profile and the convention.
Precheck(u1, u2, pol, depsBound) ==
  IF ~ depsBound THEN "UPSTREAM"
  ELSE IF u1 = NoDesc THEN "MALFORMED"
  ELSE IF ~ WellFormed(u1) THEN "MALFORMED"
  ELSE IF u2 = NoDesc THEN "MISSING"
  ELSE IF ~ WellFormed(u2) \/ u2.address = NoAddress THEN "MALFORMED"
  ELSE IF pol.arch \notin Profiles THEN "ARCH"
  ELSE IF u1.sig.cc # u2.sig.cc THEN "CC"
  ELSE "NONE"

\* The rule proper: the fingerprints decide before any version is consulted.
Consensus(u1, u2, pol, fpReq, fpPrv) ==
  LET sv == Satisfies(u1.since, u2.since, pol.mask)
  IN  IF FpZero \in {fpReq, fpPrv} THEN "MALFORMED"
      ELSE IF fpReq # fpPrv THEN "FINGERPRINT"
      ELSE IF sv = "E_STATE" THEN "STATE"
      ELSE IF sv # "OK" THEN "VERSION"
      ELSE "NONE"

\* What one resolution computes in its locals before it publishes anything.
Verdict(u1, u2, pol, depsBound) ==
  LET early == Precheck(u1, u2, pol, depsBound)
      fpReq == IF early = "NONE" THEN FpExport(u1, pol.arch) ELSE FpZero
      fpPrv == IF fpReq = FpZero THEN FpZero ELSE FpExport(u2, pol.arch)
  IN  [fault |-> IF early = "NONE" THEN Consensus(u1, u2, pol, fpReq, fpPrv) ELSE early,
       fpReq |-> fpReq,
       fpPrv |-> fpPrv]

\* The two hooks and the policy agree, whatever the dependencies say.
Admits(u1, u2, pol) == Verdict(u1, u2, pol, TRUE).fault = "NONE"

-----------------------------------------------------------------------------
(* The node                                                                *)

Node ==
  [u1          : Descriptor \union {NoDesc},
   u2          : Descriptor \union {NoDesc},
   state       : BindStates,
   fault       : Faults,
   fpRequired  : Fingerprint \union {FpZero},
   fpProvided  : Fingerprint \union {FpZero},
   w           : Addresses \union {Trap},
   generation  : Nat]

InitNode(u1) ==
  [u1 |-> u1, u2 |-> NoDesc, state |-> "UNRESOLVED", fault |-> "NONE",
   fpRequired |-> FpZero, fpProvided |-> FpZero, w |-> Trap, generation |-> 0]

\* Mutant: a node that faults keeps the address it last published.
ResolveNodeKeepingSlot(t, pol, depsBound) ==
  LET v     == Verdict(t.u1, t.u2, pol, depsBound)
      binds == v.fault = "NONE"
  IN  [t EXCEPT !.fpRequired = v.fpReq,
                !.fpProvided = v.fpPrv,
                !.fault      = v.fault,
                !.generation = IF binds /\ t.state # "BOUND" THEN @ + 1 ELSE @,
                !.state      = IF binds THEN "BOUND" ELSE "FAULT",
                !.w          = IF binds THEN t.u2.address ELSE @]

\* Mutant: the fingerprints of an earlier resolution survive an early refusal.
ResolveNodeKeepingFingerprints(t, pol, depsBound) ==
  LET v     == Verdict(t.u1, t.u2, pol, depsBound)
      binds == v.fault = "NONE"
  IN  [t EXCEPT !.fpRequired = IF v.fpReq = FpZero THEN @ ELSE v.fpReq,
                !.fpProvided = IF v.fpPrv = FpZero THEN @ ELSE v.fpPrv,
                !.fault      = v.fault,
                !.generation = IF binds /\ t.state # "BOUND" THEN @ + 1 ELSE @,
                !.state      = IF binds THEN "BOUND" ELSE "FAULT",
                !.w          = IF binds THEN t.u2.address ELSE Trap]

\* Mutant: what is offered is published whatever the verdict.
ResolveNodePublishing(t, pol, depsBound) ==
  LET v     == Verdict(t.u1, t.u2, pol, depsBound)
      binds == v.fault = "NONE"
  IN  [t EXCEPT !.fpRequired = v.fpReq,
                !.fpProvided = v.fpPrv,
                !.fault      = v.fault,
                !.generation = IF binds /\ t.state # "BOUND" THEN @ + 1 ELSE @,
                !.state      = IF binds THEN "BOUND" ELSE "FAULT",
                !.w          = IF t.u2 = NoDesc THEN Trap ELSE t.u2.address]

ResolveNode(t, pol, depsBound) ==
  LET v     == Verdict(t.u1, t.u2, pol, depsBound)
      binds == v.fault = "NONE"
  IN  [t EXCEPT !.fpRequired = v.fpReq,
                !.fpProvided = v.fpPrv,
                !.fault      = v.fault,
                !.generation = IF binds /\ t.state # "BOUND" THEN @ + 1 ELSE @,
                !.state      = IF binds THEN "BOUND" ELSE "FAULT",
                !.w          = IF binds THEN t.u2.address ELSE Trap]

SwapNode(t, u2, pol, depsBound) ==
  ResolveNode([t EXCEPT !.u2 = u2], pol, depsBound)

\* mmuko_trident_address: what a conforming caller reads.
AddressOf(t) == IF t.state = "BOUND" THEN t.w ELSE NoAddress
=============================================================================
