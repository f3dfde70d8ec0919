------------------------------- MODULE SemVerX -------------------------------
(***************************************************************************)
(* The SemVerX version predicate (src/mmuko_semverx.c, semverx.rs).        *)
(*                                                                         *)
(* A version carries three numbers, and a lifecycle state for each of      *)
(* them.  A numeric field is a uint16_t; a state field is a uint8_t whose  *)
(* legal values are the five named states, and 0 marks the field invalid.  *)
(* The policy's state_mask bit set is the set of the states it admits.     *)
(***************************************************************************)
EXTENDS Naturals

Experimental == 1
Beta         == 2
Stable       == 3
Legacy       == 4
Lts          == 5

ValidStates == Experimental .. Lts

\* The masks of mmuko_semverx.h, as sets of states.
MaskStable  == {Stable, Lts}
MaskTesting == MaskStable \union {Beta}
MaskDev     == MaskTesting \union {Experimental}
MaskAny     == MaskDev \union {Legacy}

U16 == 0 .. 65535
U8  == 0 .. 255

Version == [major : U16, minor : U16, patch : U16,
            majorState : U8, minorState : U8, patchState : U8]

States(v) == {v.majorState, v.minorState, v.patchState}

Valid(v) == States(v) \subseteq ValidStates

(***************************************************************************)
(* Satisfies(required, provided, mask) is the result code: the checks in   *)
(* the order the code makes them.                                          *)
(***************************************************************************)
TooOld(required, provided) ==
  \/ provided.minor < required.minor
  \/ provided.minor = required.minor /\ provided.patch < required.patch

Satisfies(required, provided, mask) ==
  IF ~ (Valid(required) /\ Valid(provided)) THEN "E_MALFORMED"
  ELSE IF ~ (States(provided) \subseteq mask) THEN "E_STATE"
  ELSE IF required.major # provided.major THEN "E_MAJOR"
  ELSE IF required.majorState # provided.majorState THEN "E_STATE"
  ELSE IF TooOld(required, provided) THEN "E_TOO_OLD"
  ELSE "OK"
=============================================================================
