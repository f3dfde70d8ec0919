------------------------------- MODULE Machine -------------------------------
(***************************************************************************)
(* The machine model phases 1 to 6 of the boot bring up                    *)
(* (src/boot/kernel.c): a memory of bytes, each with a ring of eight       *)
(* cubits.  Every phase treats the bytes one after the other and each of   *)
(* them alone, so a phase is a function of one byte.                       *)
(*                                                                         *)
(* The spin of a cubit is a number that is only printed: left out.         *)
(***************************************************************************)
EXTENDS Integers, SequencesExt

MemorySize == 16
ByteNumbers == 0 .. MemorySize - 1
Cubits == 0 .. 7

Undefined == "UNDEFINED"
Compass == <<"N", "NE", "E", "SE", "S", "SW", "W", "NW">>
Directions == Range(Compass) \union {Undefined}

CubitStates == {"UP", "DOWN", "CHARM", "STRANGE"}

\* raw_value as mmuko_system_init writes it.
RawValue(i) == (i * 17 + 42) % 256

-----------------------------------------------------------------------------
(* Phase 1                                                                 *)

Bit(value, i) == (value \div 2^i) % 2

\* The state of a cubit: its bit, and the next bit around the ring.
ResolveState(i, value) ==
  LET bit      == Bit(value, i)
      neighbor == Bit(value, (i + 1) % 8)
  IN  CASE bit = 1 /\ neighbor = 1 -> "UP"
        [] bit = 1 /\ neighbor = 0 -> "CHARM"
        [] bit = 0 /\ neighbor = 1 -> "STRANGE"
        [] bit = 0 /\ neighbor = 0 -> "DOWN"

NoPartner == -1
EntangledPairs == <<7, 6, 5, NoPartner, NoPartner, 2, 1, 0>>

InitCubitRing(value) ==
  [i \in Cubits |->
     [value         |-> Bit(value, i),
      direction     |-> Compass[i + 1],
      state         |-> ResolveState(i, value),
      entangledWith |-> EntangledPairs[i + 1],
      superposed    |-> EntangledPairs[i + 1] # NoPartner]]

Superposition ==
  [primary   |-> (12 :> "S" @@ 10 :> "SE" @@ 8 :> "E" @@ 6 :> "SW" @@ 4 :> "W" @@ 2 :> "NE" @@ 1 :> "N"),
   secondary |-> (12 :> "N" @@ 10 :> "N" @@ 8 :> "W" @@ 6 :> "E" @@ 4 :> "E" @@ 2 :> "W" @@ 1 :> "S")]

KnownBases == DOMAIN Superposition.primary

Distance(a, b) == IF a < b THEN b - a ELSE a - b

\* The nearest known base; of two equally near the search keeps the first of a
\* descending list, the larger.
RoundToKnownBase(base) ==
  Max({k \in KnownBases : \A j \in KnownBases : Distance(base, k) <= Distance(base, j)})

LookupSuperposition(base) ==
  LET known == IF base \in KnownBases THEN base ELSE RoundToKnownBase(base)
  IN  [primary |-> Superposition.primary[known], secondary |-> Superposition.secondary[known]]

CubitInit(byte) ==
  LET base  == (byte.raw % 12) + 1
      frame == LookupSuperposition(base)
  IN  [byte EXCEPT !.base = base, !.ring = InitCubitRing(byte.raw),
                   !.primary = frame.primary, !.secondary = frame.secondary]

-----------------------------------------------------------------------------
(* Phase 2                                                                 *)

\* The direction most frequent among the two neighbours, the left one first;
\* north when neither has one.
DirectionFromNeighbors(left, right) ==
  IF left # Undefined THEN left ELSE IF right # Undefined THEN right ELSE "N"

\* The cubits are aligned in place, so a neighbour may be aligned already.
CompassAlignment(byte) ==
  LET before(i) == byte.ring[i].direction
      aligned[i \in Cubits] ==
        LET left  == IF i = 0 THEN before(7) ELSE aligned[i - 1]
            right == IF i = 7 THEN aligned[0] ELSE before(i + 1)
        IN  IF before(i) # Undefined THEN before(i) ELSE DirectionFromNeighbors(left, right)
  IN  [byte EXCEPT !.ring = [i \in Cubits |-> [@[i] EXCEPT !.direction = aligned[i]]]]

Locked(byte) == \E i \in Cubits : byte.ring[i].direction = Undefined

-----------------------------------------------------------------------------
(* Phase 3                                                                 *)

Flip == [UP |-> "DOWN", DOWN |-> "UP", CHARM |-> "STRANGE", STRANGE |-> "CHARM"]

\* A partner found in the same state is turned over, in place.
TurnedOver(mine, partners) == IF mine = partners THEN Flip[partners] ELSE partners

\* Mutant: every cubit is compared with the ring as it was before the phase.
EntangledFromBefore(ring, i) ==
  LET p == ring[i].entangledWith
  IN  IF ring[i].superposed THEN TurnedOver(ring[p].state, ring[i].state) ELSE ring[i].state

\* The state of cubit i when all eight had their turn.  The lower cubit of a pair
\* has its turn first, and the upper one then looks back at a partner it differs
\* from or was just turned over by.
EntangledState(ring, i) ==
  LET p == ring[i].entangledWith
  IN  IF ~ ring[i].superposed THEN ring[i].state
      ELSE IF p < i THEN TurnedOver(ring[p].state, ring[i].state)
      ELSE TurnedOver(TurnedOver(ring[i].state, ring[p].state), ring[i].state)

Entangle(byte) ==
  [byte EXCEPT !.ring = [i \in Cubits |-> [@[i] EXCEPT !.state = EntangledState(byte.ring, i)]]]

-----------------------------------------------------------------------------
(* Phases 4, 5 and 6                                                       *)

FrameBase == 6

CenterFrame(byte) ==
  LET frame == LookupSuperposition(FrameBase)
  IN  [byte EXCEPT !.primary = frame.primary, !.secondary = frame.secondary]

\* The bases in boot_order are resolved one after the other, each for the bytes
\* that have it: a byte whose base is not a known one keeps the frame of phase 4.
ResolveBases(byte) ==
  IF byte.base \in KnownBases
  THEN [byte EXCEPT !.primary = Superposition.primary[byte.base],
                    !.secondary = Superposition.secondary[byte.base]]
  ELSE byte

\* The n low bits go round to the top.
RotateBits(value, n) ==
  LET k == n % 8 IN (value \div 2^k) + (value % 2^k) * 2^(8 - k)

RotatesFreely(byte) ==
  \A i \in Cubits : RotateBits(RotateBits(byte.ring[i].value, 4), 4) = byte.ring[i].value
=============================================================================
