------------------------------ MODULE BootProofs ------------------------------
(***************************************************************************)
(* Theorems about the two ring 0 images, for every table of kernel         *)
(* services, everything they may print, every screen and either profile.   *)
(***************************************************************************)
EXTENDS Images, TridentRuleProofs

-----------------------------------------------------------------------------
(* The contracts the images are compiled with                              *)

LEMMA ContractsAreDescriptors ==
  /\ {ReqAdd, ReqMul, ProvAdd, ProvAddBad, ProvMul} \subseteq Descriptor
  /\ \A d \in {ReqAdd, ReqMul, ProvAdd, ProvAddBad, ProvMul} : d # NoDesc /\ WellFormed(d)
  /\ DefaultPolicy \in Policy
<1>1. V1 \in Version /\ V2X \in Version
  <2>1. {0, 1, 2} \subseteq U16 /\ {Experimental, Stable} \subseteq U8
    BY DEF U16, U8, Experimental, Stable
  <2>2. QED
    BY <2>1 DEF V1, V2X, Version
<1>2. {"add", "mul"} \subseteq Symbols /\ {"add_i32", "mul_i32", "add_f64_stub"} \subseteq Addresses
  BY ImageAssumption, ContractsAssumption, BootAssumption
<1>3. \A shape \in {"ii_i", "dd_d"} : [cc |-> "cdecl", shape |-> shape] \in Sigs
  BY ContractsAssumption DEF Sigs
<1>4. ASSUME NEW symbol \in {"add", "mul"}, NEW shape \in {"ii_i", "dd_d"}, NEW since \in Version,
             NEW address \in Addresses \union {NoAddress}
      PROVE  Export(symbol, shape, since, address) \in Descriptor
             /\ WellFormed(Export(symbol, shape, since, address))
  BY <1>2, <1>3, NullsAssumption DEF Export, Descriptor, WellFormed
<1>5. /\ {ReqAdd, ReqMul, ProvAdd, ProvAddBad, ProvMul} \subseteq Descriptor
      /\ \A d \in {ReqAdd, ReqMul, ProvAdd, ProvAddBad, ProvMul} : WellFormed(d)
  BY <1>1, <1>2, <1>4 DEF ReqAdd, ReqMul, ProvAdd, ProvAddBad, ProvMul
<1>6. DefaultPolicy \in Policy
  BY ImageAssumption DEF DefaultPolicy, Policy, MaskStable, ValidStates, Stable, Lts, Experimental
<1>7. QED
  BY <1>5, <1>6, NullsAssumption

\* What the rule says of them.
LEMMA ContractsAgree ==
  /\ Verdict(ReqAdd, ProvAdd, DefaultPolicy, TRUE).fault = "NONE"
  /\ Verdict(ReqMul, ProvMul, DefaultPolicy, TRUE).fault = "NONE"
  /\ Verdict(ReqAdd, ProvAddBad, DefaultPolicy, TRUE).fault = "FINGERPRINT"
  /\ FpExport(ReqAdd, Native) # FpZero
<1>1. /\ DefaultPolicy.arch = Native /\ Native \in Profiles /\ DefaultPolicy.mask = MaskStable
  BY ImageAssumption DEF DefaultPolicy
<1>2. /\ {"ii_i", "dd_d"} \intersect BadShapes = {} /\ "add_i32" # NoAddress /\ "mul_i32" # NoAddress
      /\ "add_f64_stub" # NoAddress
  BY ContractsAssumption, BootAssumption, NullsAssumption
<1>3. /\ FpExport(ReqAdd, Native) = <<"add", Native, [cc |-> "cdecl", shape |-> "ii_i"]>>
      /\ FpExport(ProvAdd, Native) = <<"add", Native, [cc |-> "cdecl", shape |-> "ii_i"]>>
      /\ FpExport(ReqMul, Native) = <<"mul", Native, [cc |-> "cdecl", shape |-> "ii_i"]>>
      /\ FpExport(ProvMul, Native) = <<"mul", Native, [cc |-> "cdecl", shape |-> "ii_i"]>>
      /\ FpExport(ProvAddBad, Native) = <<"add", Native, [cc |-> "cdecl", shape |-> "dd_d"]>>
  BY <1>2 DEF FpExport, ReqAdd, ReqMul, ProvAdd, ProvMul, ProvAddBad, Export
<1>4. /\ <<"add", Native, [cc |-> "cdecl", shape |-> "ii_i"]>> \in Fingerprint
      /\ <<"mul", Native, [cc |-> "cdecl", shape |-> "ii_i"]>> \in Fingerprint
      /\ <<"add", Native, [cc |-> "cdecl", shape |-> "dd_d"]>> \in Fingerprint
  BY ImageAssumption, ContractsAssumption DEF Fingerprint, Sigs
<1>5. /\ FpExport(ReqAdd, Native) # FpZero /\ FpExport(ReqMul, Native) # FpZero
      /\ FpExport(ProvAddBad, Native) # FpZero
  BY <1>3, <1>4, NullsAssumption
<1>6. FpExport(ReqAdd, Native) # FpExport(ProvAddBad, Native)
  <2>1. [cc |-> "cdecl", shape |-> "ii_i"] # [cc |-> "cdecl", shape |-> "dd_d"]
    <3>1. [cc |-> "cdecl", shape |-> "ii_i"].shape # [cc |-> "cdecl", shape |-> "dd_d"].shape
      OBVIOUS
    <3>2. QED
      BY <3>1
  <2>2. QED
    BY <1>3, <2>1
<1>7. /\ Precheck(ReqAdd, ProvAdd, DefaultPolicy, TRUE) = "NONE"
      /\ Precheck(ReqMul, ProvMul, DefaultPolicy, TRUE) = "NONE"
      /\ Precheck(ReqAdd, ProvAddBad, DefaultPolicy, TRUE) = "NONE"
  <2>1. /\ ReqAdd.sig.cc = "cdecl" /\ ReqMul.sig.cc = "cdecl" /\ ProvAdd.sig.cc = "cdecl"
        /\ ProvMul.sig.cc = "cdecl" /\ ProvAddBad.sig.cc = "cdecl"
        /\ ProvAdd.address = "add_i32" /\ ProvMul.address = "mul_i32"
        /\ ProvAddBad.address = "add_f64_stub"
    BY DEF ReqAdd, ReqMul, ProvAdd, ProvMul, ProvAddBad, Export
  <2>2. QED
    BY <1>1, <1>2, <2>1, ContractsAreDescriptors DEF Precheck
<1>8. Satisfies(V1, V1, MaskStable) = "OK"
  <2>1. V1 \in Version /\ MaskStable \in SUBSET ValidStates /\ States(V1) \subseteq MaskStable
    BY DEF V1, Version, U16, U8, States, MaskStable, ValidStates, Stable, Lts, Experimental
  <2>2. QED
    BY <2>1, SatisfiesReflexive
<1>9. ReqAdd.since = V1 /\ ProvAdd.since = V1 /\ ReqMul.since = V1 /\ ProvMul.since = V1
  BY DEF ReqAdd, ProvAdd, ReqMul, ProvMul, Export
<1>10. Verdict(ReqAdd, ProvAdd, DefaultPolicy, TRUE).fault = "NONE"
  BY <1>1, <1>3, <1>5, <1>7, <1>8, <1>9 DEF Verdict, Consensus
<1>11. Verdict(ReqMul, ProvMul, DefaultPolicy, TRUE).fault = "NONE"
  BY <1>1, <1>3, <1>5, <1>7, <1>8, <1>9 DEF Verdict, Consensus
<1>12. Verdict(ReqAdd, ProvAddBad, DefaultPolicy, TRUE).fault = "FINGERPRINT"
  BY <1>1, <1>5, <1>6, <1>7 DEF Verdict, Consensus
<1>13. QED
  BY <1>5, <1>10, <1>11, <1>12

LEMMA Contained ==
  ASSUME NEW u1, NEW u2, NEW pol
  PROVE  Verdict(u1, u2, pol, FALSE).fault = "UPSTREAM"
BY DEF Verdict, Precheck

-----------------------------------------------------------------------------
(* The invariant: where the processor may be, and what is true there       *)

BeforeServices == {"start", "phase 0", "phase 1", "phase 2", "phase 3", "phase 4", "phase 6", "services"}
Runs           == {"run up", "run broken", "run healed"}
AfterSelfTest  == {"proved", "complete", "ready", "program"}
Verified       == {"bring up", "break", "heal"} \union Runs \union AfterSelfTest

Located ==
  \/ image = "boot" /\ at \in BeforeServices \union {"bind", "failed", "halted"} \union Verified
  \/ image = "qemu" /\ at \in Runs \union {"start", "agree", "disagree", "call", "heal", "chain",
                                           "report", "exit", "halted"}

OnScreen == cursor \in [row : 0 .. VgaHeight - 1, col : 0 .. VgaWidth - 1]

\* The memory: every direction is defined, so that phase 2 has nothing to lock.
Cubit ==
  [value : {0, 1}, direction : Directions \ {Undefined}, state : CubitStates,
   entangledWith : Int, superposed : BOOLEAN]

Byte(frames) ==
  [raw : 0 .. 255, base : Nat, primary : frames, secondary : frames, ring : [Cubits -> Cubit]]

IsByte(byte) == \E frames : byte \in Byte(frames)

Paired(ring) ==
  \A i \in Cubits : /\ ring[i].entangledWith = EntangledPairs[i + 1]
                    /\ ring[i].superposed <=> EntangledPairs[i + 1] # NoPartner

\* Before the rings are made, and while their pairs may be in one state.
Unpaired    == {"start", "phase 0", "phase 1"}
Unentangled == Unpaired \union {"phase 2", "phase 3", "halted"}

MemoryInv ==
  /\ sys = [memory |-> sys.memory, complete |-> sys.complete]
  /\ sys.memory = [i \in ByteNumbers |-> sys.memory[i]]
  /\ \A i \in ByteNumbers : IsByte(sys.memory[i])
  /\ image = "boot" /\ at \notin Unpaired => \A i \in ByteNumbers : Paired(sys.memory[i].ring)
  /\ image = "boot" /\ at \notin Unentangled => \A i \in ByteNumbers : PairsDiffer(sys.memory[i])

\* The kernel services: nothing of them is published before both are bound, and a
\* slot is nothing but the rule applied to what the table offers.
ServiceNode(i) ==
  SwapNode(InitNode(Services[i]), Find(ksvc, Services[i].symbol), DefaultPolicy, TRUE)

UpWithServices == at \in Verified \/ (at = "halted" /\ sys.complete)

ServiceInv ==
  /\ ksvc \in Tables
  /\ service = [i \in 1 .. Len(service) |-> ServiceNode(i)]
  /\ Len(service) \in 0 .. 2
  /\ service # <<>> => Validate(ksvc, Native) = "OK"
  /\ at \in BeforeServices => service = <<>>
  /\ sys.complete \in BOOLEAN
  /\ sys.complete => at \in {"ready", "program", "halted"}
  /\ at \in {"ready", "program"} => sys.complete
  /\ at = "bind" => Validate(ksvc, Native) = "OK"
  /\ at = "bind" \/ UpWithServices =>
       \A i \in DOMAIN service : service[i].state = "BOUND"
  /\ IF UpWithServices
     THEN /\ TableServes /\ status = "OK"
          /\ Len(service) = 2 /\ P = service[1].w /\ H = service[2].w
     ELSE /\ P = NoAddress /\ H = NoAddress
          /\ IF at \in {"failed", "halted"} THEN ~ TableServes /\ status # "OK"
             ELSE status = "OK"
  /\ ok = TRUE
  /\ at \in {"run broken", "heal", "run healed"} => genBefore = 1

\* The chain of nodes, in the stages of the self-test.
ChainLength == IF image = "boot" THEN 2 ELSE 3

Chained == 1 .. ChainLength

\* The chain of two has `add` and `mul`, the chain of three only `add`.
ChainReq(len, k)  == IF len = 2 /\ k = 2 THEN ReqMul ELSE ReqAdd
ChainProv(len, k) == IF len = 2 /\ k = 2 THEN ProvMul ELSE ProvAdd

Stage ==
  IF at \in {"run up", "break"} THEN "up"
  ELSE IF at = "run broken" \/ (image = "boot" /\ at = "heal") THEN "broken"
  ELSE IF \/ at \in {"run healed", "report", "exit"} \union AfterSelfTest
          \/ at = "halted" /\ (image = "qemu" \/ sys.complete)
       THEN "healed"
  ELSE "none"

Hooked(len, k, n, s) ==
  /\ n \in Node
  /\ n.u1 = ChainReq(len, k)
  /\ n.u2 = IF k = 1 /\ s = "broken" THEN ProvAddBad ELSE ChainProv(len, k)
  /\ n.w \in {Trap, "add_i32", "mul_i32"}

\* A node before a run and after it.
BeforeRun(n, s) ==
  \/ s = "up"     /\ n.state = "UNRESOLVED" /\ n.generation = 0
  \/ s = "broken" /\ n.state = "BOUND" /\ n.generation = 1
  \/ s = "healed" /\ n.state = "FAULT" /\ n.generation = 1

AfterRun(len, k, n, s) ==
  IF s = "broken"
  THEN /\ n.state = "FAULT" /\ n.w = Trap /\ n.generation = 1
       /\ n.fault = IF k = 1 THEN "FINGERPRINT" ELSE "UPSTREAM"
  ELSE /\ n.state = "BOUND" /\ n.w = ChainProv(len, k).address
       /\ n.generation = IF s = "up" THEN 1 ELSE 2

Binding(s, count) == IF s = "broken" THEN 0 ELSE count

InRun ==
  /\ policy = DefaultPolicy
  /\ pass \in 0 .. 1
  /\ next \in 1 .. ChainLength + 1
  /\ bound = Binding(Stage, next - 1)
  /\ prevBound = IF pass = 0 THEN -1 ELSE Binding(Stage, ChainLength)
  /\ \A k \in Chained :
       IF k < next \/ pass = 1 THEN AfterRun(ChainLength, k, trident[k], Stage) ELSE BeforeRun(trident[k], Stage)

ChainInv ==
  /\ Stage = "none" => trident = <<>> /\ pc = "idle"
  /\ Stage # "none" =>
       /\ trident \in [Chained -> Node]
       /\ deps = [n \in Chained |-> IF n = 1 THEN {} ELSE {n - 1}]
       /\ \A k \in Chained : Hooked(ChainLength, k, trident[k], Stage)
       /\ pc \in {"idle", "pass", "returned"}
       /\ pc = "idle" => \A k \in Chained : BeforeRun(trident[k], Stage)
       /\ pc = "pass" => InRun
       /\ pc = "returned" =>
            /\ bound = Binding(Stage, ChainLength)
            /\ \A k \in Chained : AfterRun(ChainLength, k, trident[k], Stage)
       /\ at \notin Runs => pc = "returned"

\* The one call through a faulted slot.
BeforeTheCall ==
  \/ image = "boot" /\ at \in BeforeServices \union {"bind", "bring up", "run up", "break", "run broken"}
  \/ image = "qemu" /\ at \in {"start", "agree", "disagree", "call"}

TrapInv ==
  /\ traps \in 0 .. 1
  /\ ~ entered
  /\ BeforeTheCall => traps = 0

\* The self-test kernel's single node.
VectorInv ==
  /\ t \in Node
  /\ t.u1 = ReqAdd
  /\ image = "boot" \/ at \in {"start", "agree"} => t = InitNode(ReqAdd)
  /\ image = "qemu" /\ at \in {"call", "heal"} => t.state = "FAULT" /\ t.w = Trap
  /\ image = "qemu" /\ at \in {"disagree"} => t.state = "BOUND"
  /\ image = "qemu" /\ at \in {"disagree", "call", "heal"} => t.generation = 1
  /\ ~ failed
  /\ exit \in {0, ExitPass}

\* The boot kernel's variables keep their first values in the other image.
ImagesInv ==
  /\ Located /\ OnScreen /\ MemoryInv /\ ChainInv /\ TrapInv /\ VectorInv
  /\ image = "boot" => ServiceInv
  /\ image = "qemu" => service = <<>> /\ P = NoAddress /\ H = NoAddress /\ ~ sys.complete

-----------------------------------------------------------------------------
(* The bytes                                                               *)

LEMMA CompassMeaning ==
  /\ \A i \in Cubits : Compass[i + 1] \in Directions \ {Undefined}
  /\ \A i \in Cubits : EntangledPairs[i + 1] \in Int
  /\ "N" \in Directions \ {Undefined}
<1>1. \A i \in 1 .. 8 : Compass[i] \in Range(Compass) /\ Compass[i] # Undefined
  BY DEF Compass, Range, Undefined
<1>2. \A i \in Cubits : i + 1 \in 1 .. 8
  BY DEF Cubits
<1>3. Compass[1] = "N"
  BY DEF Compass
<1>4. \A i \in Cubits : EntangledPairs[i + 1] \in Int
  BY DEF Cubits, EntangledPairs, NoPartner
<1>5. QED
  BY <1>1, <1>2, <1>3, <1>4 DEF Directions

LEMMA BitIsBit ==
  ASSUME NEW value \in 0 .. 255, NEW i \in Cubits
  PROVE  Bit(value, i) \in {0, 1}
BY DEF Bit, Cubits

LEMMA RingIsRing ==
  ASSUME NEW value \in 0 .. 255
  PROVE  InitCubitRing(value) \in [Cubits -> Cubit] /\ Paired(InitCubitRing(value))
<1>1. ASSUME NEW i \in Cubits
      PROVE  /\ Bit(value, i) \in {0, 1} /\ Bit(value, (i + 1) % 8) \in {0, 1}
             /\ ResolveState(i, value) \in CubitStates
             /\ Compass[i + 1] \in Directions \ {Undefined}
             /\ EntangledPairs[i + 1] \in Int
  <2>1. (i + 1) % 8 \in Cubits
    BY DEF Cubits
  <2>2. Bit(value, i) \in {0, 1} /\ Bit(value, (i + 1) % 8) \in {0, 1}
    BY <2>1, BitIsBit
  <2>3. QED
    BY <2>2, CompassMeaning DEF ResolveState, CubitStates
<1>2. QED
  BY <1>1 DEF InitCubitRing, Cubit, Paired

LEMMA ByteType ==
  ASSUME NEW byte, IsByte(byte)
  PROVE  byte.raw \in 0 .. 255 /\ byte.base \in Nat /\ byte.ring \in [Cubits -> Cubit]
BY DEF IsByte, Byte

LEMMA ByteInLargerFrames ==
  ASSUME NEW byte, IsByte(byte), NEW primary, NEW secondary
  PROVE  \E frames : primary \in frames /\ secondary \in frames /\ byte \in Byte(frames)
<1>1. PICK frames : byte \in Byte(frames)
  BY DEF IsByte
<1> DEFINE all == frames \union {primary, secondary}
<1>2. byte \in Byte(all)
  BY <1>1 DEF Byte
<1>3. QED
  BY <1>2

LEMMA RawByteIsByte ==
  ASSUME NEW i \in ByteNumbers
  PROVE  IsByte(RawByte(i))
<1>1. RawValue(i) \in 0 .. 255
  BY DEF RawValue, ByteNumbers, MemorySize
<1>2. [value |-> 0, direction |-> "N", state |-> "UP", entangledWith |-> 0, superposed |-> FALSE]
        \in Cubit
  BY CompassMeaning DEF Cubit, CubitStates
<1>3. RawByte(i) \in Byte({"N"})
  BY <1>1, <1>2 DEF RawByte, Byte
<1>4. QED
  BY <1>3 DEF IsByte

\* Phase 1 makes the ring of the byte's value.
LEMMA CubitInitMeaning ==
  ASSUME NEW byte, IsByte(byte)
  PROVE  IsByte(CubitInit(byte)) /\ Paired(CubitInit(byte).ring)
<1> DEFINE base      == (byte.raw % 12) + 1
           ring      == InitCubitRing(byte.raw)
           primary   == LookupSuperposition(base).primary
           secondary == LookupSuperposition(base).secondary
<1>1. PICK frames : primary \in frames /\ secondary \in frames /\ byte \in Byte(frames)
  BY ByteInLargerFrames
<1>2. base \in Nat
  BY ByteType
<1>3. ring \in [Cubits -> Cubit] /\ Paired(ring)
  BY ByteType, RingIsRing
<1>4. CubitInit(byte) = [byte EXCEPT !.base = base, !.ring = ring,
                                     !.primary = primary, !.secondary = secondary]
  BY DEF CubitInit
<1> HIDE DEF base, ring, primary, secondary
<1>5. CubitInit(byte) \in Byte(frames) /\ CubitInit(byte).ring = ring
  <2>1. /\ [byte EXCEPT !.base = base, !.ring = ring, !.primary = primary,
                        !.secondary = secondary] \in Byte(frames)
        /\ [byte EXCEPT !.base = base, !.ring = ring, !.primary = primary,
                        !.secondary = secondary].ring = ring
    BY <1>1, <1>2, <1>3 DEF Byte
  <2>2. QED
    BY <1>4, <2>1
<1>6. QED
  BY <1>3, <1>5 DEF IsByte

\* Phase 2 finds every direction defined and leaves the ring as it was, although
\* it reads neighbours it has aligned already.
LEMMA CompassAlignmentMeaning ==
  ASSUME NEW byte, IsByte(byte)
  PROVE  /\ IsByte(CompassAlignment(byte)) /\ ~ Locked(CompassAlignment(byte))
         /\ CompassAlignment(byte).ring = byte.ring
<1> DEFINE before(i) == byte.ring[i].direction
           Aligns(f) == f = [i \in Cubits |->
                          LET left  == IF i = 0 THEN before(7) ELSE f[i - 1]
                              right == IF i = 7 THEN f[0] ELSE before(i + 1)
                          IN  IF before(i) # Undefined THEN before(i)
                              ELSE DirectionFromNeighbors(left, right)]
           aligned == CHOOSE f : Aligns(f)
           ring    == [i \in Cubits |-> [byte.ring[i] EXCEPT !.direction = aligned[i]]]
<1>1. byte.ring \in [Cubits -> Cubit]
  BY ByteType
<1>2. \A i \in Cubits : before(i) # Undefined
  BY <1>1 DEF Cubit
<1>3. Aligns([i \in Cubits |-> before(i)])
  BY <1>2
<1>4. Aligns(aligned)
  BY <1>3
<1>5. \A i \in Cubits : aligned[i] = before(i)
  <2> SUFFICES ASSUME NEW i \in Cubits PROVE aligned[i] = before(i)
    OBVIOUS
  <2> HIDE DEF aligned
  <2>1. QED
    BY <1>2, <1>4
<1>6. CompassAlignment(byte) = [byte EXCEPT !.ring = ring]
  BY DEF CompassAlignment
<1> HIDE DEF aligned
<1>7. ring = byte.ring
  <2>1. ASSUME NEW i \in Cubits
        PROVE  [byte.ring[i] EXCEPT !.direction = aligned[i]] = byte.ring[i]
    <3> DEFINE c == byte.ring[i]
    <3>1. c \in Cubit /\ aligned[i] = c.direction
      BY <1>1, <1>5
    <3> HIDE DEF c
    <3>2. [c EXCEPT !.direction = aligned[i]] = c
      BY <3>1 DEF Cubit
    <3>3. QED
      BY <3>2 DEF c
  <2>2. QED
    BY <1>1, <2>1
<1> HIDE DEF ring
<1>8. PICK frames : byte \in Byte(frames)
  BY DEF IsByte
<1>9. byte.ring = ring /\ [byte EXCEPT !.ring = ring] \in Byte(frames)
      /\ [byte EXCEPT !.ring = ring].ring = ring
  BY <1>1, <1>7, <1>8 DEF Byte
<1>10. QED
  BY <1>2, <1>6, <1>9 DEF IsByte, Locked

\* Phase 3: the lower cubit of a pair turns the upper one over if they agree, and
\* the upper one then finds a partner it differs from.
LEMMA EntangleMeaning ==
  ASSUME NEW byte, IsByte(byte), Paired(byte.ring)
  PROVE  IsByte(Entangle(byte)) /\ Paired(Entangle(byte).ring) /\ PairsDiffer(Entangle(byte))
<1> DEFINE old  == byte.ring
           ring == [i \in Cubits |-> [old[i] EXCEPT !.state = EntangledState(old, i)]]
<1>1. old \in [Cubits -> Cubit] /\ Paired(old)
  BY ByteType
<1>2. \A a \in CubitStates : Flip[a] \in CubitStates /\ Flip[a] # a /\ Flip[Flip[a]] = a
  BY DEF CubitStates, Flip
<1>3. \A a, b \in CubitStates : TurnedOver(a, b) \in CubitStates /\ TurnedOver(a, b) # a
  BY <1>2 DEF TurnedOver
<1>4. \A i \in Cubits : old[i].state \in CubitStates
  BY <1>1 DEF Cubit
<1>5. \A i \in Cubits : old[i].superposed =>
        /\ old[i].entangledWith \in Cubits
        /\ old[i].entangledWith # i
        /\ old[old[i].entangledWith].superposed
        /\ old[old[i].entangledWith].entangledWith = i
  BY <1>1 DEF Paired, Cubits, EntangledPairs, NoPartner
<1>6. \A i \in Cubits : EntangledState(old, i) \in CubitStates
  BY <1>3, <1>4, <1>5 DEF EntangledState
<1>7. ASSUME NEW i \in Cubits
      PROVE  /\ ring[i] \in Cubit
             /\ ring[i].state = EntangledState(old, i)
             /\ ring[i].entangledWith = old[i].entangledWith
             /\ ring[i].superposed = old[i].superposed
  <2> DEFINE c == old[i]
             state == EntangledState(old, i)
  <2>1. c \in Cubit /\ state \in CubitStates
    BY <1>1, <1>6
  <2>2. ring[i] = [c EXCEPT !.state = state]
    OBVIOUS
  <2> HIDE DEF c, state
  <2>3. /\ [c EXCEPT !.state = state] \in Cubit
        /\ [c EXCEPT !.state = state].state = state
        /\ [c EXCEPT !.state = state].entangledWith = c.entangledWith
        /\ [c EXCEPT !.state = state].superposed = c.superposed
    BY <2>1 DEF Cubit
  <2> HIDE DEF ring
  <2>4. QED
    BY <2>2, <2>3 DEF c, state
<1>8. ring \in [Cubits -> Cubit]
  <2>1. \A i \in Cubits : ring[i] \in Cubit
    BY <1>7
  <2>2. QED
    BY <2>1
<1>9. \A i \in Cubits : old[i].superposed =>
        EntangledState(old, i) # EntangledState(old, old[i].entangledWith)
  <2> SUFFICES ASSUME NEW i \in Cubits, old[i].superposed
               PROVE  EntangledState(old, i) # EntangledState(old, old[i].entangledWith)
    OBVIOUS
  <2> DEFINE p == old[i].entangledWith
             a == old[i].state
             b == old[p].state
  <2>1. /\ p \in Cubits /\ p # i /\ old[p].superposed /\ old[p].entangledWith = i
        /\ a \in CubitStates /\ b \in CubitStates
    BY <1>4, <1>5
  <2>2. CASE p < i
    <3>1. EntangledState(old, i) = TurnedOver(b, a)
      BY <2>2 DEF EntangledState
    <3>2. EntangledState(old, p) = TurnedOver(TurnedOver(b, a), b)
      BY <2>1, <2>2 DEF EntangledState, Cubits
    <3> HIDE DEF p, a, b
    <3>3. TurnedOver(b, a) \in CubitStates
      BY <1>3, <2>1
    <3>4. QED
      BY <1>3, <2>1, <3>1, <3>2, <3>3 DEF p
  <2>3. CASE ~ p < i
    <3>1. EntangledState(old, i) = TurnedOver(TurnedOver(a, b), a)
      BY <2>3 DEF EntangledState
    <3>2. EntangledState(old, p) = TurnedOver(a, b)
      BY <2>1, <2>3 DEF EntangledState, Cubits
    <3> HIDE DEF p, a, b
    <3>3. TurnedOver(a, b) \in CubitStates
      BY <1>3, <2>1
    <3>4. QED
      BY <1>3, <2>1, <3>1, <3>2, <3>3 DEF p
  <2>4. QED
    BY <2>2, <2>3
<1>10. Entangle(byte) = [byte EXCEPT !.ring = ring]
  BY DEF Entangle
<1>11. PICK frames : byte \in Byte(frames)
  BY DEF IsByte
<1> HIDE DEF ring
<1>12. Entangle(byte) \in Byte(frames) /\ Entangle(byte).ring = ring
  <2>1. /\ [byte EXCEPT !.ring = ring] \in Byte(frames)
        /\ [byte EXCEPT !.ring = ring].ring = ring
    BY <1>8, <1>11 DEF Byte
  <2>2. QED
    BY <1>10, <2>1
<1>13. Paired(ring)
  BY <1>1, <1>7 DEF Paired
<1>14. PairsDiffer(Entangle(byte))
  BY <1>5, <1>7, <1>9, <1>12 DEF PairsDiffer
<1>15. QED
  BY <1>12, <1>13, <1>14 DEF IsByte

\* Phases 4 and 5 give the byte other frames.
LEMMA FramesMeaning ==
  ASSUME NEW byte, IsByte(byte)
  PROVE  LET b == ResolveBases(CenterFrame(byte)) IN IsByte(b) /\ b.ring = byte.ring
<1>1. ASSUME NEW a, IsByte(a), NEW primary, NEW secondary
      PROVE  LET b == [a EXCEPT !.primary = primary, !.secondary = secondary]
             IN  IsByte(b) /\ b.ring = a.ring
  <2>1. PICK frames : primary \in frames /\ secondary \in frames /\ a \in Byte(frames)
    BY <1>1, ByteInLargerFrames
  <2>2. /\ [a EXCEPT !.primary = primary, !.secondary = secondary] \in Byte(frames)
        /\ [a EXCEPT !.primary = primary, !.secondary = secondary].ring = a.ring
    BY <2>1 DEF Byte
  <2>3. QED
    BY <2>2 DEF IsByte
<1> DEFINE c == CenterFrame(byte)
<1>2. IsByte(c) /\ c.ring = byte.ring
  BY <1>1 DEF CenterFrame
<1> HIDE DEF c
<1>3. IsByte(ResolveBases(c)) /\ ResolveBases(c).ring = c.ring
  BY <1>1, <1>2 DEF ResolveBases
<1>4. QED
  BY <1>2, <1>3 DEF c

\* Phase 6 rotates the value of each cubit, a bit, by half a byte and back.
LEMMA RotatesFreelyMeaning ==
  ASSUME NEW byte, IsByte(byte)
  PROVE  RotatesFreely(byte)
<1>1. \A i \in Cubits : byte.ring[i].value \in {0, 1}
  BY ByteType DEF Cubit
<1>2. \A v \in {0, 1} : RotateBits(RotateBits(v, 4), 4) = v
  BY DEF RotateBits
<1>3. QED
  BY <1>1, <1>2 DEF RotatesFreely

\* The program's rotation of byte 0.
LEMMA RotatedByteMeaning ==
  ASSUME NEW byte, IsByte(byte)
  PROVE  LET rotated == RotateBits(byte.raw, 1)
             b       == [byte EXCEPT !.raw = rotated, !.ring = InitCubitRing(rotated)]
         IN  IsByte(b) /\ Paired(b.ring)
<1> DEFINE rotated == RotateBits(byte.raw, 1)
           ring    == InitCubitRing(rotated)
<1>1. rotated \in 0 .. 255
  BY ByteType DEF RotateBits
<1>2. ring \in [Cubits -> Cubit] /\ Paired(ring)
  BY <1>1, RingIsRing
<1>3. PICK frames : byte \in Byte(frames)
  BY DEF IsByte
<1> HIDE DEF rotated, ring
<1>4. /\ [byte EXCEPT !.raw = rotated, !.ring = ring] \in Byte(frames)
      /\ [byte EXCEPT !.raw = rotated, !.ring = ring].ring = ring
  BY <1>1, <1>2, <1>3 DEF Byte
<1>5. QED
  BY <1>2, <1>4 DEF IsByte, rotated, ring

-----------------------------------------------------------------------------
(* Every step keeps the invariant                                          *)

LEMMA InitMemory == Init => MemoryInv
<1> SUFFICES ASSUME Init PROVE MemoryInv
  OBVIOUS
<1>1. /\ sys = [memory |-> [i \in ByteNumbers |-> RawByte(i)], complete |-> FALSE]
      /\ at \in Unpaired
  BY DEF Init, BootInit, ImageInit, Unpaired
<1>2. /\ sys.memory = [i \in ByteNumbers |-> RawByte(i)]
      /\ sys.complete = FALSE
  BY <1>1
<1>3. \A i \in ByteNumbers : IsByte(sys.memory[i])
  BY <1>2, RawByteIsByte
<1>4. at \in Unentangled
  BY <1>1 DEF Unentangled
<1>5. QED
  BY <1>1, <1>2, <1>3, <1>4 DEF MemoryInv

\* A step that leaves the memory alone and is not one of the phases.
LEMMA MemoryFrame ==
  ASSUME MemoryInv, UNCHANGED <<image, sys>>,
         image = "boot" => (at \in Unpaired => at' \in Unpaired) /\ (at \in Unentangled => at' \in Unentangled)
  PROVE  MemoryInv'
BY DEF MemoryInv

\* A phase that treats every byte.
LEMMA Treated ==
  ASSUME MemoryInv, NEW f, Treat(f), f = [i \in ByteNumbers |-> f[i]]
  PROVE  /\ image' = image
         /\ sys' = [memory |-> f, complete |-> sys.complete]
         /\ sys'.memory = f /\ sys'.complete = sys.complete
<1>1. sys = [memory |-> sys.memory, complete |-> sys.complete]
  BY DEF MemoryInv
<1>2. sys' = [sys EXCEPT !.memory = f] /\ image' = image
  BY DEF Treat
<1>3. [sys EXCEPT !.memory = f] = [memory |-> f, complete |-> sys.complete]
  BY <1>1
<1>4. QED
  BY <1>2, <1>3

LEMMA PhasesMemory ==
  ASSUME MemoryInv, Phase1 \/ Phase2 \/ Phase3 \/ Phase4And5 \/ Phase6
  PROVE  MemoryInv'
<1>1. ASSUME NEW f, Treat(f), f = [i \in ByteNumbers |-> f[i]],
             \A i \in ByteNumbers : IsByte(f[i]),
             at' \in Unpaired \/ \A i \in ByteNumbers : Paired(f[i].ring),
             at' \in Unentangled \/ \A i \in ByteNumbers : PairsDiffer(f[i])
      PROVE  MemoryInv'
  <2>1. sys' = [memory |-> f, complete |-> sys.complete] /\ sys'.memory = f /\ sys'.complete = sys.complete
    BY <1>1, Treated
  <2>2. QED
    BY <1>1, <2>1 DEF MemoryInv
<1>2. CASE Phase1
  <2> DEFINE f == [i \in ByteNumbers |-> CubitInit(sys.memory[i])]
  <2>1. Treat(f) /\ at' \in Unentangled
    BY <1>2 DEF Phase1, Step, Unentangled
  <2>2. /\ f = [i \in ByteNumbers |-> f[i]]
        /\ \A i \in ByteNumbers : IsByte(f[i]) /\ Paired(f[i].ring)
    BY CubitInitMeaning DEF MemoryInv
  <2> HIDE DEF f
  <2>3. QED
    BY <1>1, <2>1, <2>2
<1>3. CASE Phase2
  <2> DEFINE f == [i \in ByteNumbers |-> CompassAlignment(sys.memory[i])]
  <2>1. Treat(f) /\ at = "phase 2" /\ image = "boot"
    BY <1>3 DEF Phase2
  <2>2. /\ f = [i \in ByteNumbers |-> f[i]]
        /\ \A i \in ByteNumbers : /\ IsByte(f[i]) /\ f[i].ring = sys.memory[i].ring
                                  /\ ~ Locked(f[i])
    BY CompassAlignmentMeaning DEF MemoryInv
  <2>3. at' \in Unentangled
    BY <1>3, <2>2 DEF Phase2, Unentangled
  <2> HIDE DEF f
  <2>4. \A i \in ByteNumbers : Paired(f[i].ring)
    BY <2>1, <2>2 DEF MemoryInv, Unpaired
  <2>5. QED
    BY <1>1, <2>1, <2>2, <2>3, <2>4
<1>4. CASE Phase3
  <2> DEFINE f == [i \in ByteNumbers |-> Entangle(sys.memory[i])]
  <2>1. Treat(f) /\ at = "phase 3" /\ image = "boot"
    BY <1>4 DEF Phase3, Step
  <2>2. \A i \in ByteNumbers : IsByte(sys.memory[i]) /\ Paired(sys.memory[i].ring)
    BY <2>1 DEF MemoryInv, Unpaired
  <2>3. /\ f = [i \in ByteNumbers |-> f[i]]
        /\ \A i \in ByteNumbers : IsByte(f[i]) /\ Paired(f[i].ring) /\ PairsDiffer(f[i])
    BY <2>2, EntangleMeaning
  <2> HIDE DEF f
  <2>4. QED
    BY <1>1, <2>1, <2>3
<1>5. CASE Phase4And5
  <2> DEFINE f == [i \in ByteNumbers |-> ResolveBases(CenterFrame(sys.memory[i]))]
  <2>1. Treat(f) /\ at = "phase 4" /\ image = "boot"
    BY <1>5 DEF Phase4And5, Step
  <2>2. /\ f = [i \in ByteNumbers |-> f[i]]
        /\ \A i \in ByteNumbers : IsByte(f[i]) /\ f[i].ring = sys.memory[i].ring
    BY FramesMeaning DEF MemoryInv
  <2> HIDE DEF f
  <2>3. \A i \in ByteNumbers : Paired(sys.memory[i].ring) /\ PairsDiffer(sys.memory[i])
    BY <2>1 DEF MemoryInv, Unpaired, Unentangled
  <2>4. ASSUME NEW i \in ByteNumbers PROVE Paired(f[i].ring) /\ PairsDiffer(f[i])
    BY <2>2, <2>3 DEF PairsDiffer
  <2>5. QED
    BY <1>1, <2>1, <2>2, <2>4
<1>6. CASE Phase6
  <2>1. Treat(sys.memory) /\ at = "phase 6" /\ image = "boot"
    BY <1>6 DEF Phase6
  <2>2. sys.memory = [i \in ByteNumbers |-> sys.memory[i]]
    BY DEF MemoryInv
  <2>3. \A i \in ByteNumbers : /\ IsByte(sys.memory[i]) /\ Paired(sys.memory[i].ring)
                               /\ PairsDiffer(sys.memory[i])
    BY <2>1 DEF MemoryInv, Unpaired, Unentangled
  <2> DEFINE f == sys.memory
  <2>4. Treat(f) /\ f = [i \in ByteNumbers |-> f[i]]
    BY <2>1, <2>2
  <2>5. \A i \in ByteNumbers : IsByte(f[i]) /\ Paired(f[i].ring) /\ PairsDiffer(f[i])
    BY <2>3
  <2> HIDE DEF f
  <2>6. QED
    BY <1>1, <2>4, <2>5
<1>7. QED
  BY <1>2, <1>3, <1>4, <1>5, <1>6

LEMMA StepMemory ==
  ASSUME MemoryInv, [Next]_allVars
  PROVE  MemoryInv'
<1>1. ASSUME StartBoot \/ Phase0
      PROVE  MemoryInv'
  BY <1>1, MemoryFrame DEF StartBoot, Phase0, Step, bootVars, Unpaired, Unentangled
<1>2. ASSUME Phase1 \/ Phase2 \/ Phase3 \/ Phase4And5 \/ Phase6
      PROVE  MemoryInv'
  BY <1>2, PhasesMemory
<1>3. ASSUME ValidateServices \/ BindService \/ PublishServices \/ BringUp \/ RunArith \/ BroughtUp
             \/ Break \/ Broken \/ Heal \/ Healed \/ Phase8Done \/ Launch \/ BootFailed
      PROVE  MemoryInv'
  <2>1. /\ UNCHANGED <<image, sys>>
        /\ at' = at \/ at \notin Unentangled
    BY <1>3 DEF ValidateServices, BindService, PublishServices, BringUp, RunArith, BroughtUp, Break,
                Broken, Heal, Healed, Phase8Done, Launch, BootFailed, Step, Phase8Frame, bootVars,
                Unpaired, Unentangled
  <2>2. QED
    BY <2>1, MemoryFrame DEF Unpaired, Unentangled
<1>4. ASSUME Phase7
      PROVE  MemoryInv'
  <2>1. /\ sys' = [sys EXCEPT !.complete = TRUE] /\ image' = image
        /\ at = "complete" /\ at' = "ready"
    BY <1>4 DEF Phase7, Step
  <2>2. sys' = [memory |-> sys.memory, complete |-> TRUE]
    BY <2>1 DEF MemoryInv
  <2>3. QED
    BY <2>1, <2>2 DEF MemoryInv, Unpaired, Unentangled
<1>5. ASSUME Program
      PROVE  MemoryInv'
  <2> DEFINE rotated == RotateBits(sys.memory[0].raw, 1)
             byte    == [sys.memory[0] EXCEPT !.raw = rotated, !.ring = InitCubitRing(rotated)]
             memory  == [sys.memory EXCEPT ![0] = byte]
  <2>1. /\ image' = image /\ at = "program" /\ at' = "halted"
        /\ sys' = IF BoundAdd = NoAddress THEN sys
                  ELSE [sys EXCEPT !.memory[0] = byte]
    BY <1>5 DEF Program, Step
  <2>2. CASE BoundAdd = NoAddress
    BY <2>1, <2>2, MemoryFrame DEF Unpaired, Unentangled
  <2>3. CASE BoundAdd # NoAddress
    <3>1. IsByte(byte) /\ Paired(byte.ring)
      <4>1. 0 \in ByteNumbers
        BY DEF ByteNumbers, MemorySize
      <4>2. QED
        BY <4>1, RotatedByteMeaning DEF MemoryInv
    <3> HIDE DEF byte
    <3>2. sys' = [memory |-> memory, complete |-> sys.complete]
      <4>1. sys = [memory |-> sys.memory, complete |-> sys.complete]
        BY DEF MemoryInv
      <4>2. [sys EXCEPT !.memory[0] = byte] = [memory |-> memory, complete |-> sys.complete]
        BY <4>1
      <4>3. QED
        BY <2>1, <2>3, <4>2
    <3>3. \A i \in ByteNumbers : memory[i] = IF i = 0 THEN byte ELSE sys.memory[i]
      BY DEF MemoryInv
    <3>4. memory = [i \in ByteNumbers |-> memory[i]]
      BY DEF MemoryInv
    <3> HIDE DEF memory
    <3>5. image = "boot" => \A i \in ByteNumbers : Paired(sys.memory[i].ring)
      BY <2>1 DEF MemoryInv, Unpaired
    <3>6. ASSUME NEW i \in ByteNumbers
          PROVE  IsByte(memory[i]) /\ (image = "boot" => Paired(memory[i].ring))
      <4>1. CASE i = 0
        BY <3>1, <3>3, <4>1
      <4>2. CASE i # 0
        BY <3>3, <3>5, <4>2 DEF MemoryInv
      <4>3. QED
        BY <4>1, <4>2
    <3>7. QED
      BY <2>1, <3>2, <3>4, <3>6 DEF MemoryInv, Unentangled
  <2>4. QED
    BY <2>2, <2>3
<1>6. ASSUME QemuNext /\ UNCHANGED bootVars
      PROVE  MemoryInv'
  <2>1. UNCHANGED <<image, sys>> /\ image = "qemu"
    BY <1>6 DEF QemuNext, Fresh, Agree, Disagree, CallFaulted, HealNode, ChainUp, RunChain,
                ChainBreak, ChainHeal, ChainHealed, Report, Exit, Step, bootVars
  <2>2. QED
    BY <2>1, MemoryFrame
<1>7. ASSUME PutChar \/ Transmitted \/ UNCHANGED allVars, UNCHANGED bootVars
      PROVE  MemoryInv'
  BY <1>7, MemoryFrame DEF PutChar, Transmitted, allVars, bootVars
<1>8. QED
  BY <1>1, <1>2, <1>3, <1>4, <1>5, <1>6, <1>7 DEF Next, BootNext, Halted, allVars

-----------------------------------------------------------------------------
(* The chain of nodes                                                      *)

\* The rule of the two graphs is the rule.
LEMMA ArithRule ==
  ASSUME NEW n, NEW pol, NEW b
  PROVE  Arith!ResolveNode(n, pol, b) = ResolveNode(n, pol, b)
BY DEF Arith!ResolveNode, Arith!Verdict, Arith!Precheck, Arith!Consensus, Arith!FpExport, Arith!WellFormed,
       Arith!Satisfies, Arith!Valid, Arith!States, Arith!TooOld, Arith!ValidStates, Arith!Profiles,
       Arith!Arch32, Arith!Arch64, Arith!Experimental, Arith!Lts,
       ResolveNode, Verdict, Precheck, Consensus, FpExport, WellFormed,
       Satisfies, Valid, States, TooOld, ValidStates, Profiles, Arch32, Arch64, Experimental, Lts

LEMMA ChainRule ==
  ASSUME NEW n, NEW pol, NEW b
  PROVE  Chain!ResolveNode(n, pol, b) = ResolveNode(n, pol, b)
BY DEF Chain!ResolveNode, Chain!Verdict, Chain!Precheck, Chain!Consensus, Chain!FpExport, Chain!WellFormed,
       Chain!Satisfies, Chain!Valid, Chain!States, Chain!TooOld, Chain!ValidStates, Chain!Profiles,
       Chain!Arch32, Chain!Arch64, Chain!Experimental, Chain!Lts,
       ResolveNode, Verdict, Precheck, Consensus, FpExport, WellFormed,
       Satisfies, Valid, States, TooOld, ValidStates, Profiles, Arch32, Arch64, Experimental, Lts

ChainDepsBound(k) == deps[k] \subseteq {n \in Chained : trident[n].state = "BOUND"}

ChainStarts ==
  /\ pc = "idle" /\ pc' = "pass" /\ policy' = DefaultPolicy
  /\ pass' = 0 /\ next' = 1 /\ bound' = 0 /\ prevBound' = -1
  /\ UNCHANGED <<trident, deps>>

ChainResolves ==
  /\ pc = "pass" /\ next <= ChainLength
  /\ trident' = [trident EXCEPT ![next] = ResolveNode(trident[next], policy, ChainDepsBound(next))]
  /\ bound' = IF trident'[next].state = "BOUND" THEN bound + 1 ELSE bound
  /\ next' = next + 1
  /\ UNCHANGED <<deps, pc, policy, pass, prevBound>>

ChainEnds ==
  /\ pc = "pass" /\ next = ChainLength + 1
  /\ IF bound = prevBound
     THEN pc' = "returned" /\ UNCHANGED loopVars
     ELSE /\ pc'        = IF pass < ChainLength THEN "pass" ELSE "returned"
          /\ pass'      = pass + 1
          /\ prevBound' = bound
          /\ next'      = IF pass < ChainLength THEN 1 ELSE next
          /\ bound'     = IF pass < ChainLength THEN 0 ELSE bound
          /\ policy'    = policy
  /\ UNCHANGED <<trident, deps>>

ChainStep ==
  /\ UNCHANGED <<image, at, sys>>
  /\ \/ ChainStarts /\ at \in Runs
     \/ ChainResolves
     \/ ChainEnds

LEMMA RunArithIsChainStep ==
  ASSUME RunArith
  PROVE  ChainStep
<1>1. image = "boot" /\ ChainLength = 2 /\ Chained = 1 .. 2 /\ UNCHANGED <<image, at, sys>>
  BY DEF RunArith, Phase8Frame, ChainLength, Chained
<1>2. ASSUME pc = "idle", Arith!GraphResolve(DefaultPolicy)
      PROVE  ChainStarts
  BY <1>2 DEF Arith!GraphResolve, Arith!NoPass, ChainStarts
<1>3. ASSUME Arith!ResolveNext
      PROVE  ChainResolves
  <2>1. Arith!DepsBound(next) = ChainDepsBound(next)
    BY <1>1 DEF Arith!DepsBound, Arith!BoundNodes, Arith!Nodes, ChainDepsBound
  <2>2. trident' = [trident EXCEPT ![next] = Arith!ResolveNode(trident[next], policy, Arith!DepsBound(next))]
    BY <1>3 DEF Arith!ResolveNext
  <2>3. trident' = [trident EXCEPT ![next] = ResolveNode(trident[next], policy, ChainDepsBound(next))]
    BY <2>1, <2>2, ArithRule
  <2>4. QED
    BY <1>1, <1>3, <2>3 DEF Arith!ResolveNext, ChainResolves
<1>4. ASSUME Arith!EndPass
      PROVE  ChainEnds
  BY <1>1, <1>4 DEF Arith!EndPass, Arith!EndOfPass, Arith!loopVars, loopVars, ChainEnds
<1>5. QED
  BY <1>1, <1>2, <1>3, <1>4 DEF RunArith, ChainStep, Runs

LEMMA RunChainIsChainStep ==
  ASSUME RunChain, UNCHANGED sys
  PROVE  ChainStep
<1>1. image = "qemu" /\ ChainLength = 3 /\ Chained = 1 .. 3 /\ UNCHANGED <<image, at, sys>>
  BY DEF RunChain, ChainLength, Chained
<1>2. ASSUME pc = "idle", Chain!GraphResolve(DefaultPolicy)
      PROVE  ChainStarts
  BY <1>2 DEF Chain!GraphResolve, Chain!NoPass, ChainStarts
<1>3. ASSUME Chain!ResolveNext
      PROVE  ChainResolves
  <2>1. Chain!DepsBound(next) = ChainDepsBound(next)
    BY <1>1 DEF Chain!DepsBound, Chain!BoundNodes, Chain!Nodes, ChainDepsBound
  <2>2. trident' = [trident EXCEPT ![next] = Chain!ResolveNode(trident[next], policy, Chain!DepsBound(next))]
    BY <1>3 DEF Chain!ResolveNext
  <2>3. trident' = [trident EXCEPT ![next] = ResolveNode(trident[next], policy, ChainDepsBound(next))]
    BY <2>1, <2>2, ChainRule
  <2>4. QED
    BY <1>1, <1>3, <2>3 DEF Chain!ResolveNext, ChainResolves
<1>4. ASSUME Chain!EndPass
      PROVE  ChainEnds
  BY <1>1, <1>4 DEF Chain!EndPass, Chain!EndOfPass, Chain!loopVars, loopVars, ChainEnds
<1>5. QED
  BY <1>1, <1>2, <1>3, <1>4 DEF RunChain, ChainStep, Runs

LEMMA OfferAddresses ==
  /\ ProvAdd.address = "add_i32" /\ ProvMul.address = "mul_i32" /\ ProvAddBad.address = "add_f64_stub"
  /\ Trap \notin {"add_i32", "mul_i32", "add_f64_stub"}
  /\ NoAddress \notin {"add_i32", "mul_i32", "add_f64_stub"}
<1>1. /\ ProvAdd.address = "add_i32" /\ ProvMul.address = "mul_i32"
      /\ ProvAddBad.address = "add_f64_stub"
  BY DEF ProvAdd, ProvMul, ProvAddBad, Export
<1>2. QED
  BY <1>1, ContractsAssumption, BootAssumption, NullsAssumption

\* One resolution in a run: what a node becomes depends on the stage alone.
LEMMA ChainResolution ==
  ASSUME NEW len \in {2, 3}, NEW k \in 1 .. len, NEW s \in {"up", "broken", "healed"}, NEW n, NEW b \in BOOLEAN,
         Hooked(len, k, n, s), BeforeRun(n, s) \/ AfterRun(len, k, n, s),
         b <=> s # "broken" \/ k = 1
  PROVE  LET r == ResolveNode(n, DefaultPolicy, b)
         IN  Hooked(len, k, r, s) /\ AfterRun(len, k, r, s)
<1> DEFINE r == ResolveNode(n, DefaultPolicy, b)
           v == Verdict(n.u1, n.u2, DefaultPolicy, b)
<1>1. n \in Node /\ DefaultPolicy \in Policy
  BY ContractsAreDescriptors DEF Hooked
<1>2. /\ r \in Node
      /\ r.u1 = n.u1 /\ r.u2 = n.u2
      /\ r.state = IF v.fault = "NONE" THEN "BOUND" ELSE "FAULT"
      /\ r.fault = v.fault
      /\ r.w = IF v.fault = "NONE" THEN n.u2.address ELSE Trap
      /\ r.generation = IF r.state = "BOUND" /\ n.state # "BOUND"
                        THEN n.generation + 1 ELSE n.generation
  BY <1>1, ResolveNodeMeaning
<1>3. n.generation \in Nat
  BY <1>1 DEF Node
<1> SUFFICES Hooked(len, k, r, s) /\ AfterRun(len, k, r, s)
  OBVIOUS
<1> HIDE DEF r
<1>4. CASE s = "broken" /\ k # 1
  <2>1. v.fault = "UPSTREAM"
    BY <1>4, Contained
  <2> HIDE DEF v
  <2>2. QED
    BY <1>2, <1>3, <1>4, <2>1 DEF Hooked, BeforeRun, AfterRun
<1>5. CASE s = "broken" /\ k = 1
  <2>1. n.u1 = ReqAdd /\ n.u2 = ProvAddBad /\ b = TRUE
    BY <1>5 DEF Hooked, ChainReq
  <2>2. v.fault = "FINGERPRINT"
    BY <2>1, ContractsAgree
  <2> HIDE DEF v
  <2>3. QED
    BY <1>2, <1>3, <1>5, <2>2 DEF Hooked, BeforeRun, AfterRun
<1>6. CASE s # "broken"
  <2>1. n.u1 = ChainReq(len, k) /\ n.u2 = ChainProv(len, k) /\ b = TRUE
    BY <1>6 DEF Hooked
  <2>2. v.fault = "NONE"
    BY <2>1, ContractsAgree DEF ChainReq, ChainProv
  <2>3. ChainProv(len, k).address \in {"add_i32", "mul_i32"}
    BY OfferAddresses DEF ChainProv
  <2> HIDE DEF v
  <2>4. r.state = "BOUND" /\ r.w = ChainProv(len, k).address
    BY <1>2, <2>1, <2>2
  <2>5. r.generation = IF s = "up" THEN 1 ELSE 2
    BY <1>2, <1>3, <1>6, <2>4 DEF BeforeRun, AfterRun
  <2>6. QED
    BY <1>2, <1>6, <2>1, <2>3, <2>4, <2>5 DEF Hooked, AfterRun
<1>7. QED
  BY <1>4, <1>5, <1>6

LEMMA StageMeaning ==
  /\ Stage \in {"none", "up", "broken", "healed"}
  /\ at \in Runs => Stage # "none"
  /\ ChainLength \in {2, 3}
BY DEF Stage, Runs, ChainLength

LEMMA ChainStepKeeps ==
  ASSUME ChainInv, ChainStep
  PROVE  ChainInv'
<1> DEFINE s == Stage
           L == ChainLength
<1>1. s \in {"none", "up", "broken", "healed"} /\ L \in {2, 3} /\ Chained = 1 .. L
  BY StageMeaning DEF Chained
<1>2. Stage' = s /\ ChainLength' = L /\ Chained' = Chained /\ at' = at
  BY DEF ChainStep, Stage, ChainLength, Chained
<1>3. s # "none"
  BY StageMeaning DEF ChainStep, ChainStarts, ChainResolves, ChainEnds, ChainInv
<1>4. /\ trident \in [Chained -> Node]
      /\ deps = [n \in Chained |-> IF n = 1 THEN {} ELSE {n - 1}]
      /\ \A k \in Chained : Hooked(L, k, trident[k], s)
      /\ at \notin Runs => pc = "returned"
  BY <1>3 DEF ChainInv
<1>5. ASSUME ChainStarts
      PROVE  ChainInv'
  <2>1. \A k \in Chained : BeforeRun(trident[k], s)
    BY <1>3, <1>5 DEF ChainInv, ChainStarts
  <2> HIDE DEF s, L
  <2>2. InRun'
    BY <1>1, <1>2, <1>5, <2>1 DEF InRun, ChainStarts, Binding
  <2>3. QED
    BY <1>2, <1>3, <1>4, <1>5, <2>2 DEF ChainInv, ChainStarts, ChainStep
<1>6. ASSUME ChainResolves
      PROVE  ChainInv'
  <2> DEFINE b == ChainDepsBound(next)
             r == ResolveNode(trident[next], DefaultPolicy, b)
  <2>1. /\ pc = "pass" /\ InRun /\ next \in Chained
    BY <1>1, <1>3, <1>6 DEF ChainInv, ChainResolves, InRun
  <2> HIDE DEF s, L
  <2>2. \A k \in Chained : IF k < next \/ pass = 1 THEN AfterRun(L, k, trident[k], s)
                           ELSE BeforeRun(trident[k], s)
    BY <2>1 DEF InRun, s, L
  <2>3. b <=> s # "broken" \/ next = 1
    <3>1. CASE next = 1
      BY <1>4, <2>1, <3>1 DEF ChainDepsBound
    <3>2. CASE next # 1
      <4>1. next - 1 \in Chained /\ next - 1 < next
        BY <1>1, <2>1, <3>2
      <4>2. AfterRun(L, next - 1, trident[next - 1], s)
        BY <2>2, <4>1
      <4>3. trident[next - 1].state = "BOUND" <=> s # "broken"
        BY <4>2 DEF AfterRun
      <4>4. deps[next] = {next - 1}
        BY <1>4, <2>1, <3>2
      <4>5. QED
        BY <3>2, <4>1, <4>3, <4>4 DEF ChainDepsBound
    <3>3. QED
      BY <3>1, <3>2
  <2>4. b \in BOOLEAN
    BY DEF ChainDepsBound
  <2> HIDE DEF b
  <2>5. Hooked(L, next, r, s) /\ AfterRun(L, next, r, s)
    BY <1>1, <1>3, <1>4, <2>1, <2>2, <2>3, <2>4, ChainResolution
  <2>6. trident' = [trident EXCEPT ![next] = r] /\ policy = DefaultPolicy
    BY <1>6, <2>1 DEF ChainResolves, InRun, b
  <2>7. r \in Node
    BY <2>5 DEF Hooked
  <2> HIDE DEF r
  <2>8. /\ trident' \in [Chained -> Node]
        /\ trident'[next] = r
        /\ \A k \in Chained \ {next} : trident'[k] = trident[k]
    BY <1>4, <2>1, <2>6, <2>7
  <2>9. \A k \in Chained : Hooked(L, k, trident'[k], s)
    BY <1>4, <2>5, <2>8
  <2>10. \A k \in Chained : IF k < next + 1 \/ pass = 1 THEN AfterRun(L, k, trident'[k], s)
                            ELSE BeforeRun(trident'[k], s)
    <3> SUFFICES ASSUME NEW k \in Chained
                 PROVE  IF k < next + 1 \/ pass = 1 THEN AfterRun(L, k, trident'[k], s)
                        ELSE BeforeRun(trident'[k], s)
      OBVIOUS
    <3>1. CASE k = next
      BY <2>1, <2>5, <2>8, <3>1 DEF InRun
    <3>2. CASE k # next
      <4>1. k < next + 1 <=> k < next
        BY <1>1, <2>1, <3>2
      <4>2. QED
        BY <2>2, <2>8, <3>2, <4>1
    <3>3. QED
      BY <3>1, <3>2
  <2>11. r.state = "BOUND" <=> s # "broken"
    BY <2>5 DEF AfterRun
  <2>12. bound' = Binding(s, next)
    BY <1>1, <1>6, <2>1, <2>8, <2>11 DEF ChainResolves, InRun, Binding, s
  <2>13. InRun'
    <3>1. /\ policy' = DefaultPolicy /\ pass' = pass /\ next' = next + 1 /\ prevBound' = prevBound
      BY <1>6, <2>6 DEF ChainResolves
    <3>2. /\ next' \in 1 .. L + 1 /\ bound' = Binding(s, next' - 1)
      BY <1>1, <2>1, <2>12, <3>1
    <3>3. prevBound' = IF pass' = 0 THEN -1 ELSE Binding(s, L)
      BY <2>1, <3>1 DEF InRun, s, L
    <3>4. QED
      BY <1>2, <2>1, <2>10, <3>1, <3>2, <3>3 DEF InRun
  <2>14. QED
    BY <1>2, <1>3, <1>4, <1>6, <2>8, <2>9, <2>13 DEF ChainInv, ChainResolves
<1>7. ASSUME ChainEnds
      PROVE  ChainInv'
  <2>1. /\ pc = "pass" /\ InRun /\ next = L + 1 /\ UNCHANGED <<trident, deps>>
    BY <1>3, <1>7 DEF ChainInv, ChainEnds
  <2> HIDE DEF s, L
  <2>2. \A k \in Chained : AfterRun(L, k, trident[k], s)
    BY <1>1, <2>1 DEF InRun, s, L
  <2>3. bound = Binding(s, L)
    BY <1>1, <2>1 DEF InRun, s
  <2>4. CASE pass = 0
    <3>1. bound # prevBound /\ pass < L
      BY <1>1, <2>1, <2>3, <2>4 DEF InRun, Binding
    <3>2. /\ pc' = "pass" /\ pass' = 1 /\ prevBound' = Binding(s, L) /\ next' = 1 /\ bound' = 0
          /\ policy' = DefaultPolicy
      BY <1>7, <2>1, <2>3, <2>4, <3>1 DEF ChainEnds, InRun, L
    <3>3. InRun'
      BY <1>1, <1>2, <2>1, <2>2, <3>2 DEF InRun, Binding
    <3>4. QED
      BY <1>2, <1>3, <1>4, <2>1, <3>2, <3>3 DEF ChainInv
  <2>5. CASE pass = 1
    <3>1. bound = prevBound
      BY <2>1, <2>3, <2>5 DEF InRun, s, L
    <3>2. pc' = "returned" /\ bound' = bound
      BY <1>7, <3>1 DEF ChainEnds, loopVars
    <3>3. QED
      BY <1>2, <1>3, <1>4, <2>1, <2>2, <2>3, <3>2 DEF ChainInv
  <2>6. QED
    BY <2>1, <2>4, <2>5 DEF InRun
<1>8. QED
  BY <1>5, <1>6, <1>7 DEF ChainStep

\* What a run has left behind when it returns.
LEMMA RunReturned ==
  ASSUME ChainInv, Stage # "none", pc = "returned"
  PROVE  /\ bound = Binding(Stage, ChainLength)
         /\ \A k \in Chained : /\ AfterRun(ChainLength, k, trident[k], Stage)
                               /\ Hooked(ChainLength, k, trident[k], Stage)
         /\ 1 \in Chained /\ 2 \in Chained /\ (image = "qemu" => 3 \in Chained)
BY DEF ChainInv, Chained, ChainLength

\* The three reports of the boot kernel's self-test find what they ask for.
LEMMA SelfTestReports ==
  ASSUME ImagesInv
  PROVE  /\ BroughtUp => at' = "break" /\ status' = status
         /\ Broken => ok' = TRUE /\ trident[1].w = Trap
         /\ Healed => ok' = TRUE /\ at' = "proved" /\ status' = status
<1>1. ChainInv /\ (image = "boot" => ServiceInv /\ ChainLength = 2)
  BY DEF ImagesInv, ChainLength
<1>2. ASSUME BroughtUp PROVE at' = "break" /\ status' = status
  <2>1. at = "run up" /\ image = "boot" /\ pc = "returned"
    BY <1>2 DEF BroughtUp
  <2>2. Stage = "up"
    BY <2>1 DEF Stage
  <2>3. bound = 2
    BY <1>1, <2>1, <2>2, RunReturned DEF Binding
  <2>4. QED
    BY <1>2, <2>1, <2>3 DEF BroughtUp, Resolved
<1>3. ASSUME Broken PROVE ok' = TRUE /\ trident[1].w = Trap
  <2>1. /\ at = "run broken" /\ image = "boot" /\ pc = "returned"
        /\ traps' = IF trident[1].w = Trap THEN traps + 1 ELSE traps
    BY <1>3 DEF Broken, CallSlot
  <2>2. Stage = "broken"
    BY <2>1 DEF Stage
  <2>3. AfterRun(2, 1, trident[1], "broken") /\ AfterRun(2, 2, trident[2], "broken")
    BY <1>1, <2>1, <2>2, RunReturned
  <2>4. /\ trident[1].state = "FAULT" /\ trident[1].w = Trap /\ trident[1].generation = 1
        /\ trident[1].fault = "FINGERPRINT" /\ trident[2].fault = "UPSTREAM"
    BY <2>3 DEF AfterRun
  <2>5. genBefore = 1 /\ ~ entered
    BY <1>1, <2>1 DEF ServiceInv, ImagesInv, TrapInv
  <2>6. AddressOf(trident[1]) = NoAddress /\ trident[1].w # ProvAddBad.address
    BY <2>4, OfferAddresses DEF AddressOf
  <2>7. QED
    BY <1>3, <2>1, <2>4, <2>5, <2>6 DEF Broken
<1>4. ASSUME Healed PROVE ok' = TRUE /\ at' = "proved" /\ status' = status
  <2>1. at = "run healed" /\ image = "boot" /\ pc = "returned"
    BY <1>4 DEF Healed
  <2>2. Stage = "healed"
    BY <2>1 DEF Stage
  <2>3. bound = 2 /\ AfterRun(2, 1, trident[1], "healed")
    BY <1>1, <2>1, <2>2, RunReturned DEF Binding
  <2>4. /\ trident[1].state = "BOUND" /\ trident[1].w = ProvAdd.address
        /\ trident[1].generation = 2
    BY <2>3 DEF AfterRun, ChainProv
  <2>5. genBefore = 1 /\ ok = TRUE
    BY <1>1, <2>1 DEF ServiceInv
  <2>6. AddressOf(trident[1]) = ProvAdd.address /\ Resolved(2)
    BY <2>1, <2>3, <2>4 DEF AddressOf, Resolved
  <2>7. ok' = TRUE
    <3>1. trident[1].generation = genBefore + 1
      BY <2>4, <2>5
    <3>2. QED
      BY <1>4, <2>5, <2>6, <3>1, Zenon DEF Healed
  <2>8. QED
    BY <1>4, <2>7 DEF Healed
<1>5. QED
  BY <1>2, <1>3, <1>4

\* A step that leaves the graph alone keeps the stage.
LEMMA ChainFrame ==
  ASSUME ChainInv, UNCHANGED <<image, trident, deps, pc, loopVars>>, Stage' = Stage,
         at' = at \/ Stage = "none" \/ pc = "returned"
  PROVE  ChainInv'
<1>1. ChainLength' = ChainLength /\ Chained' = Chained
  BY DEF ChainLength, Chained
<1>2. UNCHANGED <<policy, pass, next, bound, prevBound>>
  BY DEF loopVars
<1>3. InRun => InRun'
  BY <1>1, <1>2 DEF InRun
<1>4. at' \in Runs \/ Stage = "none" \/ pc = "returned"
  BY DEF ChainInv
<1>5. QED
  BY <1>1, <1>2, <1>3, <1>4 DEF ChainInv

\* What the last step of the program leaves of g_system.
LEMMA ProgramSystem ==
  ASSUME MemoryInv, Program
  PROVE  sys'.complete = sys.complete
<1> DEFINE rotated == RotateBits(sys.memory[0].raw, 1)
           byte    == [sys.memory[0] EXCEPT !.raw = rotated, !.ring = InitCubitRing(rotated)]
<1>1. sys' = IF BoundAdd = NoAddress THEN sys ELSE [sys EXCEPT !.memory[0] = byte]
  BY DEF Program, Step
<1> HIDE DEF byte
<1>2. [sys EXCEPT !.memory[0] = byte].complete = sys.complete
  <2>1. sys = [memory |-> sys.memory, complete |-> sys.complete]
    BY DEF MemoryInv
  <2>2. [sys EXCEPT !.memory[0] = byte] =
          [memory |-> [sys.memory EXCEPT ![0] = byte], complete |-> sys.complete]
    BY <2>1
  <2>3. QED
    BY <2>2
<1>3. QED
  BY <1>1, <1>2

\* The nodes of a new chain.
LEMMA ChainBuilt ==
  ASSUME NEW required, NEW offers, BuildChain(required, offers),
         required = [k \in 1 .. ChainLength |-> ChainReq(ChainLength, k)],
         offers = [k \in 1 .. ChainLength |-> ChainProv(ChainLength, k)],
         image' = image, at' = "run up"
  PROVE  ChainInv'
<1> DEFINE L == ChainLength
           node(k) == [InitNode(ChainReq(L, k)) EXCEPT !.u2 = ChainProv(L, k)]
<1>1. L \in {2, 3} /\ ChainLength' = L /\ Chained' = 1 .. L /\ Stage' = "up"
  BY DEF ChainLength, Chained, Stage
<1>2. ASSUME NEW k \in 1 .. L
      PROVE  Hooked(L, k, node(k), "up") /\ BeforeRun(node(k), "up")
  <2> DEFINE req == ChainReq(L, k)
             prv == ChainProv(L, k)
  <2>1. req \in Descriptor /\ prv \in Descriptor
    BY ContractsAreDescriptors DEF ChainReq, ChainProv
  <2>2. /\ InitNode(req) \in Node
        /\ InitNode(req).u1 = req /\ InitNode(req).w = Trap
        /\ InitNode(req).state = "UNRESOLVED" /\ InitNode(req).generation = 0
    BY <2>1 DEF InitNode, Node, BindStates, Faults
  <2> HIDE DEF L
  <2>3. /\ node(k) \in Node
        /\ node(k).u1 = req /\ node(k).u2 = prv /\ node(k).w = Trap
        /\ node(k).state = "UNRESOLVED" /\ node(k).generation = 0
    <3> DEFINE n == InitNode(req)
    <3>1. node(k) = [n EXCEPT !.u2 = prv]
      OBVIOUS
    <3> HIDE DEF n, node, prv
    <3>2. [n EXCEPT !.u2 = prv] \in Node
      BY <2>1, <2>2 DEF Node, n
    <3>3. /\ [n EXCEPT !.u2 = prv].u1 = n.u1 /\ [n EXCEPT !.u2 = prv].u2 = prv
          /\ [n EXCEPT !.u2 = prv].w = n.w /\ [n EXCEPT !.u2 = prv].state = n.state
          /\ [n EXCEPT !.u2 = prv].generation = n.generation
      BY <2>2 DEF Node, n
    <3>4. QED
      BY <2>2, <3>1, <3>2, <3>3 DEF n
  <2> HIDE DEF node
  <2>4. QED
    BY <2>3 DEF Hooked, BeforeRun, req, prv
<1>3. /\ DOMAIN required = 1 .. L
      /\ \A k \in 1 .. L : required[k] = ChainReq(L, k) /\ offers[k] = ChainProv(L, k)
  OBVIOUS
<1>4. trident' = [k \in 1 .. L |-> node(k)]
  BY <1>3 DEF BuildChain
<1>5. /\ deps' = [n \in 1 .. L |-> IF n = 1 THEN {} ELSE {n - 1}]
      /\ pc' = "idle"
  BY <1>3 DEF BuildChain
<1> HIDE DEF L, node
<1>6. /\ trident' \in [1 .. L -> Node]
      /\ \A k \in 1 .. L : Hooked(L, k, trident'[k], "up") /\ BeforeRun(trident'[k], "up")
  BY <1>2, <1>4 DEF Hooked
<1>7. QED
  BY <1>1, <1>5, <1>6 DEF ChainInv, Runs

\* The first node of a chain, whose run has returned, is offered something else.
LEMMA ChainReoffered ==
  ASSUME ChainInv, pc = "returned", image' = image, at' \in Runs,
         NEW s \in {"broken", "healed"}, Stage' = s,
         Stage = IF s = "broken" THEN "up" ELSE "broken",
         AttachFirst(IF s = "broken" THEN ProvAddBad ELSE ProvAdd)
  PROVE  ChainInv'
<1> DEFINE L == ChainLength
           d == IF s = "broken" THEN ProvAddBad ELSE ProvAdd
           n == trident[1]
           r == [n EXCEPT !.u2 = d]
<1>1. L \in {2, 3} /\ Chained = 1 .. L
  BY DEF ChainLength, Chained
<1>2. ChainLength' = L /\ Chained' = Chained
  BY DEF ChainLength, Chained
<1>3. d \in Descriptor
  BY ContractsAreDescriptors
<1>4. /\ trident \in [Chained -> Node]
      /\ deps = [k \in Chained |-> IF k = 1 THEN {} ELSE {k - 1}]
      /\ \A k \in Chained : /\ Hooked(L, k, trident[k], Stage)
                            /\ AfterRun(L, k, trident[k], Stage)
  BY DEF ChainInv
<1>5. trident' = [trident EXCEPT ![1] = r] /\ pc' = "idle" /\ deps' = deps /\ 1 \in Chained
  <2>1. 1 \in Chained /\ trident[1] \in Node
    <3>1. 1 \in Chained
      BY <1>1
    <3>2. QED
      BY <1>4, <3>1
  <2>2. trident' = [trident EXCEPT ![1].u2 = d] /\ pc' = "idle" /\ deps' = deps
    BY DEF AttachFirst
  <2>3. trident' = [trident EXCEPT ![1] = r]
    BY <1>4, <2>1, <2>2
  <2>4. QED
    BY <2>1, <2>2, <2>3
<1>7. /\ r \in Node /\ r.u1 = n.u1 /\ r.u2 = d /\ r.w = n.w /\ r.state = n.state
      /\ r.generation = n.generation
  <2>1. n \in Node /\ d \in Descriptor
    BY <1>3, <1>4, <1>5
  <2> HIDE DEF n
  <2>2. QED
    BY <2>1 DEF Node
<1>6. d = IF s = "broken" THEN ProvAddBad ELSE ChainProv(L, 1)
  BY <1>1 DEF ChainProv
<1> HIDE DEF r, d, L
<1>8. /\ trident' \in [Chained -> Node]
      /\ trident'[1] = r
      /\ \A k \in Chained \ {1} : trident'[k] = trident[k]
  BY <1>4, <1>5, <1>7
<1>9. ASSUME NEW k \in Chained
      PROVE  Hooked(L, k, trident'[k], s) /\ BeforeRun(trident'[k], s)
  <2>1. Hooked(L, k, trident[k], Stage) /\ AfterRun(L, k, trident[k], Stage)
    BY <1>4
  <2>2. BeforeRun(trident[k], s)
    BY <2>1 DEF AfterRun, BeforeRun
  <2>3. CASE k = 1
    BY <1>6, <1>7, <1>8, <2>1, <2>2, <2>3 DEF Hooked, BeforeRun
  <2>4. CASE k # 1
    BY <1>8, <2>1, <2>2, <2>4 DEF Hooked
  <2>5. QED
    BY <2>3, <2>4
<1>10. QED
  BY <1>1, <1>4, <1>5, <1>8, <1>9, <1>2, <1>3 DEF ChainInv

LEMMA StepChain ==
  ASSUME ImagesInv, [Next]_allVars
  PROVE  ChainInv'
<1>1. ChainInv /\ MemoryInv /\ (image = "boot" => ServiceInv)
  BY DEF ImagesInv
<1> DEFINE sameGraph == UNCHANGED <<trident, deps, pc, loopVars>>
           Quiet     == BeforeServices \union {"bind", "bring up", "failed"}
<1>2. ASSUME StartBoot \/ Phase0 \/ Phase1 \/ Phase2 \/ Phase3 \/ Phase4And5 \/ Phase6
             \/ ValidateServices \/ BindService \/ PublishServices
      PROVE  ChainInv'
  <2>1. image = "boot" /\ image' = image /\ sameGraph
    BY <1>2 DEF StartBoot, Phase0, Phase1, Phase2, Phase3, Phase4And5, Phase6, ValidateServices,
                BindService, PublishServices, Step, Treat, Phase8Frame, graph
  <2>2. at \in Quiet /\ at' \in Quiet
    BY <1>2 DEF StartBoot, Phase0, Phase1, Phase2, Phase3, Phase4And5, Phase6, ValidateServices,
                BindService, PublishServices, Step, Fail, BeforeServices
  <2>3. Stage = "none" /\ Stage' = "none"
    BY <2>1, <2>2 DEF Stage, BeforeServices, AfterSelfTest
  <2>4. QED
    BY <1>1, <2>1, <2>3, ChainFrame
<1>3. CASE BringUp
  <2>1. image = "boot" /\ image' = image /\ at' = "run up" /\ ChainLength = 2
    BY <1>3 DEF BringUp, Step, Phase8Frame, ChainLength
  <2>2. /\ <<ReqAdd, ReqMul>> = [k \in 1 .. 2 |-> ChainReq(2, k)]
        /\ <<ProvAdd, ProvMul>> = [k \in 1 .. 2 |-> ChainProv(2, k)]
    BY DEF ChainReq, ChainProv
  <2>3. BuildChain(<<ReqAdd, ReqMul>>, <<ProvAdd, ProvMul>>)
    BY <1>3 DEF BringUp
  <2>4. QED
    BY <2>1, <2>2, <2>3, ChainBuilt
<1>4. CASE RunArith
  BY <1>1, <1>4, RunArithIsChainStep, ChainStepKeeps
<1>5. ASSUME BroughtUp \/ Broken \/ Healed \/ Phase8Done \/ Phase7 \/ Launch
      PROVE  ChainInv'
  <2>1. image = "boot" /\ image' = image /\ sameGraph
    BY <1>5 DEF BroughtUp, Broken, Healed, Phase8Done, Phase7, Launch, Step, Phase8Frame, graph
  <2>2. \/ at = "run up" /\ at' = "break"
        \/ at = "run broken" /\ at' = "heal"
        \/ /\ at \in {"run healed", "proved", "complete", "ready"}
           /\ at' \in {"proved", "complete", "ready", "program"}
    BY <1>5, SelfTestReports DEF BroughtUp, Broken, Healed, Phase8Done, Phase7, Launch, Step
  <2>3. Stage' = Stage
    BY <2>1, <2>2 DEF Stage, AfterSelfTest
  <2>4. pc = "returned"
    <3>1. CASE BroughtUp \/ Broken \/ Healed
      BY <3>1 DEF BroughtUp, Broken, Healed
    <3>2. CASE Phase8Done \/ Phase7 \/ Launch
      <4>1. at \notin Runs /\ Stage # "none"
        BY <3>2 DEF Phase8Done, Phase7, Launch, Step, Runs, Stage, AfterSelfTest
      <4>2. QED
        BY <1>1, <4>1 DEF ChainInv
    <3>3. QED
      BY <1>5, <3>1, <3>2
  <2>5. QED
    BY <1>1, <2>1, <2>3, <2>4, ChainFrame
<1>6. CASE Break \/ Heal
  <2> DEFINE s == IF at = "break" THEN "broken" ELSE "healed"
  <2>1. /\ image = "boot" /\ image' = image
        /\ \/ at = "break" /\ at' = "run broken" /\ AttachFirst(ProvAddBad)
           \/ at = "heal" /\ at' = "run healed" /\ AttachFirst(ProvAdd)
    BY <1>6 DEF Break, Heal, Step, Phase8Frame
  <2>2. /\ Stage = IF s = "broken" THEN "up" ELSE "broken"
        /\ Stage' = s /\ at' \in Runs /\ at \notin Runs /\ s \in {"broken", "healed"}
    BY <2>1 DEF Stage, Runs
  <2>3. AttachFirst(IF s = "broken" THEN ProvAddBad ELSE ProvAdd)
    BY <2>1
  <2>4. pc = "returned"
    BY <1>1, <2>2 DEF ChainInv
  <2> HIDE DEF s
  <2>5. QED
    BY <1>1, <2>1, <2>2, <2>3, <2>4, ChainReoffered
<1>7. CASE Program
  <2>1. image' = image /\ sameGraph /\ at = "program" /\ at' = "halted" /\ image = "boot"
    BY <1>7 DEF Program, Step, graph
  <2>2. sys'.complete = sys.complete /\ sys.complete
    BY <1>1, <1>7, <2>1, ProgramSystem DEF ServiceInv
  <2>3. Stage = "healed" /\ Stage' = "healed"
    BY <2>1, <2>2 DEF Stage, AfterSelfTest
  <2>4. pc = "returned"
    BY <1>1, <2>1, <2>3 DEF ChainInv, Runs
  <2>5. QED
    BY <1>1, <2>1, <2>3, <2>4, ChainFrame
<1>8. CASE BootFailed
  <2>1. /\ image' = image /\ sameGraph /\ at = "failed" /\ at' = "halted" /\ image = "boot"
        /\ sys' = sys
    BY <1>8 DEF BootFailed, Step, graph, bootVars
  <2>2. ~ sys.complete
    BY <1>1, <2>1 DEF ServiceInv
  <2>3. Stage = "none" /\ Stage' = "none"
    BY <2>1, <2>2 DEF Stage, AfterSelfTest
  <2>4. QED
    BY <1>1, <2>1, <2>3, ChainFrame
<1>9. ASSUME QemuNext, UNCHANGED bootVars
      PROVE  ChainInv'
  <2>1. image = "qemu" /\ image' = image /\ sys' = sys
    BY <1>9 DEF QemuNext, Fresh, Agree, Disagree, CallFaulted, HealNode, ChainUp, RunChain,
                ChainBreak, ChainHeal, ChainHealed, Report, Exit, Step, bootVars
  <2>2. CASE Fresh \/ Agree \/ Disagree \/ CallFaulted \/ HealNode
    <3>1. /\ sameGraph
          /\ at \in {"start", "agree", "disagree", "call", "heal"}
          /\ at' \in {"agree", "disagree", "call", "heal", "chain"}
      BY <2>2 DEF Fresh, Agree, Disagree, CallFaulted, HealNode, Step, graph
    <3>2. Stage = "none" /\ Stage' = "none"
      BY <2>1, <3>1 DEF Stage, AfterSelfTest
    <3>3. QED
      BY <1>1, <2>1, <3>1, <3>2, ChainFrame
  <2>3. CASE ChainUp
    <3>1. at' = "run up" /\ ChainLength = 3
      BY <2>1, <2>3 DEF ChainUp, Step, ChainLength
    <3>2. /\ <<ReqAdd, ReqAdd, ReqAdd>> = [k \in 1 .. 3 |-> ChainReq(3, k)]
          /\ <<ProvAdd, ProvAdd, ProvAdd>> = [k \in 1 .. 3 |-> ChainProv(3, k)]
      BY DEF ChainReq, ChainProv
    <3>3. BuildChain(<<ReqAdd, ReqAdd, ReqAdd>>, <<ProvAdd, ProvAdd, ProvAdd>>)
      BY <2>3 DEF ChainUp
    <3>4. QED
      BY <2>1, <3>1, <3>2, <3>3, ChainBuilt
  <2>4. CASE RunChain
    BY <1>1, <2>1, <2>4, RunChainIsChainStep, ChainStepKeeps
  <2>5. CASE ChainBreak \/ ChainHeal
    <3> DEFINE s == IF at = "run up" THEN "broken" ELSE "healed"
    <3>1. /\ pc = "returned"
          /\ \/ at = "run up" /\ at' = "run broken" /\ AttachFirst(ProvAddBad)
             \/ at = "run broken" /\ at' = "run healed" /\ AttachFirst(ProvAdd)
      BY <2>5 DEF ChainBreak, ChainHeal, Step
    <3>2. /\ Stage = IF s = "broken" THEN "up" ELSE "broken"
          /\ Stage' = s /\ at' \in Runs /\ s \in {"broken", "healed"}
      BY <2>1, <3>1 DEF Stage, Runs
    <3>3. AttachFirst(IF s = "broken" THEN ProvAddBad ELSE ProvAdd)
      BY <3>1
    <3> HIDE DEF s
    <3>4. QED
      BY <1>1, <2>1, <3>1, <3>2, <3>3, ChainReoffered
  <2>6. CASE ChainHealed \/ Report \/ Exit
    <3>1. /\ sameGraph
          /\ at \in {"run healed", "report", "exit"} /\ at' \in {"report", "exit", "halted"}
          /\ at = "run healed" => pc = "returned"
      BY <2>6 DEF ChainHealed, Report, Exit, Step, graph
    <3>2. Stage = "healed" /\ Stage' = "healed"
      BY <2>1, <3>1 DEF Stage, AfterSelfTest
    <3>3. pc = "returned"
      BY <1>1, <3>1, <3>2 DEF ChainInv, Runs
    <3>4. QED
      BY <1>1, <2>1, <3>1, <3>2, <3>3, ChainFrame
  <2>7. QED
    BY <1>9, <2>2, <2>3, <2>4, <2>5, <2>6 DEF QemuNext
<1>10. ASSUME PutChar \/ Transmitted \/ UNCHANGED allVars, UNCHANGED bootVars
       PROVE  ChainInv'
  <2>1. UNCHANGED <<image, at, sys>> /\ sameGraph
    BY <1>10 DEF PutChar, Transmitted, allVars, bootVars, graph
  <2>2. Stage' = Stage
    BY <2>1 DEF Stage
  <2>3. QED
    BY <1>1, <2>1, <2>2, ChainFrame
<1>11. QED
  <2>1. UNCHANGED allVars => UNCHANGED bootVars
    BY DEF allVars
  <2>2. QED
    BY <1>2, <1>3, <1>4, <1>5, <1>6, <1>7, <1>8, <1>9, <1>10, <2>1 DEF Next, BootNext, Halted
-----------------------------------------------------------------------------
(* The kernel services                                                     *)

LEMMA ServicesAreDescriptors ==
  /\ Services = <<Services[1], Services[2]>>
  /\ Services[1] \in Descriptor /\ Services[2] \in Descriptor
  /\ Len(Services) = 2 /\ DOMAIN Services = 1 .. 2
<1>1. V1 \in Version
  <2>1. {0, 1} \subseteq U16 /\ Stable \in U8
    BY DEF U16, U8, Stable
  <2>2. QED
    BY <2>1 DEF V1, Version
<1>2. /\ {"kputs", "kputhex"} \subseteq Symbols
      /\ \A shape \in {"s_v", "u32_v"} : [cc |-> "cdecl", shape |-> shape] \in Sigs
  BY ImageAssumption, ContractsAssumption, BootAssumption DEF Sigs
<1>3. ASSUME NEW symbol \in {"kputs", "kputhex"}, NEW shape \in {"s_v", "u32_v"}
      PROVE  Export(symbol, shape, V1, NoAddress) \in Descriptor
  BY <1>1, <1>2 DEF Export, Descriptor
<1>4. QED
  BY <1>3 DEF Services

\* What the table offers for a service, and the slot it makes.
LEMMA ServiceNodeMeaning ==
  ASSUME ksvc \in Tables, Validate(ksvc, Native) = "OK", NEW i \in 1 .. 2
  PROVE  /\ ServiceNode(i) \in Node
         /\ ServiceNode(i).state = "BOUND"
              <=> Admits(Services[i], Find(ksvc, Services[i].symbol), DefaultPolicy)
         /\ ServiceNode(i).state = "BOUND" => ServiceNode(i).w \in Addresses
<1> DEFINE req == Services[i]
           prv == Find(ksvc, req.symbol)
<1>1. req \in Descriptor
  BY ServicesAreDescriptors
<1>2. ksvc \in Table
  BY BootAssumption DEF Validate
<1>3. prv \in Descriptor \union {NoDesc}
  BY <1>2 DEF Find, Table
<1>4. PICK n \in Node : n = InitNode(req) /\ n.u1 = req
  <2>1. InitNode(req) \in Node /\ InitNode(req).u1 = req
    BY <1>1 DEF InitNode, Node, BindStates, Faults
  <2>2. QED
    BY <2>1
<1>5. DefaultPolicy \in Policy
  BY ContractsAreDescriptors
<1> HIDE DEF req, prv
<1>6. PICK b \in BOOLEAN : b = TRUE
  OBVIOUS
<1> DEFINE r == SwapNode(n, prv, DefaultPolicy, b)
<1>7. /\ r \in Node
      /\ r.state = "BOUND" <=> b /\ Admits(req, prv, DefaultPolicy)
      /\ r.state = "BOUND" => r.w \in Addresses
  <2>1. r \in Node
    BY <1>3, <1>5, SwapNodeMeaning
  <2>2. r.state = "BOUND" <=> b /\ Admits(n.u1, prv, DefaultPolicy)
    BY <1>3, <1>5, SwapNodeMeaning
  <2>3. r.state = "BOUND" => r.w \in Addresses
    BY <1>3, <1>5, SwapNodeMeaning
  <2>4. QED
    BY <1>4, <2>1, <2>2, <2>3
<1>8. r = ServiceNode(i)
  BY <1>4, <1>6 DEF ServiceNode, req, prv
<1> HIDE DEF r
<1>9. QED
  BY <1>6, <1>7, <1>8 DEF req, prv
\* A step that leaves the services alone.
LEMMA ServiceFrame ==
  ASSUME ServiceInv, UNCHANGED <<ksvc, status, service, P, H>>, ok' = TRUE,
         sys'.complete \in BOOLEAN,
         sys'.complete => at' \in {"ready", "program", "halted"},
         at' \in {"ready", "program"} => sys'.complete,
         UpWithServices' <=> UpWithServices,
         at' \in BeforeServices => at \in BeforeServices,
         at' = "bind" => at = "bind",
         UpWithServices \/ (at' \in {"failed", "halted"} <=> at \in {"failed", "halted"}),
         at' \in {"run broken", "heal", "run healed"} => genBefore' = 1
  PROVE  ServiceInv'
<1>1. TableServes' <=> TableServes
  BY DEF TableServes
<1>2. \A i : ServiceNode(i)' = ServiceNode(i)
  BY DEF ServiceNode
<1>3. service' = [i \in 1 .. Len(service') |-> ServiceNode(i)']
  BY <1>2 DEF ServiceInv
<1>4. /\ ksvc' \in Tables
      /\ Len(service') \in 0 .. 2
      /\ service' # <<>> => Validate(ksvc', Native) = "OK"
      /\ at' \in BeforeServices => service' = <<>>
      /\ at' = "bind" => Validate(ksvc', Native) = "OK"
  BY DEF ServiceInv
<1>5. at' = "bind" \/ UpWithServices' => \A i \in DOMAIN service' : service'[i].state = "BOUND"
  BY DEF ServiceInv
<1>6. IF UpWithServices'
      THEN /\ TableServes' /\ status' = "OK"
           /\ Len(service') = 2 /\ P' = service'[1].w /\ H' = service'[2].w
      ELSE /\ P' = NoAddress /\ H' = NoAddress
           /\ IF at' \in {"failed", "halted"} THEN ~ TableServes' /\ status' # "OK"
              ELSE status' = "OK"
  <2>1. CASE UpWithServices
    BY <1>1, <2>1 DEF ServiceInv
  <2>2. CASE ~ UpWithServices
    BY <1>1, <2>2 DEF ServiceInv
  <2>3. QED
    BY <2>1, <2>2
<1>7. QED
  BY <1>3, <1>4, <1>5, <1>6 DEF ServiceInv
\* The three steps of bind_kernel_services.
LEMMA BindingServices ==
  ASSUME ServiceInv, MemoryInv, ValidateServices \/ BindService \/ PublishServices
  PROVE  ServiceInv'
<1>1. /\ sys' = sys /\ ksvc' = ksvc /\ ok' = ok /\ genBefore' = genBefore
      /\ at \in {"services", "bind"} /\ at' \in {"bind", "failed", "bring up"}
  BY DEF ValidateServices, BindService, PublishServices, Phase8Frame, Fail
<1>2. /\ ~ UpWithServices /\ ~ sys.complete /\ P = NoAddress /\ H = NoAddress /\ status = "OK"
      /\ ok = TRUE
  BY <1>1 DEF ServiceInv, UpWithServices, Verified, Runs, AfterSelfTest
<1>3. UpWithServices' <=> at' = "bring up"
  BY <1>1 DEF UpWithServices, Verified, Runs, AfterSelfTest
<1>4. TableServes' <=> TableServes
  BY <1>1 DEF TableServes
<1>5. \A i : ServiceNode(i)' = ServiceNode(i)
  BY <1>1 DEF ServiceNode
<1>6. /\ sys'.complete \in BOOLEAN /\ ~ sys'.complete /\ ok' = TRUE /\ ksvc' \in Tables
      /\ at' \notin BeforeServices \union {"ready", "program", "halted", "run broken", "heal", "run healed"}
  BY <1>1, <1>2 DEF ServiceInv, BeforeServices
<1>7. CASE ValidateServices
  <2>1. /\ service = <<>> /\ service' = <<>> /\ P' = NoAddress /\ H' = NoAddress
    BY <1>7 DEF ValidateServices, ServiceInv, BeforeServices
  <2>2. /\ service' = [i \in 1 .. Len(service') |-> ServiceNode(i)'] /\ Len(service') = 0
        /\ \A i \in DOMAIN service' : service'[i].state = "BOUND"
    BY <2>1
  <2>3. CASE Validate(ksvc, Native) = "OK"
    <3>1. at' = "bind" /\ status' = "OK"
      BY <1>2, <1>7, <2>3 DEF ValidateServices
    <3>2. QED
      BY <1>1, <1>3, <1>6, <2>1, <2>2, <2>3, <3>1 DEF ServiceInv
  <2>4. CASE Validate(ksvc, Native) # "OK"
    <3>1. at' = "failed" /\ status' # "OK"
      BY <1>7, <2>4 DEF ValidateServices, Fail
    <3>2. ~ TableServes'
      BY <1>4, <2>4 DEF TableServes
    <3>3. QED
      BY <1>1, <1>3, <1>6, <2>1, <2>2, <3>1, <3>2 DEF ServiceInv
  <2>5. QED
    BY <2>3, <2>4
<1>8. CASE BindService
  <2> DEFINE i == Len(service) + 1
             n == ServiceNode(i)
  <2>1. /\ at = "bind" /\ i \in 1 .. 2 /\ Len(service) \in 0 .. 1
        /\ service' = Append(service, n) /\ P' = NoAddress /\ H' = NoAddress
        /\ n.state = "BOUND" => at' = at /\ status' = status
        /\ n.state # "BOUND" => Fail("ABI_UNBOUND")
    <3>1. /\ at = "bind" /\ i \in DOMAIN Services /\ service' = Append(service, n)
          /\ P' = P /\ H' = H
      BY <1>8 DEF BindService, ServiceNode
    <3>2. /\ n.state = "BOUND" => at' = at /\ status' = status
          /\ n.state # "BOUND" => Fail("ABI_UNBOUND")
      BY <1>8 DEF BindService, ServiceNode
    <3>3. Len(service) \in 0 .. 2 /\ i \in 1 .. 2
      BY <3>1, ServicesAreDescriptors DEF ServiceInv
    <3>4. QED
      BY <1>2, <3>1, <3>2, <3>3
  <2>2. Validate(ksvc, Native) = "OK" /\ \A k \in DOMAIN service : service[k].state = "BOUND"
    BY <2>1 DEF ServiceInv
  <2>3. n.state = "BOUND" <=> Admits(Services[i], Find(ksvc, Services[i].symbol), DefaultPolicy)
    BY <2>1, <2>2, ServiceNodeMeaning DEF ServiceInv
  <2>4. n = ServiceNode(Len(service) + 1)
    OBVIOUS
  <2> HIDE DEF n
  <2>5. /\ service' = [k \in 1 .. Len(service') |-> ServiceNode(k)']
        /\ Len(service') \in 0 .. 2
        /\ n.state = "BOUND" => \A k \in DOMAIN service' : service'[k].state = "BOUND"
    <3>1. service = [k \in 1 .. Len(service) |-> ServiceNode(k)]
      BY DEF ServiceInv
    <3>2. PICK L \in 0 .. 1 : L = Len(service)
      BY <2>1
    <3>3. Append(service, n) = [k \in 1 .. L + 1 |-> ServiceNode(k)]
      BY <2>4, <3>1, <3>2
    <3>4. service' = [k \in 1 .. L + 1 |-> ServiceNode(k)]
      BY <2>1, <3>3
    <3>5. Len(service') = L + 1 /\ L + 1 \in 0 .. 2 /\ DOMAIN service' = 1 .. L + 1
      BY <3>4
    <3>6. service' = [k \in 1 .. Len(service') |-> ServiceNode(k)']
      BY <1>5, <3>4, <3>5
    <3>7. ASSUME n.state = "BOUND", NEW k \in DOMAIN service' PROVE service'[k].state = "BOUND"
      <4>1. CASE k = L + 1
        BY <2>4, <3>2, <3>4, <3>5, <3>7, <4>1
      <4>2. CASE k # L + 1
        <5>1. k \in 1 .. L /\ DOMAIN service = 1 .. L
          BY <3>1, <3>2, <3>5, <3>7, <4>2
        <5>2. service'[k] = service[k]
          BY <3>1, <3>2, <3>4, <3>5, <5>1
        <5>3. QED
          BY <2>2, <5>1, <5>2
      <4>3. QED
        BY <4>1, <4>2
    <3>8. QED
      BY <3>5, <3>6, <3>7
  <2>6. CASE n.state = "BOUND"
    BY <1>1, <1>2, <1>3, <1>6, <2>1, <2>2, <2>5, <2>6 DEF ServiceInv
  <2>7. CASE n.state # "BOUND"
    <3>1. at' = "failed" /\ status' # "OK"
      BY <2>1, <2>7 DEF Fail
    <3>2. ~ TableServes'
      BY <1>4, <2>1, <2>3, <2>7, ServicesAreDescriptors DEF TableServes
    <3>3. QED
      BY <1>1, <1>3, <1>6, <2>1, <2>2, <2>5, <3>1, <3>2 DEF ServiceInv
  <2>8. QED
    BY <2>6, <2>7
<1>9. CASE PublishServices
  <2>1. /\ at = "bind" /\ Len(service) = 2 /\ service' = service
        /\ P' = AddressOf(service[1]) /\ H' = AddressOf(service[2])
        /\ NoAddress \notin {P', H'} => at' = "bring up" /\ status' = status
    <3>1. /\ at = "bind" /\ Len(service) = 2 /\ service' = service
          /\ P' = AddressOf(service[1]) /\ H' = AddressOf(service[2])
      BY <1>9, ServicesAreDescriptors DEF PublishServices
    <3>2. NoAddress \notin {P', H'} => at' = "bring up" /\ status' = status
      BY <1>9, Zenon DEF PublishServices
    <3>3. QED
      BY <3>1, <3>2
  <2>2. /\ Validate(ksvc, Native) = "OK"
        /\ service = [k \in 1 .. 2 |-> ServiceNode(k)]
        /\ \A k \in 1 .. 2 : service[k] = ServiceNode(k) /\ service[k].state = "BOUND"
    BY <2>1 DEF ServiceInv
  <2>3. \A k \in 1 .. 2 : /\ Admits(Services[k], Find(ksvc, Services[k].symbol), DefaultPolicy)
                          /\ service[k].w \in Addresses
    BY <2>2, ServiceNodeMeaning DEF ServiceInv
  <2>4. P' = service[1].w /\ H' = service[2].w /\ NoAddress \notin {P', H'}
    <3>0. service[1].state = "BOUND" /\ service[2].state = "BOUND"
      BY <2>2
    <3>1. P' = service[1].w /\ H' = service[2].w
      BY <2>1, <3>0 DEF AddressOf
    <3>2. service[1].w \in Addresses /\ service[2].w \in Addresses
      BY <2>3
    <3>3. QED
      BY <3>1, <3>2, NullsAssumption
  <2>5. at' = "bring up" /\ status' = "OK"
    BY <1>2, <2>1, <2>4
  <2>6. TableServes'
    BY <1>4, <2>2, <2>3, ServicesAreDescriptors DEF TableServes
  <2>7. /\ Len(service') = 2
        /\ P' = service'[1].w /\ H' = service'[2].w
    BY <2>1, <2>4
  <2>8. service' = [k \in 1 .. Len(service') |-> ServiceNode(k)']
    BY <1>5, <2>1, <2>2
  <2>9. \A k \in DOMAIN service' : service'[k].state = "BOUND"
    BY <2>1 DEF ServiceInv
  <2>10. /\ at' \notin BeforeServices /\ at' # "bind" /\ UpWithServices'
         /\ Validate(ksvc', Native) = "OK"
    BY <1>1, <1>3, <1>6, <2>2, <2>5
  <2>11. IF UpWithServices'
         THEN /\ TableServes' /\ status' = "OK"
              /\ Len(service') = 2 /\ P' = service'[1].w /\ H' = service'[2].w
         ELSE /\ P' = NoAddress /\ H' = NoAddress
              /\ IF at' \in {"failed", "halted"} THEN ~ TableServes' /\ status' # "OK"
                 ELSE status' = "OK"
    BY <2>5, <2>6, <2>7, <2>10
  <2>12. Len(service') \in 0 .. 2
    BY <2>7
  <2>13. /\ service' # <<>> => Validate(ksvc', Native) = "OK"
         /\ at' \in BeforeServices => service' = <<>>
         /\ at' = "bind" => Validate(ksvc', Native) = "OK"
    BY <2>10
  <2>14. /\ at' = "bind" \/ UpWithServices' => \A i \in DOMAIN service' : service'[i].state = "BOUND"
         /\ at' \in {"run broken", "heal", "run healed"} => genBefore' = 1
         /\ at' \in {"ready", "program"} => sys'.complete
    BY <1>6, <2>9
  <2>15. QED
    BY <1>6, <2>8, <2>11, <2>12, <2>13, <2>14 DEF ServiceInv
<1>10. QED
  BY <1>7, <1>8, <1>9
\* Phases 1 to 6 neither fail nor end the boot.
LEMMA PhasesGoOn ==
  ASSUME MemoryInv, Phase1 \/ Phase2 \/ Phase3 \/ Phase4And5 \/ Phase6
  PROVE  /\ at \in BeforeServices /\ at' \in BeforeServices
         /\ status' = status /\ ksvc' = ksvc /\ phase8' = phase8 /\ image' = image
         /\ sys'.complete = sys.complete
<1>1. sys = [memory |-> sys.memory, complete |-> sys.complete]
  BY DEF MemoryInv
<1>2. ASSUME NEW f, Treat(f)
      PROVE  /\ sys'.complete = sys.complete /\ ksvc' = ksvc /\ phase8' = phase8 /\ image' = image
  <2>1. [sys EXCEPT !.memory = f].complete = sys.complete
    BY <1>1
  <2>2. QED
    BY <1>2, <2>1 DEF Treat
<1>3. CASE Phase1
  BY <1>2, <1>3 DEF Phase1, Step, BeforeServices
<1>4. CASE Phase2
  <2>1. \A i \in ByteNumbers : ~ Locked(CompassAlignment(sys.memory[i]))
    BY CompassAlignmentMeaning DEF MemoryInv
  <2>2. ~ \E i \in ByteNumbers : Locked([j \in ByteNumbers |-> CompassAlignment(sys.memory[j])][i])
    BY <2>1
  <2>3. at = "phase 2" /\ at' = "phase 3" /\ status' = status
    BY <1>4, <2>2 DEF Phase2
  <2>4. QED
    BY <1>2, <1>4, <2>3 DEF Phase2, BeforeServices
<1>5. CASE Phase3
  BY <1>2, <1>5 DEF Phase3, Step, BeforeServices
<1>6. CASE Phase4And5
  BY <1>2, <1>6 DEF Phase4And5, Step, BeforeServices
<1>7. CASE Phase6
  <2>1. \A i \in ByteNumbers : RotatesFreely(sys.memory[i])
    BY RotatesFreelyMeaning DEF MemoryInv
  <2>2. at = "phase 6" /\ at' = "services" /\ status' = status
    BY <1>7, <2>1 DEF Phase6
  <2>3. QED
    BY <1>2, <1>7, <2>2 DEF Phase6, BeforeServices
<1>8. QED
  BY <1>3, <1>4, <1>5, <1>6, <1>7

LEMMA StepService ==
  ASSUME ImagesInv, image = "boot", [Next]_allVars
  PROVE  ServiceInv'
<1> DEFINE same == UNCHANGED <<ksvc, status, service, P, H>>
<1>1. ServiceInv /\ MemoryInv
  BY DEF ImagesInv
<1>2. sys.complete \in BOOLEAN /\ ok = TRUE
  BY <1>1 DEF ServiceInv
<1>3. ASSUME same, ok' = TRUE, sys'.complete = sys.complete,
             at \in BeforeServices, at' \in BeforeServices
      PROVE  ServiceInv'
  <2>1. ~ sys.complete /\ ~ UpWithServices
    BY <1>1, <1>3 DEF ServiceInv, UpWithServices, BeforeServices, Verified, Runs, AfterSelfTest
  <2>2. ~ UpWithServices'
    BY <1>3 DEF UpWithServices, BeforeServices, Verified, Runs, AfterSelfTest
  <2>3. at' \notin {"ready", "program", "bind", "failed", "halted", "run broken", "heal", "run healed"}
        /\ at \notin {"failed", "halted"}
    BY <1>3 DEF BeforeServices
  <2>4. QED
    BY <1>1, <1>2, <1>3, <2>1, <2>2, <2>3, ServiceFrame
<1>4. ASSUME same, ok' = TRUE, sys'.complete = sys.complete,
             at \in Verified \ {"ready", "program"}, at' \in Verified \ {"ready", "program"},
             at' \in {"run broken", "heal", "run healed"} => genBefore' = 1
      PROVE  ServiceInv'
  <2>1. ~ sys.complete /\ UpWithServices
    BY <1>1, <1>4 DEF ServiceInv, UpWithServices, Verified, Runs, AfterSelfTest
  <2>2. UpWithServices'
    BY <1>4 DEF UpWithServices
  <2>3. at' \notin BeforeServices /\ at' \notin {"ready", "program", "bind"}
    BY <1>4 DEF BeforeServices, Verified, Runs, AfterSelfTest
  <2>4. QED
    BY <1>1, <1>2, <1>4, <2>1, <2>2, <2>3, ServiceFrame
<1>5. CASE StartBoot \/ Phase0
  <2>1. same /\ ok' = TRUE /\ sys' = sys /\ at \in BeforeServices /\ at' \in BeforeServices
    BY <1>2, <1>5 DEF StartBoot, Phase0, Step, BeforeServices, bootVars, phase8
  <2>2. QED
    BY <1>3, <2>1
<1>6. CASE Phase1 \/ Phase2 \/ Phase3 \/ Phase4And5 \/ Phase6
  <2>1. /\ same /\ ok' = TRUE /\ sys'.complete = sys.complete
        /\ at \in BeforeServices /\ at' \in BeforeServices
    BY <1>1, <1>2, <1>6, PhasesGoOn DEF phase8
  <2>2. QED
    BY <1>3, <2>1
<1>7. CASE ValidateServices \/ BindService \/ PublishServices
  BY <1>1, <1>7, BindingServices
<1>8. CASE BringUp \/ RunArith \/ Heal \/ Phase8Done
  <2>1. same /\ ok' = TRUE /\ sys' = sys /\ genBefore' = genBefore
    BY <1>2, <1>8 DEF BringUp, RunArith, Heal, Phase8Done, Phase8Frame, phase8
  <2>2. \/ at = "bring up" /\ at' = "run up"
        \/ at = "heal" /\ at' = "run healed"
        \/ at = "proved" /\ at' = "complete"
        \/ RunArith /\ at' = at
    BY <1>8 DEF BringUp, RunArith, Heal, Phase8Done, Step
  <2>3. RunArith => at \in Runs
    <3>1. ChainInv /\ (RunArith => ChainStep)
      BY RunArithIsChainStep DEF ImagesInv
    <3>2. ChainStep => pc # "returned" /\ (pc = "idle" => at \in Runs)
      BY DEF ChainStep, ChainStarts, ChainResolves, ChainEnds
    <3>3. QED
      BY <3>1, <3>2 DEF ChainInv, ChainStep, ChainStarts, ChainResolves, ChainEnds
  <2>4. /\ at \in Verified \ {"ready", "program"} /\ at' \in Verified \ {"ready", "program"}
        /\ at' \in {"run broken", "heal", "run healed"} => at \in {"run broken", "heal", "run healed"}
    BY <2>2, <2>3 DEF Verified, Runs, AfterSelfTest
  <2>5. QED
    BY <1>1, <1>4, <2>1, <2>4 DEF ServiceInv
<1>9. CASE BroughtUp \/ Broken \/ Healed
  <2>1. /\ same /\ sys' = sys /\ genBefore' = genBefore /\ ok' = TRUE
        /\ \/ at = "run up" /\ at' = "break"
           \/ at = "run broken" /\ at' = "heal"
           \/ at = "run healed" /\ at' = "proved"
    <3>1. CASE BroughtUp
      BY <1>2, <3>1, SelfTestReports DEF BroughtUp, Phase8Frame, phase8
    <3>2. CASE Broken
      BY <3>2, SelfTestReports DEF Broken
    <3>3. CASE Healed
      BY <3>3, SelfTestReports DEF Healed, Phase8Frame
    <3>4. QED
      BY <1>9, <3>1, <3>2, <3>3
  <2>2. /\ at \in Verified \ {"ready", "program"} /\ at' \in Verified \ {"ready", "program"}
        /\ at' \in {"run broken", "heal", "run healed"} => at \in {"run broken", "heal", "run healed"}
    BY <2>1 DEF Verified, Runs, AfterSelfTest
  <2>3. QED
    BY <1>1, <1>4, <2>1, <2>2 DEF ServiceInv
<1>10. CASE Break
  <2>1. /\ same /\ sys' = sys /\ ok' = TRUE
        /\ at = "break" /\ at' = "run broken" /\ genBefore' = trident[1].generation
    BY <1>2, <1>10 DEF Break, Step, Phase8Frame
  <2>2. Stage = "up" /\ ChainLength = 2 /\ ChainInv /\ at \notin Runs
    BY <2>1 DEF Stage, ChainLength, ImagesInv, Runs
  <2>3. AfterRun(2, 1, trident[1], "up")
    BY <2>2, RunReturned DEF ChainInv
  <2>4. genBefore' = 1
    BY <2>1, <2>3 DEF AfterRun
  <2>5. at \in Verified \ {"ready", "program"} /\ at' \in Verified \ {"ready", "program"}
    BY <2>1 DEF Verified, Runs
  <2>6. QED
    BY <1>4, <2>1, <2>4, <2>5
<1>11. CASE Phase7 \/ Launch \/ Program
  <2>1. /\ same /\ ok' = TRUE
        /\ \/ at = "complete" /\ at' = "ready" /\ sys'.complete = TRUE
           \/ at = "ready" /\ at' = "program" /\ sys'.complete = sys.complete
           \/ at = "program" /\ at' = "halted" /\ sys'.complete = sys.complete
    <3>1. CASE Phase7
      <4>1. [sys EXCEPT !.complete = TRUE].complete = TRUE
        BY <1>1 DEF MemoryInv
      <4>2. QED
        BY <1>2, <3>1, <4>1 DEF Phase7, Step, phase8
    <3>2. CASE Launch
      BY <1>2, <3>2 DEF Launch, Step, bootVars, phase8
    <3>3. CASE Program
      BY <1>1, <1>2, <3>3, ProgramSystem DEF Program, Step, phase8
    <3>4. QED
      BY <1>11, <3>1, <3>2, <3>3
  <2>2. at \in {"ready", "program"} => sys.complete
    BY <1>1 DEF ServiceInv
  <2>3. sys'.complete = TRUE /\ UpWithServices
    BY <1>2, <2>1, <2>2 DEF UpWithServices, Verified, AfterSelfTest
  <2>4. UpWithServices' /\ at' \in {"ready", "program", "halted"}
    BY <2>1, <2>3 DEF UpWithServices, Verified, AfterSelfTest
  <2>5. at' \notin BeforeServices
    BY <2>4 DEF BeforeServices
  <2>6. QED
    BY <1>1, <2>1, <2>3, <2>4, <2>5, ServiceFrame
<1>12. CASE BootFailed
  <2>1. same /\ ok' = TRUE /\ sys' = sys /\ at = "failed" /\ at' = "halted"
    BY <1>2, <1>12 DEF BootFailed, Step, bootVars, phase8
  <2>2. ~ sys.complete /\ ~ UpWithServices
    BY <1>1, <2>1 DEF ServiceInv, UpWithServices, Verified, Runs, AfterSelfTest
  <2>3. ~ UpWithServices'
    BY <2>1, <2>2 DEF UpWithServices, Verified, Runs, AfterSelfTest
  <2>4. at' \notin BeforeServices
    BY <2>1 DEF BeforeServices
  <2>5. QED
    BY <1>1, <1>2, <2>1, <2>2, <2>3, <2>4, ServiceFrame
<1>13. ASSUME PutChar \/ Transmitted \/ UNCHANGED allVars, UNCHANGED bootVars
       PROVE  ServiceInv'
  <2>1. at' = at /\ same /\ ok' = TRUE /\ sys' = sys /\ genBefore' = genBefore
    BY <1>2, <1>13 DEF PutChar, Transmitted, allVars, bootVars, phase8
  <2>2. UpWithServices' <=> UpWithServices
    BY <2>1 DEF UpWithServices
  <2>3. /\ sys.complete => at \in {"ready", "program", "halted"}
        /\ at \in {"ready", "program"} => sys.complete
        /\ at \in {"run broken", "heal", "run healed"} => genBefore = 1
    BY <1>1 DEF ServiceInv
  <2>4. QED
    BY <1>1, <1>2, <2>1, <2>2, <2>3, ServiceFrame
<1>14. ~ QemuNext
  BY DEF QemuNext, Fresh, Agree, Disagree, CallFaulted, HealNode, ChainUp, RunChain,
         ChainBreak, ChainHeal, ChainHealed, Report, Exit, Step
<1>15. QED
  <2>1. UNCHANGED allVars => UNCHANGED bootVars
    BY DEF allVars
  <2>2. QED
    BY <1>5, <1>6, <1>7, <1>8, <1>9, <1>10, <1>11, <1>12, <1>13, <1>14, <2>1
       DEF Next, BootNext, Halted
-----------------------------------------------------------------------------
(* The call through the faulted slot, and the self-test kernel's vectors   *)

\* Calling through a slot that holds the trap enters the trap, and only the trap.
LEMMA TrappedCall ==
  ASSUME TrapInv, BeforeTheCall, CallSlot(Trap)
  PROVE  traps' = 1 /\ ~ entered' /\ traps' = traps + 1
<1>1. traps = 0 /\ ~ entered
  BY DEF TrapInv
<1>2. Trap # "add_f64_stub"
  BY OfferAddresses
<1>3. ~ entered'
  BY <1>1, <1>2, Zenon DEF CallSlot
<1>4. QED
  BY <1>1, <1>3 DEF CallSlot

LEMMA StepTrap ==
  ASSUME ImagesInv, [Next]_allVars
  PROVE  TrapInv'
<1>1. TrapInv
  BY DEF ImagesInv
<1>2. ASSUME traps' = traps, entered' = entered, BeforeTheCall' => BeforeTheCall
      PROVE  TrapInv'
  BY <1>1, <1>2 DEF TrapInv
<1>3. ASSUME CallSlot(Trap), BeforeTheCall, ~ BeforeTheCall'
      PROVE  TrapInv'
  BY <1>1, <1>3, TrappedCall DEF TrapInv
<1>4. CASE StartBoot \/ Phase0 \/ Phase1 \/ Phase2 \/ Phase3 \/ Phase4And5 \/ Phase6
           \/ ValidateServices \/ BindService \/ PublishServices \/ BringUp
  <2>1. traps' = traps /\ entered' = entered
    BY <1>4 DEF StartBoot, Phase0, Phase1, Phase2, Phase3, Phase4And5, Phase6, ValidateServices,
                BindService, PublishServices, BringUp, Treat, Phase8Frame
  <2>2. image = "boot" /\ at \in BeforeServices \union {"bind", "bring up"}
    BY <1>4 DEF StartBoot, Phase0, Phase1, Phase2, Phase3, Phase4And5, Phase6, ValidateServices,
                BindService, PublishServices, BringUp, Step, BeforeServices
  <2>3. QED
    BY <1>2, <2>1, <2>2 DEF BeforeTheCall
<1>5. CASE RunArith \/ RunChain \/ PutChar \/ Transmitted \/ UNCHANGED allVars
  <2>1. UNCHANGED <<image, at, traps, entered>>
    BY <1>5 DEF RunArith, RunChain, PutChar, Transmitted, Phase8Frame, allVars
  <2>2. BeforeTheCall' <=> BeforeTheCall
    BY <2>1 DEF BeforeTheCall
  <2>3. QED
    BY <1>2, <2>1, <2>2
<1>6. CASE BroughtUp \/ Break \/ Heal \/ Healed \/ Phase8Done \/ Phase7 \/ Launch \/ Program \/ BootFailed
  <2>1. traps' = traps /\ entered' = entered /\ image = "boot" /\ image' = image
    BY <1>6 DEF BroughtUp, Break, Heal, Healed, Phase8Done, Phase7, Launch, Program, BootFailed,
                Phase8Frame, Step
  <2>2. \/ at \in {"run up", "break"}
        \/ at' \in {"run healed", "proved", "failed", "complete", "ready", "program", "halted"}
    BY <1>6 DEF BroughtUp, Break, Heal, Healed, Phase8Done, Phase7, Launch, Program, BootFailed,
                Step, Fail
  <2>3. BeforeTheCall' => BeforeTheCall
    BY <2>1, <2>2 DEF BeforeTheCall, BeforeServices
  <2>4. QED
    BY <1>2, <2>1, <2>3
<1>7. CASE Broken
  <2>1. /\ image = "boot" /\ at = "run broken" /\ image' = image /\ at' = "heal"
        /\ CallSlot(trident[1].w) /\ trident[1].w = Trap
    BY <1>7, SelfTestReports DEF Broken
  <2>2. BeforeTheCall /\ ~ BeforeTheCall'
    BY <2>1 DEF BeforeTheCall, BeforeServices
  <2>3. QED
    BY <1>3, <2>1, <2>2
<1>8. CASE CallFaulted
  <2>1. /\ image = "qemu" /\ at = "call" /\ image' = image /\ at' = "heal" /\ CallSlot(t.w)
    BY <1>8 DEF CallFaulted, Step
  <2>2. t.w = Trap
    BY <2>1 DEF ImagesInv, VectorInv
  <2>3. BeforeTheCall /\ ~ BeforeTheCall'
    BY <2>1 DEF BeforeTheCall, BeforeServices
  <2>4. QED
    BY <1>3, <2>1, <2>2, <2>3
<1>9. CASE Fresh \/ Agree \/ Disagree \/ HealNode \/ ChainUp \/ ChainBreak \/ ChainHeal
           \/ ChainHealed \/ Report \/ Exit
  <2>1. traps' = traps /\ entered' = entered /\ image = "qemu" /\ image' = image
    BY <1>9 DEF Fresh, Agree, Disagree, HealNode, ChainUp, ChainBreak, ChainHeal, ChainHealed,
                Report, Exit, Step
  <2>2. \/ at \in {"start", "agree", "disagree"}
        \/ at' \in {"chain", "run up", "run broken", "run healed", "report", "exit", "halted"}
    BY <1>9 DEF Fresh, Agree, Disagree, HealNode, ChainUp, ChainBreak, ChainHeal, ChainHealed,
                Report, Exit, Step
  <2>3. BeforeTheCall' => BeforeTheCall
    BY <2>1, <2>2 DEF BeforeTheCall
  <2>4. QED
    BY <1>2, <2>1, <2>3
<1>10. QED
  BY <1>4, <1>5, <1>6, <1>7, <1>8, <1>9 DEF Next, BootNext, QemuNext, Halted

\* What the two offers make of the node.
LEMMA VectorSwap ==
  ASSUME t \in Node, t.u1 = ReqAdd
  PROVE  /\ LET r == SwapNode(t, ProvAdd, DefaultPolicy, TRUE)
            IN  /\ r \in Node /\ r.u1 = ReqAdd /\ r.state = "BOUND" /\ r.w = "add_i32"
                /\ r.generation = IF t.state = "BOUND" THEN t.generation ELSE t.generation + 1
         /\ LET r == SwapNode(t, ProvAddBad, DefaultPolicy, TRUE)
            IN  /\ r \in Node /\ r.u1 = ReqAdd /\ r.state = "FAULT" /\ r.fault = "FINGERPRINT"
                /\ r.w = Trap /\ r.generation = t.generation
<1>1. /\ ProvAdd \in Descriptor \union {NoDesc} /\ ProvAddBad \in Descriptor \union {NoDesc}
      /\ DefaultPolicy \in Policy
  BY ContractsAreDescriptors
<1>2. PICK b \in BOOLEAN : b = TRUE
  OBVIOUS
<1>3. /\ Verdict(ReqAdd, ProvAdd, DefaultPolicy, b).fault = "NONE"
      /\ Verdict(ReqAdd, ProvAddBad, DefaultPolicy, b).fault = "FINGERPRINT"
  BY <1>2, ContractsAgree
<1> DEFINE good == SwapNode(t, ProvAdd, DefaultPolicy, b)
           bad  == SwapNode(t, ProvAddBad, DefaultPolicy, b)
<1>4. /\ good \in Node /\ good.u1 = ReqAdd /\ good.state = "BOUND" /\ good.w = ProvAdd.address
      /\ good.generation = IF t.state = "BOUND" THEN t.generation ELSE t.generation + 1
  <2>1. good \in Node /\ good.u1 = ReqAdd
    BY <1>1, SwapNodeMeaning
  <2>2. good.state = "BOUND" /\ good.w = ProvAdd.address
    BY <1>1, <1>3, SwapNodeMeaning
  <2>3. good.generation = IF good.state = "BOUND" /\ t.state # "BOUND"
                          THEN t.generation + 1 ELSE t.generation
    BY <1>1, SwapNodeMeaning
  <2>4. QED
    BY <2>1, <2>2, <2>3
<1>5. /\ bad \in Node /\ bad.u1 = ReqAdd /\ bad.state = "FAULT" /\ bad.fault = "FINGERPRINT"
      /\ bad.w = Trap /\ bad.generation = t.generation
  <2>1. bad \in Node /\ bad.u1 = ReqAdd
    BY <1>1, SwapNodeMeaning
  <2>2. bad.state = "FAULT" /\ bad.fault = "FINGERPRINT" /\ bad.w = Trap
    BY <1>1, <1>3, SwapNodeMeaning
  <2>3. bad.generation = IF bad.state = "BOUND" /\ t.state # "BOUND"
                         THEN t.generation + 1 ELSE t.generation
    BY <1>1, SwapNodeMeaning
  <2>4. QED
    BY <2>1, <2>2, <2>3
<1>6. QED
  BY <1>2, <1>4, <1>5, OfferAddresses
LEMMA StepVector ==
  ASSUME ImagesInv, [Next]_allVars
  PROVE  VectorInv'
<1>1. VectorInv /\ ~ failed /\ exit \in {0, ExitPass} /\ t \in Node /\ t.u1 = ReqAdd
  BY DEF ImagesInv, VectorInv
<1>2. ASSUME image = "boot", image' = image, UNCHANGED qemuVars
      PROVE  VectorInv'
  BY <1>1, <1>2 DEF VectorInv, qemuVars
<1>3. ASSUME image = "qemu", image' = image, t' = t, ~ failed', exit' \in {0, ExitPass},
             at' \notin {"start", "agree", "disagree", "call", "heal"}
      PROVE  VectorInv'
  BY <1>1, <1>3 DEF VectorInv
<1>4. ASSUME BootNext, UNCHANGED qemuVars
      PROVE  VectorInv'
  <2>1. image = "boot" /\ image' = image
    BY <1>4 DEF BootNext, StartBoot, Phase0, Phase1, Phase2, Phase3, Phase4And5, Phase6, ValidateServices,
                BindService, PublishServices, BringUp, RunArith, BroughtUp, Break, Broken, Heal, Healed,
                Phase8Done, Phase7, Launch, Program, BootFailed, Step, Treat, Phase8Frame
  <2>2. QED
    BY <1>2, <1>4, <2>1
<1>5. CASE Fresh
  <2>1. /\ image = "qemu" /\ at = "start" /\ image' = image /\ at' = "agree" /\ t' = t /\ exit' = exit
        /\ failed' = (failed \/ ~ (FpExport(ReqAdd, Native) # FpZero /\ t.w = Trap))
    BY <1>5 DEF Fresh, Step, Check
  <2>2. t = InitNode(ReqAdd) /\ t.w = Trap
    BY <1>1, <2>1 DEF VectorInv, InitNode
  <2>3. ~ failed'
    BY <1>1, <2>1, <2>2, ContractsAgree
  <2>4. QED
    BY <1>1, <2>1, <2>2, <2>3 DEF VectorInv
<1>6. CASE Agree
  <2>1. /\ image = "qemu" /\ at = "agree" /\ image' = image /\ at' = "disagree" /\ exit' = exit
        /\ t' = SwapNode(t, ProvAdd, DefaultPolicy, TRUE)
    BY <1>6 DEF Agree, Step
  <2>2. failed' = (failed \/ ~ (t'.state = "BOUND" /\ AddressOf(t') = ProvAdd.address))
    BY <1>6 DEF Agree, Check
  <2>3. t.generation = 0 /\ t.state = "UNRESOLVED"
    BY <1>1, <2>1 DEF VectorInv, InitNode
  <2>4. /\ t' \in Node /\ t'.u1 = ReqAdd /\ t'.state = "BOUND" /\ t'.w = "add_i32" /\ t'.generation = 1
    <3>1. /\ t' \in Node /\ t'.u1 = ReqAdd /\ t'.state = "BOUND" /\ t'.w = "add_i32"
          /\ t'.generation = IF t.state = "BOUND" THEN t.generation ELSE t.generation + 1
      BY <1>1, <2>1, VectorSwap
    <3>2. QED
      BY <2>3, <3>1
  <2>5. ~ failed'
    BY <1>1, <2>2, <2>4, OfferAddresses DEF AddressOf
  <2>6. QED
    BY <1>1, <2>1, <2>4, <2>5 DEF VectorInv
<1>7. CASE Disagree
  <2>1. /\ image = "qemu" /\ at = "disagree" /\ image' = image /\ at' = "call" /\ exit' = exit
        /\ t' = SwapNode(t, ProvAddBad, DefaultPolicy, TRUE)
    BY <1>7 DEF Disagree, Step
  <2>2. failed' = (failed \/ ~ (/\ t'.state = "FAULT" /\ t'.fault = "FINGERPRINT"
                                /\ AddressOf(t') = NoAddress
                                /\ t'.w # ProvAddBad.address
                                /\ ~ entered))
    BY <1>7 DEF Disagree, Check
  <2>3. t.generation = 1 /\ ~ entered
    BY <1>1, <2>1 DEF VectorInv, ImagesInv, TrapInv
  <2>4. /\ t' \in Node /\ t'.u1 = ReqAdd /\ t'.state = "FAULT" /\ t'.fault = "FINGERPRINT"
        /\ t'.w = Trap /\ t'.generation = 1
    BY <1>1, <2>1, <2>3, VectorSwap
  <2>5. ~ failed'
    BY <1>1, <2>2, <2>3, <2>4, OfferAddresses DEF AddressOf
  <2>6. QED
    BY <1>1, <2>1, <2>4, <2>5 DEF VectorInv
<1>8. CASE CallFaulted
  <2>1. /\ image = "qemu" /\ at = "call" /\ image' = image /\ at' = "heal" /\ exit' = exit /\ t' = t
        /\ CallSlot(t.w) /\ failed' = (failed \/ ~ (traps' = traps + 1))
    BY <1>8 DEF CallFaulted, Step, Check
  <2>2. t.w = Trap /\ t.state = "FAULT" /\ t.generation = 1
    BY <1>1, <2>1 DEF VectorInv
  <2>3. TrapInv /\ BeforeTheCall
    BY <2>1 DEF ImagesInv, BeforeTheCall
  <2>4. traps' = traps + 1
    BY <2>1, <2>2, <2>3, TrappedCall
  <2>5. ~ failed'
    BY <1>1, <2>1, <2>4
  <2>6. QED
    BY <1>1, <2>1, <2>2, <2>5 DEF VectorInv
<1>9. CASE HealNode
  <2>1. /\ image = "qemu" /\ at = "heal" /\ image' = image /\ at' = "chain" /\ exit' = exit
        /\ t' = SwapNode(t, ProvAdd, DefaultPolicy, TRUE)
    BY <1>9 DEF HealNode, Step
  <2>2. failed' = (failed \/ ~ (/\ t'.state = "BOUND" /\ t'.generation = 2
                                /\ AddressOf(t') = ProvAdd.address))
    BY <1>9 DEF HealNode, Check
  <2>3. t.state = "FAULT" /\ t.generation = 1
    BY <1>1, <2>1 DEF VectorInv
  <2>4. /\ t' \in Node /\ t'.u1 = ReqAdd /\ t'.state = "BOUND" /\ t'.w = "add_i32" /\ t'.generation = 2
    <3>1. /\ t' \in Node /\ t'.u1 = ReqAdd /\ t'.state = "BOUND" /\ t'.w = "add_i32"
          /\ t'.generation = IF t.state = "BOUND" THEN t.generation ELSE t.generation + 1
      BY <1>1, <2>1, VectorSwap
    <3>2. QED
      BY <2>3, <3>1
  <2>5. ~ failed'
    BY <1>1, <2>2, <2>4, OfferAddresses DEF AddressOf
  <2>6. QED
    BY <1>1, <2>1, <2>4, <2>5 DEF VectorInv
<1>10. CASE ChainUp \/ Report
  <2>1. /\ image = "qemu" /\ image' = image /\ at' \in {"run up", "exit"} /\ UNCHANGED qemuVars
    BY <1>10 DEF ChainUp, Report, Step
  <2>2. QED
    BY <1>1, <1>3, <2>1 DEF qemuVars
<1>11. CASE RunChain \/ ((PutChar \/ Transmitted) /\ UNCHANGED qemuVars) \/ UNCHANGED allVars
  <2>1. UNCHANGED <<image, at>> /\ UNCHANGED qemuVars
    BY <1>11 DEF RunChain, PutChar, Transmitted, allVars
  <2>2. QED
    BY <1>1, <2>1 DEF VectorInv, qemuVars
<1>12. CASE ChainBreak \/ ChainHealed
  <2>1. /\ image = "qemu" /\ image' = image /\ pc = "returned" /\ t' = t /\ exit' = exit
        /\ \/ at = "run up" /\ at' = "run broken"
           \/ at = "run healed" /\ at' = "report"
        /\ failed' = (failed \/ ~ Resolved(3))
    BY <1>12 DEF ChainBreak, ChainHealed, Step, Check
  <2>2. Stage \in {"up", "healed"} /\ ChainLength = 3 /\ ChainInv
    BY <2>1 DEF Stage, ChainLength, ImagesInv, AfterSelfTest
  <2>3. bound = 3
    BY <2>1, <2>2, RunReturned DEF Binding
  <2>4. ~ failed'
    BY <1>1, <2>1, <2>3 DEF Resolved
  <2>5. QED
    BY <1>1, <1>3, <2>1, <2>4
<1>13. CASE ChainHeal
  <2>1. /\ image = "qemu" /\ image' = image /\ pc = "returned" /\ t' = t /\ exit' = exit
        /\ at = "run broken" /\ at' = "run healed"
        /\ failed' = (failed \/ ~ (bound = 0 /\ trident[3].fault = "UPSTREAM"))
    BY <1>13 DEF ChainHeal, Step, Check
  <2>2. Stage = "broken" /\ ChainLength = 3 /\ ChainInv
    BY <2>1 DEF Stage, ChainLength, ImagesInv
  <2>3. bound = 0 /\ AfterRun(3, 3, trident[3], "broken")
    BY <2>1, <2>2, RunReturned DEF Binding
  <2>4. trident[3].fault = "UPSTREAM"
    BY <2>3 DEF AfterRun
  <2>5. ~ failed'
    BY <1>1, <2>1, <2>3, <2>4
  <2>6. QED
    BY <1>1, <1>3, <2>1, <2>5
<1>14. CASE Exit
  <2>1. /\ image = "qemu" /\ image' = image /\ t' = t /\ failed' = failed /\ at' = "halted"
        /\ exit' = IF failed THEN ExitFail ELSE ExitPass
    BY <1>14 DEF Exit, Step
  <2>2. QED
    BY <1>1, <1>3, <2>1
<1>15. QED
  BY <1>4, <1>5, <1>6, <1>7, <1>8, <1>9, <1>10, <1>11, <1>12, <1>13, <1>14
     DEF Next, QemuNext, Halted
-----------------------------------------------------------------------------
(* The processor and the screen                                            *)

LEMMA StepLocated ==
  ASSUME Located, MemoryInv, [Next]_allVars
  PROVE  Located' /\ image' = image
<1>1. CASE StartBoot \/ Phase0
  BY <1>1 DEF StartBoot, Phase0, Step, Located, BeforeServices
<1>2. CASE Phase1 \/ Phase2 \/ Phase3 \/ Phase4And5 \/ Phase6
  <2>1. image = "boot"
    BY <1>2 DEF Phase1, Phase2, Phase3, Phase4And5, Phase6, Step
  <2>2. image' = image /\ at' \in BeforeServices
    BY <1>2, PhasesGoOn
  <2>3. QED
    BY <2>1, <2>2 DEF Located
<1>3. CASE ValidateServices \/ BindService \/ PublishServices \/ BringUp
  <2>1. image = "boot" /\ image' = image /\ at' \in {"bind", "failed", "bring up", "run up"}
    BY <1>3 DEF ValidateServices, BindService, PublishServices, BringUp, Step, Fail, Phase8Frame
  <2>2. QED
    BY <2>1 DEF Located, Verified, Runs
<1>4. CASE BroughtUp \/ Break \/ Broken \/ Heal \/ Healed
  <2>1. /\ image = "boot" /\ image' = image
        /\ at' \in {"break", "run broken", "heal", "run healed", "proved", "failed"}
    BY <1>4 DEF BroughtUp, Break, Broken, Heal, Healed, Step, Fail, Phase8Frame
  <2>2. QED
    BY <2>1 DEF Located, Verified, Runs, AfterSelfTest
<1>5. CASE Phase8Done \/ Phase7 \/ Launch \/ Program \/ BootFailed
  <2>1. image = "boot" /\ image' = image /\ at' \in {"complete", "ready", "program", "halted"}
    BY <1>5 DEF Phase8Done, Phase7, Launch, Program, BootFailed, Step, Phase8Frame
  <2>2. QED
    BY <2>1 DEF Located, Verified, AfterSelfTest
<1>6. CASE Fresh \/ Agree \/ Disagree \/ CallFaulted \/ HealNode \/ ChainUp
           \/ ChainBreak \/ ChainHeal \/ ChainHealed \/ Report \/ Exit
  <2>1. /\ image = "qemu" /\ image' = image
        /\ at' \in {"agree", "disagree", "call", "heal", "chain", "run up", "run broken", "run healed",
                    "report", "exit", "halted"}
    BY <1>6 DEF Fresh, Agree, Disagree, CallFaulted, HealNode, ChainUp,
                ChainBreak, ChainHeal, ChainHealed, Report, Exit, Step
  <2>2. QED
    BY <2>1 DEF Located, Runs
<1>7. CASE RunArith \/ RunChain \/ PutChar \/ Transmitted \/ UNCHANGED allVars
  <2>1. image' = image /\ at' = at
    BY <1>7 DEF RunArith, RunChain, PutChar, Transmitted, Phase8Frame, allVars
  <2>2. QED
    BY <2>1 DEF Located
<1>8. QED
  BY <1>1, <1>2, <1>3, <1>4, <1>5, <1>6, <1>7 DEF Next, BootNext, QemuNext, Halted

\* Only a character moves the cursor, or the clearing of the screen.
LEMMA StepOnScreen ==
  ASSUME OnScreen, [Next]_allVars
  PROVE  OnScreen'
<1> DEFINE Screen == [row : 0 .. VgaHeight - 1, col : 0 .. VgaWidth - 1]
<1>1. VgaHeight \in Nat \ {0} /\ VgaWidth \in Nat \ {0}
  BY ImageAssumption
<1>2. TopLeft \in Screen
  BY <1>1 DEF TopLeft
<1>3. ASSUME NEW c \in Screen, NEW char
      PROVE  Advance(c, char) \in Screen
  <2>1. c.row \in 0 .. VgaHeight - 1 /\ c.col \in 0 .. VgaWidth - 1
    OBVIOUS
  <2>2. NextRow(c) \in Screen
    <3>1. (IF c.row + 1 = VgaHeight THEN 0 ELSE c.row + 1) \in 0 .. VgaHeight - 1
          /\ 0 \in 0 .. VgaWidth - 1
      BY <1>1, <2>1
    <3>2. QED
      BY <3>1 DEF NextRow
  <2>3. c.col + 1 # VgaWidth => [c EXCEPT !.col = @ + 1] \in Screen
    <3>1. c.col + 1 # VgaWidth => c.col + 1 \in 0 .. VgaWidth - 1
      BY <1>1, <2>1
    <3>2. QED
      BY <2>1, <3>1
  <2>4. QED
    BY <2>2, <2>3 DEF Advance
<1>4. CASE StartBoot
  BY <1>2, <1>4 DEF StartBoot, OnScreen
<1>5. CASE PutChar
  <2>1. cursor' = cursor \/ cursor' = Advance(cursor, Head(out))
    BY <1>5 DEF PutChar
  <2>2. QED
    BY <1>3, <2>1 DEF OnScreen
<1>6. ASSUME BootNext, ~ StartBoot
      PROVE  cursor' = cursor
  BY <1>6 DEF BootNext, Phase0, Phase1, Phase2, Phase3, Phase4And5, Phase6, ValidateServices,
              BindService, PublishServices, BringUp, RunArith, BroughtUp, Break, Broken, Heal, Healed,
              Phase8Done, Phase7, Launch, Program, BootFailed, Printing, Silent
<1>7. ASSUME QemuNext \/ Transmitted \/ UNCHANGED allVars
      PROVE  cursor' = cursor
  BY <1>7 DEF QemuNext, Fresh, Agree, Disagree, CallFaulted, HealNode, ChainUp, RunChain,
              ChainBreak, ChainHeal, ChainHealed, Report, Exit, Printing, Silent, Transmitted,
              allVars, console
<1>8. QED
  BY <1>4, <1>5, <1>6, <1>7 DEF Next, Halted, OnScreen

-----------------------------------------------------------------------------
(* The invariant, and what follows from it                                 *)

LEMMA InitInv == Init => ImagesInv
<1> SUFFICES ASSUME Init PROVE ImagesInv
  OBVIOUS
<1>1. /\ image \in {"boot", "qemu"} /\ at = "start" /\ cursor = TopLeft /\ traps = 0 /\ entered = FALSE
      /\ trident = <<>> /\ pc = "idle"
  BY DEF Init, ImageInit
<1>2. /\ ksvc \in Tables /\ status = "OK" /\ service = <<>> /\ P = NoAddress /\ H = NoAddress
      /\ ok = TRUE /\ ~ sys.complete
  BY DEF Init, BootInit
<1>3. t = InitNode(ReqAdd) /\ failed = FALSE /\ exit = 0
  BY DEF Init, QemuInit
<1>4. Located
  BY <1>1 DEF Located, BeforeServices
<1>5. OnScreen
  BY <1>1, ImageAssumption DEF OnScreen, TopLeft
<1>6. MemoryInv
  BY InitMemory
<1>7. ChainInv
  BY <1>1 DEF ChainInv, Stage, AfterSelfTest
<1>8. TrapInv
  BY <1>1 DEF TrapInv
<1>9. VectorInv
  <2>1. t \in Node /\ t.u1 = ReqAdd
    BY <1>3, ContractsAreDescriptors DEF InitNode, Node, BindStates, Faults
  <2>2. QED
    BY <1>1, <1>3, <2>1 DEF VectorInv
<1>10. ServiceInv
  <2>1. sys.complete = FALSE
    BY DEF Init, BootInit
  <2>2. at \in BeforeServices /\ ~ UpWithServices
    BY <1>1, <2>1 DEF BeforeServices, UpWithServices, Verified, Runs, AfterSelfTest
  <2>3. /\ service = [i \in 1 .. Len(service) |-> ServiceNode(i)] /\ Len(service) = 0
        /\ DOMAIN service = {}
    BY <1>2
  <2>4. Len(service) \in 0 .. 2 /\ \A i \in DOMAIN service : service[i].state = "BOUND"
    BY <2>3
  <2>5. /\ at \notin {"ready", "program", "bind", "failed", "halted", "run broken", "heal", "run healed"}
        /\ service = <<>>
    BY <1>1, <1>2
  <2>6. QED
    BY <1>2, <2>1, <2>2, <2>3, <2>4, <2>5 DEF ServiceInv
<1>11. QED
  BY <1>2, <1>4, <1>5, <1>6, <1>7, <1>8, <1>9, <1>10 DEF ImagesInv

LEMMA StepInv ==
  ASSUME ImagesInv, [Next]_allVars
  PROVE  ImagesInv'
<1>1. Located' /\ OnScreen' /\ MemoryInv' /\ image' = image
  BY StepLocated, StepOnScreen, StepMemory DEF ImagesInv
<1>2. ChainInv' /\ TrapInv' /\ VectorInv'
  BY StepChain, StepTrap, StepVector
<1>3. image = "boot" => ServiceInv'
  BY StepService
<1>4. ASSUME image = "qemu"
      PROVE  service' = <<>> /\ P' = NoAddress /\ H' = NoAddress /\ ~ sys'.complete
  <2>1. ~ BootNext
    BY <1>4 DEF BootNext, StartBoot, Phase0, Phase1, Phase2, Phase3, Phase4And5, Phase6, ValidateServices,
                BindService, PublishServices, BringUp, RunArith, BroughtUp, Break, Broken, Heal, Healed,
                Phase8Done, Phase7, Launch, Program, BootFailed, Step
  <2>2. UNCHANGED bootVars
    BY <2>1 DEF Next, Halted, allVars
  <2>3. QED
    BY <1>4, <2>2 DEF bootVars, phase8, ImagesInv
<1>5. QED
  BY <1>1, <1>2, <1>3, <1>4 DEF ImagesInv

LEMMA InvariantHolds == Spec => []ImagesInv
BY InitInv, StepInv, PTL DEF Spec
\* The services, once the pointers to them are set.
LEMMA ServicesUp ==
  ASSUME ServiceInv, UpWithServices
  PROVE  /\ TableServes /\ status = "OK" /\ ok = TRUE
         /\ ServicesBound = DOMAIN Services
         /\ \A i \in DOMAIN Services : Admits(Services[i], Find(ksvc, Services[i].symbol), DefaultPolicy)
         /\ <<P, H>> = [i \in DOMAIN Services |-> service[i].w]
         /\ P \in Addresses /\ H \in Addresses
<1>1. /\ TableServes /\ status = "OK" /\ ok = TRUE
      /\ Len(service) = 2 /\ P = service[1].w /\ H = service[2].w
      /\ service = [i \in 1 .. Len(service) |-> ServiceNode(i)]
      /\ service # <<>> => Validate(ksvc, Native) = "OK"
      /\ \A i \in DOMAIN service : service[i].state = "BOUND"
  BY DEF ServiceInv
<1>2. /\ DOMAIN service = 1 .. 2 /\ Validate(ksvc, Native) = "OK"
      /\ \A i \in 1 .. 2 : service[i] = ServiceNode(i) /\ service[i].state = "BOUND"
  BY <1>1
<1>3. ServicesBound = DOMAIN Services
  BY <1>2, ServicesAreDescriptors DEF ServicesBound
<1>4. \A i \in 1 .. 2 : service[i].w \in Addresses
  BY <1>2, ServiceNodeMeaning DEF ServiceInv
<1>5. <<P, H>> = [i \in DOMAIN Services |-> service[i].w]
  BY <1>1, ServicesAreDescriptors
<1>6. P \in Addresses /\ H \in Addresses
  BY <1>1, <1>4
<1>7. QED
  BY <1>1, <1>3, <1>5, <1>6 DEF TableServes

LEMMA TypesFollow == ImagesInv => TypeOK
<1> SUFFICES ASSUME ImagesInv PROVE TypeOK
  OBVIOUS
<1>1. cursor \in [row : 0 .. VgaHeight - 1, col : 0 .. VgaWidth - 1] /\ traps \in 0 .. 1 /\ t \in Node
  BY DEF ImagesInv, OnScreen, TrapInv, VectorInv
<1>2. \A n \in DOMAIN trident : trident[n] \in Node
  <2>1. CASE Stage = "none"
    BY <2>1 DEF ImagesInv, ChainInv
  <2>2. CASE Stage # "none"
    BY <2>2 DEF ImagesInv, ChainInv
  <2>3. QED
    BY <2>1, <2>2
<1>3. \A i \in DOMAIN service : service[i] \in Node
  <2>1. CASE image = "boot" /\ service # <<>>
    <3>1. /\ ksvc \in Tables /\ Validate(ksvc, Native) = "OK" /\ Len(service) \in 0 .. 2
          /\ service = [i \in 1 .. Len(service) |-> ServiceNode(i)]
      BY <2>1 DEF ImagesInv, ServiceInv
    <3>2. \A i \in DOMAIN service : i \in 1 .. 2 /\ service[i] = ServiceNode(i)
      BY <3>1
    <3>3. QED
      BY <3>1, <3>2, ServiceNodeMeaning
  <2>2. CASE service = <<>>
    BY <2>2
  <2>3. QED
    BY <2>1, <2>2 DEF ImagesInv, Located
<1>4. {P, H} \subseteq Addresses \union {NoAddress}
  <2>1. CASE image = "boot" /\ UpWithServices
    BY <2>1, ServicesUp DEF ImagesInv
  <2>2. CASE ~ (image = "boot" /\ UpWithServices)
    BY <2>2 DEF ImagesInv, ServiceInv, Located
  <2>3. QED
    BY <2>1, <2>2
<1>5. ASSUME NEW i \in ByteNumbers
      PROVE  /\ sys.memory[i].raw \in 0 .. 255
             /\ \A c \in Cubits : /\ sys.memory[i].ring[c].direction \in Directions
                                  /\ sys.memory[i].ring[c].state \in CubitStates
  <2>1. PICK frames : sys.memory[i] \in Byte(frames)
    BY DEF ImagesInv, MemoryInv, IsByte
  <2>2. sys.memory[i].raw \in 0 .. 255 /\ sys.memory[i].ring \in [Cubits -> Cubit]
    BY <2>1 DEF Byte
  <2>3. \A c \in Cubits : sys.memory[i].ring[c] \in Cubit
    BY <2>2
  <2>4. QED
    BY <2>2, <2>3 DEF Cubit
<1>6. QED
  BY <1>1, <1>2, <1>3, <1>4, <1>5 DEF TypeOK

LEMMA ServicesFollow == ImagesInv => ServicesAreVerified
<1> SUFFICES ASSUME ImagesInv PROVE ServicesAreVerified
  OBVIOUS
<1>1. CASE image = "boot" /\ UpWithServices
  <2>1. /\ ServicesBound = DOMAIN Services
        /\ <<P, H>> = [i \in DOMAIN Services |-> service[i].w]
        /\ \A i \in DOMAIN Services : Admits(Services[i], Find(ksvc, Services[i].symbol), DefaultPolicy)
        /\ NoAddress \notin {P, H}
    BY <1>1, ServicesUp, NullsAssumption DEF ImagesInv
  <2>2. QED
    BY <2>1 DEF ServicesAreVerified
<1>2. CASE ~ (image = "boot" /\ UpWithServices)
  <2>1. <<P, H>> = <<NoAddress, NoAddress>>
    BY <1>2 DEF ImagesInv, ServiceInv, Located
  <2>2. ~ Speaking
    BY <1>2 DEF Speaking, UpWithServices, Verified, Runs, AfterSelfTest
  <2>3. QED
    BY <2>1, <2>2 DEF ServicesAreVerified
<1>3. QED
  BY <1>1, <1>2

LEMMA StubFollows == ImagesInv => StubIsUnreachable
<1> SUFFICES ASSUME ImagesInv, NEW n \in DOMAIN trident PROVE trident[n].w # ProvAddBad.address
  BY DEF StubIsUnreachable, ImagesInv, TrapInv
<1>1. Stage # "none" /\ n \in Chained
  BY DEF ImagesInv, ChainInv
<1>2. trident[n].w \in {Trap, "add_i32", "mul_i32"}
  BY <1>1 DEF ImagesInv, ChainInv, Hooked
<1>3. "add_f64_stub" \notin {"add_i32", "mul_i32"}
  OBVIOUS
<1>4. QED
  BY <1>2, <1>3, OfferAddresses

LEMMA PairsFollow == ImagesInv => PairsAreEntangled
<1> SUFFICES ASSUME ImagesInv,
                    \/ at \in {"phase 4", "phase 6", "services", "bind", "failed", "complete", "ready", "program"}
                    \/ Speaking
             PROVE  \A i \in ByteNumbers : PairsDiffer(sys.memory[i])
  BY DEF PairsAreEntangled
<1>1. image = "boot"
  BY DEF ImagesInv, Located, Speaking, Runs
<1>2. at \notin Unentangled
  BY DEF Unentangled, Unpaired, Speaking
<1>3. QED
  BY <1>1, <1>2 DEF ImagesInv, MemoryInv

LEMMA CompleteFollows == ImagesInv => CompleteMeansVerified
<1> SUFFICES ASSUME ImagesInv PROVE CompleteMeansVerified
  OBVIOUS
<1>1. ASSUME image = "boot", at \in {"failed", "halted"}, ~ sys.complete
      PROVE  ~ TableServes /\ status # "OK"
  <2>1. ~ UpWithServices
    BY <1>1 DEF UpWithServices, Verified, Runs, AfterSelfTest
  <2>2. QED
    BY <1>1, <2>1 DEF ImagesInv, ServiceInv
<1>2. ASSUME sys.complete
      PROVE  /\ TableServes /\ status = "OK" /\ ok
             /\ ServicesBound = DOMAIN Services
             /\ \A n \in 1 .. 2 : trident[n].state = "BOUND"
             /\ AddressOf(trident[1]) = ProvAdd.address
             /\ trident[1].generation = 2
  <2>1. image = "boot" /\ ServiceInv /\ ChainInv
    BY <1>2 DEF ImagesInv, Located
  <2>2. at \in {"ready", "program", "halted"}
    BY <1>2, <2>1 DEF ServiceInv
  <2>3. UpWithServices
    BY <1>2, <2>2 DEF UpWithServices, Verified, AfterSelfTest
  <2>4. TableServes /\ status = "OK" /\ ok /\ ServicesBound = DOMAIN Services
    BY <2>1, <2>3, ServicesUp
  <2>5. Stage = "healed" /\ ChainLength = 2 /\ at \notin Runs
    BY <1>2, <2>1, <2>2 DEF Stage, ChainLength, Runs, AfterSelfTest
  <2>6. pc = "returned"
    BY <2>1, <2>5 DEF ChainInv
  <2>7. \A k \in 1 .. 2 : AfterRun(2, k, trident[k], "healed")
    BY <2>1, <2>5, <2>6, RunReturned DEF Chained
  <2>8. /\ trident[1].state = "BOUND" /\ trident[2].state = "BOUND"
        /\ trident[1].w = ProvAdd.address /\ trident[1].generation = 2
    BY <2>7 DEF AfterRun, ChainProv
  <2>9. AddressOf(trident[1]) = ProvAdd.address
    BY <2>8 DEF AddressOf
  <2>10. \A n \in 1 .. 2 : trident[n].state = "BOUND"
    BY <2>8
  <2>11. QED
    BY <2>4, <2>8, <2>9, <2>10
<1>3. QED
  BY <1>1, <1>2 DEF CompleteMeansVerified

-----------------------------------------------------------------------------

\* Every variable of either image has its type, for every screen and whatever is
\* printed; above all put_char never leaves the video memory.
THEOREM ImagesTypeCorrect == Spec => []TypeOK
BY TypesFollow, InvariantHolds, PTL

\* At no instant does P or H hold an address that has not passed consensus, and
\* phase 8 has both before it prints, for every table of kernel services.
THEOREM PointersStayVerified == Spec => []ServicesAreVerified
BY ServicesFollow, InvariantHolds, PTL

\* The mis-shaped function is in no slot and is never entered, at any moment of
\* either self-test.
THEOREM StubStaysUnreachable == Spec => []StubIsUnreachable
BY StubFollows, InvariantHolds, PTL

\* From phase 3 on the cubits of an entangled pair are in different states, for
\* all sixteen bytes, although phase 3 treats each ring in place.
THEOREM PairsStayEntangled == Spec => []PairsAreEntangled
BY PairsFollow, InvariantHolds, PTL

\* The boot is complete exactly with a table that agrees with what phase 8 was
\* compiled against; any other fails, and the break and the heal of the self-test
\* leave `add` bound in its second generation.
THEOREM OnlyVerifiedBootsComplete == Spec => []CompleteMeansVerified
BY CompleteFollows, InvariantHolds, PTL

\* No check of the self-test kernel ever fails, and it leaves with the passing
\* value or not at all.
THEOREM SelfTestAlwaysPasses == Spec => []SelfTestPasses
<1>1. ImagesInv => SelfTestPasses
  BY DEF ImagesInv, VectorInv, SelfTestPasses
<1>2. QED
  BY <1>1, InvariantHolds, PTL
=============================================================================
