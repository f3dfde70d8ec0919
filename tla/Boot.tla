--------------------------------- MODULE Boot ---------------------------------
(***************************************************************************)
(* The boot kernel (src/boot/kernel.c) and its phase 8                     *)
(* (mmuko_abi_phase8.c): the machine model is brought up, the kernel's own *)
(* print services and the arithmetic namespace are bound through the       *)
(* resolver, the namespace is broken and healed as a self-test, and only   *)
(* then the boot is declared complete and the program runs.                *)
(*                                                                         *)
(* The memory is that of Machine, the nodes `add` and `mul` and the runs   *)
(* of graph_resolve over them are those of TridentGraph.  An action is the *)
(* code between two points where it prints or runs the resolver.           *)
(***************************************************************************)
EXTENDS Image, Machine

CONSTANTS
  ksvcModule,  \* the name of the kernel services module
  Tables       \* the kernel service tables an image may have been built with

ASSUME BootAssumption ==
  /\ ksvcModule \in ModuleNames
  /\ Tables \subseteq Table \union {NoTable}
  /\ {"s_v", "u32_v"} \subseteq Shapes \ BadShapes
  /\ "mul_i32" \in Addresses

VARIABLES
  ksvc,     \* the table this image was built with
  sys,      \* g_system: its memory and whether the boot is complete
  status,   \* the BootStatus
  service,  \* g_ksvc_slot: phase 8's slots for kputs and kputhex,
  P, H,     \*   and its pointers to them
  genBefore, \* prove_containment's locals: the generation before the break,
  ok         \*   and whether every check held

phase8   == <<service, P, H, genBefore, ok>>
bootVars == <<ksvc, sys, status, phase8>>
ringZero == <<image, at, console, traps, entered, graph, bootVars>>

ReqMul  == Export("mul", "ii_i", V1, NoAddress)
ProvMul == Export("mul", "ii_i", V1, "mul_i32")

Services ==
  <<Export("kputs", "s_v", V1, NoAddress), Export("kputhex", "u32_v", V1, NoAddress)>>

\* What the kernel declares of its own print functions.
Serves(shape, since) ==
  [magic |-> TRUE, arch |-> Native, name |-> ksvcModule, version |-> V1,
   exports |-> [s \in Symbols |->
                  CASE s = "kputs"   -> Export("kputs", "s_v", V1, "kputs")
                    [] s = "kputhex" -> Export("kputhex", shape, since, "kputhex")
                    [] OTHER         -> NoDesc],
   duplicates |-> FALSE]

KernelTable == Serves("u32_v", V1)

\* The build that declares kputhex with a 64-bit argument.
NegativeTable == Serves("u64_v", V1)

Arith ==
  INSTANCE TridentGraph
    WITH N <- 2, Required <- <<ReqAdd, ReqMul>>,
         Offers <- {ProvAdd, ProvAddBad, ProvMul}, Policies <- {DefaultPolicy},
         DepChoices <- <<{{}}, {{1}}>>, MaxCalls <- 3

\* A byte of memory before phase 1: raw_value is set, the rest is still zero.
RawByte(i) ==
  [raw |-> RawValue(i), base |-> 0, primary |-> "N", secondary |-> "N",
   ring |-> [c \in Cubits |-> [value |-> 0, direction |-> "N", state |-> "UP",
                               entangledWith |-> 0, superposed |-> FALSE]]]

BootInit ==
  /\ ksvc      \in Tables
  /\ sys       = [memory |-> [i \in ByteNumbers |-> RawByte(i)], complete |-> FALSE]
  /\ status    = "OK"
  /\ service   = <<>>
  /\ P         = NoAddress
  /\ H         = NoAddress
  /\ genBefore = 0
  /\ ok        = TRUE

-----------------------------------------------------------------------------
(* Phases 0 to 6                                                           *)

\* A phase treats every byte of the memory and leaves the rest of the system.
Treat(f) ==
  /\ sys' = [sys EXCEPT !.memory = f]
  /\ UNCHANGED <<image, traps, entered, graph, ksvc, phase8>>

Fail(code) == status' = code /\ at' = "failed"

\* kernel_main: serial_init, vga_clear, mmuko_system_init, the banner.
StartBoot ==
  /\ Step("boot", "start", "phase 0")
  /\ Prints
  /\ cursor' = TopLeft
  /\ UNCHANGED <<image, ready, traps, entered, graph, bootVars>>

\* The vacuum medium is a number that is only printed.
Phase0 ==
  /\ Step("boot", "phase 0", "phase 1")
  /\ Printing
  /\ UNCHANGED <<image, traps, entered, graph, bootVars>>

Phase1 ==
  /\ Step("boot", "phase 1", "phase 2")
  /\ Printing /\ UNCHANGED status
  /\ Treat([i \in ByteNumbers |-> CubitInit(sys.memory[i])])

Phase2 ==
  LET aligned == [i \in ByteNumbers |-> CompassAlignment(sys.memory[i])]
  IN  /\ image = "boot" /\ at = "phase 2" /\ out = <<>>
      /\ IF \E i \in ByteNumbers : Locked(aligned[i])
         THEN Fail("LOCK_DETECTED")
         ELSE at' = "phase 3" /\ UNCHANGED status
      /\ Printing
      /\ Treat(aligned)

Phase3 ==
  /\ Step("boot", "phase 3", "phase 4")
  /\ Printing /\ UNCHANGED status
  /\ Treat([i \in ByteNumbers |-> Entangle(sys.memory[i])])

\* Phases 4 and 5; the frame of reference itself is only printed.
Phase4And5 ==
  /\ Step("boot", "phase 4", "phase 6")
  /\ Printing /\ UNCHANGED status
  /\ Treat([i \in ByteNumbers |-> ResolveBases(CenterFrame(sys.memory[i]))])

Phase6 ==
  /\ image = "boot" /\ at = "phase 6" /\ out = <<>>
  /\ IF \A i \in ByteNumbers : RotatesFreely(sys.memory[i])
     THEN at' = "services" /\ UNCHANGED status
     ELSE Fail("ROTATION_LOCK")
  /\ Printing
  /\ Treat(sys.memory)

-----------------------------------------------------------------------------
(* Phase 8                                                                 *)

Phase8Frame == UNCHANGED <<image, traps, entered, ksvc, sys>>

\* bind_kernel_services, up to its loop.
ValidateServices ==
  /\ image = "boot" /\ at = "services" /\ out = <<>>
  /\ P' = NoAddress
  /\ H' = NoAddress
  /\ IF Validate(ksvc, Native) = "OK" THEN at' = "bind" /\ UNCHANGED status
     ELSE Fail("ABI_UNBOUND")
  /\ Silent
  /\ UNCHANGED <<graph, service, genBefore, ok>> /\ Phase8Frame

\* Mutant: each pointer is set as soon as its slot is bound.
BindServicePublishing ==
  LET i == Len(service) + 1
      t == SwapNode(InitNode(Services[i]), Find(ksvc, Services[i].symbol), DefaultPolicy, TRUE)
  IN  /\ image = "boot" /\ at = "bind" /\ out = <<>>
      /\ i \in DOMAIN Services
      /\ service' = Append(service, t)
      /\ P' = IF i = 1 THEN AddressOf(t) ELSE P
      /\ H' = IF i = 2 THEN AddressOf(t) ELSE H
      /\ IF t.state = "BOUND" THEN UNCHANGED <<at, status>> ELSE Fail("ABI_UNBOUND")
      /\ Silent
      /\ UNCHANGED <<graph, genBefore, ok>> /\ Phase8Frame

\* One iteration of it: the first service that does not bind ends the boot.
BindService ==
  LET i == Len(service) + 1
      t == SwapNode(InitNode(Services[i]), Find(ksvc, Services[i].symbol), DefaultPolicy, TRUE)
  IN  /\ image = "boot" /\ at = "bind" /\ out = <<>>
      /\ i \in DOMAIN Services
      /\ service' = Append(service, t)
      /\ IF t.state = "BOUND" THEN UNCHANGED <<at, status>> ELSE Fail("ABI_UNBOUND")
      /\ Silent
      /\ UNCHANGED <<graph, P, H, genBefore, ok>> /\ Phase8Frame

\* The pointers are set once every slot is bound, and phase 8 begins to speak.
PublishServices ==
  /\ image = "boot" /\ at = "bind" /\ out = <<>>
  /\ Len(service) = Len(Services)
  /\ P' = AddressOf(service[1])
  /\ H' = AddressOf(service[2])
  /\ IF NoAddress \in {P', H'} THEN Fail("ABI_UNBOUND") /\ Silent
     ELSE at' = "bring up" /\ UNCHANGED status /\ Printing
  /\ UNCHANGED <<graph, service, genBefore, ok>> /\ Phase8Frame

\* bring_up_namespace, up to its run of the resolver.
BringUp ==
  /\ Step("boot", "bring up", "run up")
  /\ BuildChain(<<ReqAdd, ReqMul>>, <<ProvAdd, ProvMul>>)
  /\ Silent
  /\ UNCHANGED <<status, phase8>> /\ Phase8Frame

RunArith ==
  /\ image = "boot" /\ out = <<>>
  /\ \/ /\ at \in {"run up", "run broken", "run healed"}
        /\ pc = "idle"
        /\ Arith!GraphResolve(DefaultPolicy)
     \/ Arith!ResolveNext
     \/ Arith!EndPass
  /\ Silent
  /\ UNCHANGED <<at, status, phase8>> /\ Phase8Frame

\* The rest of bring_up_namespace, and the report.
BroughtUp ==
  /\ image = "boot" /\ at = "run up" /\ out = <<>> /\ pc = "returned"
  /\ IF Resolved(2) THEN at' = "break" /\ UNCHANGED status ELSE Fail("ABI_UNBOUND")
  /\ Printing
  /\ UNCHANGED <<graph, phase8>> /\ Phase8Frame

\* prove_containment: the break, on the live namespace.
Break ==
  /\ Step("boot", "break", "run broken")
  /\ genBefore' = trident[1].generation
  /\ AttachFirst(ProvAddBad)
  /\ Printing
  /\ UNCHANGED <<status, service, P, H, ok>> /\ Phase8Frame

\* What it must have done, and a call through the faulted slot.
Broken ==
  /\ image = "boot" /\ at = "run broken" /\ out = <<>> /\ pc = "returned"
  /\ CallSlot(trident[1].w)
  /\ ok' = /\ trident[1].fault = "FINGERPRINT"
           /\ AddressOf(trident[1]) = NoAddress
           /\ trident[1].w # ProvAddBad.address
           /\ ~ entered
           /\ trident[1].generation = genBefore
           /\ trident[2].fault = "UPSTREAM"
           /\ traps' = traps + 1
  /\ at' = "heal"
  /\ Printing
  /\ UNCHANGED <<image, graph, ksvc, sys, status, service, P, H, genBefore>>

Heal ==
  /\ Step("boot", "heal", "run healed")
  /\ AttachFirst(ProvAdd)
  /\ Printing
  /\ UNCHANGED <<status, phase8>> /\ Phase8Frame

\* Mutant: the heal is expected to leave the generation alone.
HealedSameGeneration ==
  /\ image = "boot" /\ at = "run healed" /\ out = <<>> /\ pc = "returned"
  /\ ok' = /\ ok
           /\ Resolved(2)
           /\ trident[1].generation = genBefore
           /\ AddressOf(trident[1]) = ProvAdd.address
  /\ IF ok' THEN at' = "proved" /\ UNCHANGED status ELSE Fail("ABI_UNBOUND")
  /\ Printing
  /\ UNCHANGED <<graph, service, P, H, genBefore>> /\ Phase8Frame

\* What the heal must have done; only add_i32 computes 42.
Healed ==
  /\ image = "boot" /\ at = "run healed" /\ out = <<>> /\ pc = "returned"
  /\ ok' = /\ ok
           /\ Resolved(2)
           /\ trident[1].generation = genBefore + 1
           /\ AddressOf(trident[1]) = ProvAdd.address
  /\ IF ok' THEN at' = "proved" /\ UNCHANGED status ELSE Fail("ABI_UNBOUND")
  /\ Printing
  /\ UNCHANGED <<graph, service, P, H, genBefore>> /\ Phase8Frame

\* The end of mmuko_abi_phase8; the namespace fingerprint is only printed.
Phase8Done ==
  /\ Step("boot", "proved", "complete")
  /\ Printing
  /\ UNCHANGED <<graph, status, phase8>> /\ Phase8Frame

-----------------------------------------------------------------------------
(* Phase 7, the program, and the end                                       *)

Phase7 ==
  /\ Step("boot", "complete", "ready")
  /\ sys' = [sys EXCEPT !.complete = TRUE]
  /\ Printing
  /\ UNCHANGED <<image, traps, entered, graph, ksvc, status, phase8>>

\* kernel_main, when the boot has succeeded.
Launch ==
  /\ Step("boot", "ready", "program")
  /\ Printing
  /\ UNCHANGED <<image, traps, entered, graph, bootVars>>

\* mmuko_abi_bound_add
BoundAdd == AddressOf(trident[1])

\* mmuko_program_main.  It computes through the bound slot or not at all; then
\* byte 0 is rotated by one bit and its ring made anew, while its base stays.
Program ==
  /\ Step("boot", "program", "halted")
  /\ LET rotated == RotateBits(sys.memory[0].raw, 1)
     IN  sys' = IF BoundAdd = NoAddress THEN sys
                ELSE [sys EXCEPT !.memory[0] = [@ EXCEPT !.raw  = rotated,
                                                         !.ring = InitCubitRing(rotated)]]
  /\ Printing
  /\ UNCHANGED <<image, traps, entered, graph, ksvc, status, phase8>>

\* kernel_main reports the status with its own print functions.
BootFailed ==
  /\ Step("boot", "failed", "halted")
  /\ Printing
  /\ UNCHANGED <<image, traps, entered, graph, bootVars>>

BootNext ==
  \/ StartBoot \/ Phase0 \/ Phase1 \/ Phase2 \/ Phase3 \/ Phase4And5 \/ Phase6
  \/ ValidateServices \/ BindService \/ PublishServices
  \/ BringUp \/ RunArith \/ BroughtUp \/ Break \/ Broken \/ Heal \/ Healed
  \/ Phase8Done \/ Phase7 \/ Launch \/ Program \/ BootFailed

-----------------------------------------------------------------------------
(* Properties                                                              *)

ServicesBound == {i \in DOMAIN service : service[i].state = "BOUND"}

\* Where phase 8 prints: through P.
Speaking == image = "boot" /\ at \in {"bring up", "run up", "break", "run broken", "heal", "run healed", "proved"}

\* "There is no instant at which P or H holds an address that has not passed
\* consensus" (mmuko_abi_phase8.c:191-193): either both are null, or both are
\* the addresses of bound slots with the service's own contract; and phase 8
\* has them before it prints anything.
ServicesAreVerified ==
  /\ <<P, H>> # <<NoAddress, NoAddress>> =>
       /\ ServicesBound = DOMAIN Services
       /\ <<P, H>> = [i \in DOMAIN Services |-> service[i].w]
       /\ \A i \in DOMAIN Services :
            Admits(Services[i], Find(ksvc, Services[i].symbol), DefaultPolicy)
  /\ Speaking => NoAddress \notin {P, H}

\* The address of the mis-shaped function is in no slot at any moment of the
\* self-test, and the function is never entered.
StubIsUnreachable ==
  /\ ~ entered
  /\ \A n \in DOMAIN trident : trident[n].w # ProvAddBad.address

PairsDiffer(byte) ==
  \A i \in Cubits : byte.ring[i].superposed =>
    byte.ring[i].state # byte.ring[byte.ring[i].entangledWith].state

\* From phase 3 on the two cubits of every entangled pair are in different
\* states, although each turned its partner over in place and the partner then
\* looked back; only the program's rotation makes one ring anew.
PairsAreEntangled ==
  at \in {"phase 4", "phase 6", "services", "bind", "failed", "complete", "ready", "program"} \/ Speaking =>
    \A i \in ByteNumbers : PairsDiffer(sys.memory[i])

\* What a table must offer for the kernel to come up.
TableServes ==
  /\ Validate(ksvc, Native) = "OK"
  /\ \A i \in DOMAIN Services : Admits(Services[i], Find(ksvc, Services[i].symbol), DefaultPolicy)

\* The boot is complete, and the program launched, exactly in the images whose
\* kernel services agree with what phase 8 was compiled against (kernel.c:266-267
\* "The gate must catch it and the boot must FAIL"); the program then finds
\* every slot bound and `add` in its second generation.
CompleteMeansVerified ==
  /\ image = "boot" /\ at \in {"failed", "halted"} /\ ~ sys.complete =>
       ~ TableServes /\ status # "OK"
  /\ sys.complete =>
       /\ TableServes /\ status = "OK" /\ ok
       /\ ServicesBound = DOMAIN Services
       /\ \A n \in 1 .. 2 : trident[n].state = "BOUND"
       /\ AddressOf(trident[1]) = ProvAdd.address
       /\ trident[1].generation = 2
=============================================================================
