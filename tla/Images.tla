-------------------------------- MODULE Images --------------------------------
(***************************************************************************)
(* A machine on which either of the two ring 0 images, the boot kernel or  *)
(* the self-test kernel, is started.                                       *)
(***************************************************************************)
EXTENDS Boot, Qemu

allVars == <<image, at, console, traps, entered, graph, bootVars, qemuVars>>

Init ==
  /\ image \in {"boot", "qemu"}
  /\ ImageInit
  /\ BootInit
  /\ QemuInit

Halted == at = "halted" /\ out = <<>> /\ ready /\ UNCHANGED allVars

Next ==
  \/ BootNext /\ UNCHANGED qemuVars
  \/ QemuNext /\ UNCHANGED bootVars
  \/ (PutChar \/ Transmitted) /\ UNCHANGED <<bootVars, qemuVars>>
  \/ Halted

\* The processor runs on, and the UART sends what it was given.
Spec ==
  /\ Init /\ [][Next]_allVars
  /\ WF_allVars(BootNext /\ UNCHANGED qemuVars)
  /\ WF_allVars(QemuNext /\ UNCHANGED bootVars)
  /\ WF_allVars(PutChar /\ UNCHANGED <<bootVars, qemuVars>>)
  /\ WF_allVars(Transmitted /\ UNCHANGED <<bootVars, qemuVars>>)

-----------------------------------------------------------------------------

\* Every variable has its type; above all, the cursor is on the screen, so that a
\* character is never stored outside the video memory.
TypeOK ==
  /\ cursor \in [row : 0 .. VgaHeight - 1, col : 0 .. VgaWidth - 1]
  /\ traps \in 0 .. 1
  /\ \A n \in DOMAIN trident : trident[n] \in Node
  /\ \A i \in DOMAIN service : service[i] \in Node
  /\ {P, H} \subseteq Addresses \union {NoAddress}
  /\ \A i \in ByteNumbers :
       /\ sys.memory[i].raw \in 0 .. 255
       /\ \A c \in Cubits : /\ sys.memory[i].ring[c].direction \in Directions
                            /\ sys.memory[i].ring[c].state \in CubitStates
  /\ t \in Node

\* Whatever the table and whatever is printed, the processor reaches its final
\* halt with everything printed, although it polls the UART before each
\* character and the self-test runs the resolver over a broken graph.
ImageHalts == <>(at = "halted" /\ out = <<>>)
=============================================================================
