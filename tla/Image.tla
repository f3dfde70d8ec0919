-------------------------------- MODULE Image --------------------------------
(***************************************************************************)
(* What the two ring 0 images, the boot kernel (src/boot/) and the         *)
(* self-test kernel (src/qemu/), have in common: one processor that runs   *)
(* straight through, a polled serial line and a text screen, the           *)
(* contracts of the `add` call site, and the resolver linked into them.    *)
(*                                                                         *)
(* There is no interrupt and no second thread.  Printing is where the      *)
(* processor meets another actor: before every character it polls the      *)
(* UART, which becomes ready again when it has sent the one before.        *)
(***************************************************************************)
EXTENDS Descriptors, Integers, SequencesExt

CONSTANTS
  Native,      \* MMUKO_ARCH_NATIVE: the profile the image is built for
  Texts,       \* what a print may be, "\n" being the end of a line
  VgaWidth,
  VgaHeight

ASSUME ImageAssumption ==
  /\ Native \in Profiles
  /\ {"add", "mul", "kputs", "kputhex"} \subseteq Symbols
  /\ VgaWidth \in Nat \ {0} /\ VgaHeight \in Nat \ {0}

\* The contracts compiled into the images, which the encoder takes.
ASSUME ContractsAssumption ==
  /\ {"ii_i", "dd_d"} \subseteq Shapes \ BadShapes
  /\ "cdecl" \in CallConvs
  /\ {"add_i32", "add_f64_stub"} \subseteq Addresses

VARIABLES
  image,    \* "boot" or "qemu": the image that was started
  at,       \* where its processor is
  out,      \* the characters it still has to send
  ready,    \* the UART's transmitter is empty
  cursor,   \* where the next character goes on the screen
  traps,    \* g_trap_count
  entered,  \* g_stub_entered
  trident, deps, pc, policy, pass, next, bound, prevBound, calls, start, rising, falling

console  == <<out, ready, cursor>>
loopVars == <<policy, pass, next, bound, prevBound>>
graph    == <<trident, deps, pc, loopVars, calls, start, rising, falling>>

-----------------------------------------------------------------------------
(* The call site `add` and what is offered to it                           *)

V1  == [major |-> 1, minor |-> 0, patch |-> 0,
        majorState |-> Stable, minorState |-> Stable, patchState |-> Stable]
V2X == [major |-> 2, minor |-> 0, patch |-> 0,
        majorState |-> Experimental, minorState |-> Stable, patchState |-> Stable]

Export(symbol, shape, since, address) ==
  [symbol |-> symbol, sig |-> [cc |-> "cdecl", shape |-> shape], since |-> since,
   address |-> address]

ReqAdd     == Export("add", "ii_i", V1, NoAddress)
ProvAdd    == Export("add", "ii_i", V1, "add_i32")
ProvAddBad == Export("add", "dd_d", V2X, "add_f64_stub")

\* mmuko_policy_default
DefaultPolicy == [arch |-> Native, mask |-> MaskStable]

-----------------------------------------------------------------------------
(* The console                                                             *)

\* The characters a print sends: the boot kernel sends a carriage return before
\* a new line, the self-test kernel after it.
Sent(text) ==
  FlattenSeq([i \in DOMAIN text |->
    IF text[i] # "\n" THEN <<text[i]>>
    ELSE IF image = "boot" THEN <<"\r", "\n">> ELSE <<"\n", "\r">>])

Prints == \E text \in Texts : out' = Sent(text)

\* vga_clear
TopLeft == [row |-> 0, col |-> 0]

NextRow(c) == [row |-> IF c.row + 1 = VgaHeight THEN 0 ELSE c.row + 1, col |-> 0]

\* Mutant: the line is one character too long.
AdvanceLate(c, char) ==
  IF char = "\n" THEN NextRow(c)
  ELSE IF char = "\r" THEN c
  ELSE IF c.col = VgaWidth THEN NextRow(c)
  ELSE [c EXCEPT !.col = @ + 1]

\* put_char: where the cursor is after a character.
Advance(c, char) ==
  IF char = "\n" THEN NextRow(c)
  ELSE IF char = "\r" THEN c
  ELSE IF c.col + 1 = VgaWidth THEN NextRow(c)
  ELSE [c EXCEPT !.col = @ + 1]

\* One character: the processor has found the transmitter empty.  Only the boot
\* kernel has a screen.
PutChar ==
  /\ out # <<>>
  /\ ready
  /\ out'    = Tail(out)
  /\ ready'  = FALSE
  /\ cursor' = IF image = "boot" THEN Advance(cursor, Head(out)) ELSE cursor
  /\ UNCHANGED <<image, at, traps, entered, graph>>

\* The UART has sent its character.
Transmitted ==
  /\ ~ ready
  /\ ready' = TRUE
  /\ UNCHANGED <<image, at, out, cursor, traps, entered, graph>>

-----------------------------------------------------------------------------
(* The processor                                                           *)

\* The next piece of straight-line code of image i begins when everything is
\* printed; l and m are where the processor is before and after it.
Step(i, l, m) == image = i /\ at = l /\ out = <<>> /\ at' = m

Silent == UNCHANGED <<out, ready, cursor>>
Printing == Prints /\ UNCHANGED <<ready, cursor>>

\* Calling through a slot whatever its state: the trap counts, the stub marks
\* that it was entered.
CallSlot(address) ==
  /\ traps'   = IF address = Trap THEN traps + 1 ELSE traps
  /\ entered' = (entered \/ address = "add_f64_stub")

\* mmuko_trident_init, set_deps and the first offers to the n nodes of a chain
\* in which every node depends on the one before it.
BuildChain(required, offers) ==
  /\ trident' = [n \in DOMAIN required |-> [InitNode(required[n]) EXCEPT !.u2 = offers[n]]]
  /\ deps'    = [n \in DOMAIN required |-> IF n = 1 THEN {} ELSE {n - 1}]
  /\ pc'      = "idle"
  /\ UNCHANGED <<loopVars, calls, start, rising, falling>>

\* t->u2_provided = d, on the first node.
AttachFirst(d) ==
  /\ trident' = [trident EXCEPT ![1].u2 = d]
  /\ pc'      = "idle"
  /\ UNCHANGED <<deps, loopVars, calls, start, rising, falling>>

\* mmuko_trident_graph_resolve returned 0.
Resolved(n) == pc = "returned" /\ bound = n

ImageInit ==
  /\ at        = "start"
  /\ out       = <<>>
  /\ ready     = TRUE
  /\ cursor    = TopLeft
  /\ traps     = 0
  /\ entered   = FALSE
  /\ trident   = <<>>
  /\ deps      = <<>>
  /\ pc        = "idle"
  /\ policy    = DefaultPolicy
  /\ pass      = 0
  /\ next      = 1
  /\ bound     = 0
  /\ prevBound = -1
  /\ calls     = 0
  /\ start     = {}
  /\ rising    = FALSE
  /\ falling   = FALSE
=============================================================================
