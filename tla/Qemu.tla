--------------------------------- MODULE Qemu ---------------------------------
(***************************************************************************)
(* The self-test kernel (src/qemu/kmain.c): the resolver, freestanding,    *)
(* run through the consensus vectors on one node and then on a chain of    *)
(* three.  Each check is counted as passed or failed and the process       *)
(* leaves through the debug exit with the verdict.                         *)
(*                                                                         *)
(* The version string vectors are covered by VersionText.                  *)
(***************************************************************************)
EXTENDS Image

VARIABLES
  t,       \* the node of the first vectors
  failed,  \* whether a check has failed
  exit     \* the value written to the debug exit port, 0 before that

qemuVars == <<t, failed, exit>>

ExitPass == 16
ExitFail == 17

Chain ==
  INSTANCE TridentGraph
    WITH N <- 3, Required <- <<ReqAdd, ReqAdd, ReqAdd>>, Offers <- {ProvAdd, ProvAddBad},
         Policies <- {DefaultPolicy}, DepChoices <- <<{{}}, {{1}}, {{2}}>>, MaxCalls <- 3

QemuInit ==
  /\ t      = InitNode(ReqAdd)
  /\ failed = FALSE
  /\ exit   = 0

Check(condition) == failed' = (failed \/ ~ condition)

\* The fingerprint before anything is bound, and the fresh node.
Fresh ==
  /\ Step("qemu", "start", "agree")
  /\ Check(FpExport(ReqAdd, Native) # FpZero /\ t.w = Trap)
  /\ Printing
  /\ UNCHANGED <<image, traps, entered, graph, t, exit>>

Agree ==
  /\ Step("qemu", "agree", "disagree")
  /\ t' = SwapNode(t, ProvAdd, DefaultPolicy, TRUE)
  /\ Check(t'.state = "BOUND" /\ AddressOf(t') = ProvAdd.address)
  /\ Printing
  /\ UNCHANGED <<image, traps, entered, graph, exit>>

Disagree ==
  /\ Step("qemu", "disagree", "call")
  /\ t' = SwapNode(t, ProvAddBad, DefaultPolicy, TRUE)
  /\ Check(/\ t'.state = "FAULT" /\ t'.fault = "FINGERPRINT"
           /\ AddressOf(t') = NoAddress
           /\ t'.w # ProvAddBad.address
           /\ ~ entered)
  /\ Printing
  /\ UNCHANGED <<image, traps, entered, graph, exit>>

CallFaulted ==
  /\ Step("qemu", "call", "heal")
  /\ CallSlot(t.w)
  /\ Check(traps' = traps + 1)
  /\ Printing
  /\ UNCHANGED <<image, graph, t, exit>>

HealNode ==
  /\ Step("qemu", "heal", "chain")
  /\ t' = SwapNode(t, ProvAdd, DefaultPolicy, TRUE)
  /\ Check(t'.state = "BOUND" /\ t'.generation = 2 /\ AddressOf(t') = ProvAdd.address)
  /\ Printing
  /\ UNCHANGED <<image, traps, entered, graph, exit>>

ChainUp ==
  /\ Step("qemu", "chain", "run up")
  /\ BuildChain(<<ReqAdd, ReqAdd, ReqAdd>>, <<ProvAdd, ProvAdd, ProvAdd>>)
  /\ Silent
  /\ UNCHANGED <<image, traps, entered, qemuVars>>

RunChain ==
  /\ image = "qemu" /\ out = <<>>
  /\ \/ /\ at \in {"run up", "run broken", "run healed"}
        /\ pc = "idle"
        /\ Chain!GraphResolve(DefaultPolicy)
     \/ Chain!ResolveNext
     \/ Chain!EndPass
  /\ Silent
  /\ UNCHANGED <<image, at, traps, entered, qemuVars>>

ChainBreak ==
  /\ Step("qemu", "run up", "run broken")
  /\ pc = "returned"
  /\ Check(Resolved(3))
  /\ AttachFirst(ProvAddBad)
  /\ Printing
  /\ UNCHANGED <<image, traps, entered, t, exit>>

ChainHeal ==
  /\ Step("qemu", "run broken", "run healed")
  /\ pc = "returned"
  /\ Check(bound = 0 /\ trident[3].fault = "UPSTREAM")
  /\ AttachFirst(ProvAdd)
  /\ Printing
  /\ UNCHANGED <<image, traps, entered, t, exit>>

ChainHealed ==
  /\ Step("qemu", "run healed", "report")
  /\ pc = "returned"
  /\ Check(Resolved(3))
  /\ Printing
  /\ UNCHANGED <<image, traps, entered, graph, t, exit>>

\* The summary is printed before the process leaves.
Report ==
  /\ Step("qemu", "report", "exit")
  /\ Printing
  /\ UNCHANGED <<image, traps, entered, graph, qemuVars>>

\* kexit: writes the port, then halts for good.
Exit ==
  /\ Step("qemu", "exit", "halted")
  /\ exit' = IF failed THEN ExitFail ELSE ExitPass
  /\ Silent
  /\ UNCHANGED <<image, traps, entered, graph, t, failed>>

QemuNext ==
  \/ Fresh \/ Agree \/ Disagree \/ CallFaulted \/ HealNode
  \/ ChainUp \/ RunChain \/ ChainBreak \/ ChainHeal \/ ChainHealed \/ Report \/ Exit

\* Every vector's expectation follows from the resolver: no check ever fails, and
\* the process leaves with the passing value and no other.
SelfTestPasses == ~ failed /\ exit \in {0, ExitPass}
=============================================================================
