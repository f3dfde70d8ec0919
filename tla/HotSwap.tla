------------------------------- MODULE HotSwap -------------------------------
(***************************************************************************)
(* One trident node swapped under running callers, store by store.         *)
(*                                                                         *)
(* TridentGraph takes a resolution as one step.  Here the decision is made *)
(* in locals, as in mmuko_trident_resolve, and the fields of the node are  *)
(* then stored one at a time while the callers load them one at a time.    *)
(* The stores and the loads are plain accesses of shared memory, so the    *)
(* build may order them in any way: the model stores the pending fields in *)
(* any order, and an `address` call loads state and w_slot in either.      *)
(* A single aligned word is stored and loaded whole.                       *)
(*                                                                         *)
(* One thread at a time resolves ("concurrency is single-writer",          *)
(* SPEC/MMUKO-ABI-SPEC.md:520).  settled and allowed are history: the      *)
(* slot's value when the last swap finished, and the values each call in   *)
(* progress has overlapped.                                                *)
(***************************************************************************)
EXTENDS TridentRule

CONSTANTS
  Callers,   \* running callers
  Required,  \* the requirement hook u1 of the node, constant for its life
  Offers,    \* what a swap may attach to u2
  Policies,  \* the policies it may be made under
  MaxSwaps   \* bound: swaps

ASSUME HotSwapAssumption ==
  /\ Required \in Descriptor \union {NoDesc}
  /\ Offers \subseteq Descriptor \union {NoDesc}
  /\ Policies \subseteq Policy
  /\ MaxSwaps \in Nat

NotLoaded == "not loaded"

ASSUME NotLoadedAssumption == NotLoaded \notin Addresses \union {Trap}

\* The shared fields a resolution stores.  "fault" stands for the three fields of
\* the diagnosis (fp_required, fp_provided, fault), which no caller loads.
Fields == {"fault", "generation", "state", "w"}

ReadKinds == {"slot", "address"}

NoCall == [kind |-> "none", state |-> NotLoaded, w |-> NotLoaded]

VARIABLES
  node,     \* the shared node
  target,   \* what the resolution in progress decided, in its locals
  pending,  \* the fields it has not stored yet
  swaps,    \* swaps made
  call,     \* caller -> the read it is making, and what it has loaded
  reply,    \* caller -> what its last read returned
  settled,
  allowed

vars == <<node, target, pending, swaps, call, reply, settled, allowed>>

Init ==
  /\ node    = InitNode(Required)
  /\ target  = InitNode(Required)
  /\ pending = {}
  /\ swaps   = 0
  /\ call    = [c \in Callers |-> NoCall]
  /\ reply   = [c \in Callers |-> NoAddress]
  /\ settled = Trap
  /\ allowed = [c \in Callers |-> {}]

-----------------------------------------------------------------------------
(* The writer                                                              *)

Calling(c) == call[c] # NoCall

\* Mutant: the offer is in the slot while it is being examined.
SwapTryingTheOffer(u2, pol) ==
  LET decided == SwapNode(node, u2, pol, TRUE)
  IN  /\ pending = {}
      /\ swaps < MaxSwaps
      /\ target'  = decided
      /\ node'    = [node EXCEPT !.u2 = u2, !.w = IF u2 = NoDesc THEN @ ELSE u2.address]
      /\ pending' = Fields
      /\ swaps'   = swaps + 1
      /\ allowed' = [c \in Callers |-> IF Calling(c) THEN allowed[c] \union {decided.w}
                                       ELSE allowed[c]]
      /\ UNCHANGED <<call, reply, settled>>

\* Mutant: a swap that leaves the node bound does not store the slot again.
SwapStoringOnTransition(u2, pol) ==
  LET decided == SwapNode(node, u2, pol, TRUE)
  IN  /\ pending = {}
      /\ swaps < MaxSwaps
      /\ target'  = decided
      /\ node'    = [node EXCEPT !.u2 = u2]
      /\ pending' = IF decided.state = node.state THEN Fields \ {"w"} ELSE Fields
      /\ swaps'   = swaps + 1
      /\ allowed' = [c \in Callers |-> IF Calling(c) THEN allowed[c] \union {decided.w}
                                       ELSE allowed[c]]
      /\ UNCHANGED <<call, reply, settled>>

\* mmuko_trident_swap up to the label publish: u2 is attached and the verdict
\* taken, on locals.  The node has no dependencies.
Swap(u2, pol) ==
  LET decided == SwapNode(node, u2, pol, TRUE)
  IN  /\ pending = {}
      /\ swaps < MaxSwaps
      /\ target'  = decided
      /\ node'    = [node EXCEPT !.u2 = u2]
      /\ pending' = Fields
      /\ swaps'   = swaps + 1
      /\ allowed' = [c \in Callers |-> IF Calling(c) THEN allowed[c] \union {decided.w}
                                       ELSE allowed[c]]
      /\ UNCHANGED <<call, reply, settled>>

\* One store of the publication.
Store(f) ==
  /\ f \in pending
  /\ node'    = IF f = "fault"
                THEN [node EXCEPT !.fpRequired = target.fpRequired,
                                  !.fpProvided = target.fpProvided,
                                  !.fault      = target.fault]
                ELSE [node EXCEPT ![f] = target[f]]
  /\ pending' = pending \ {f}
  /\ settled' = IF pending' = {} THEN target.w ELSE settled
  /\ UNCHANGED <<target, swaps, call, reply, allowed>>

-----------------------------------------------------------------------------
(* The callers                                                             *)

Begin(c, kind) ==
  /\ ~ Calling(c)
  /\ call'    = [call EXCEPT ![c].kind = kind]
  /\ allowed' = [allowed EXCEPT ![c] = {settled} \union
                                       (IF pending = {} THEN {} ELSE {target.w})]
  /\ UNCHANGED <<node, target, pending, swaps, reply, settled>>

LoadState(c) ==
  /\ call[c].kind = "address"
  /\ call[c].state = NotLoaded
  /\ call' = [call EXCEPT ![c].state = node.state]
  /\ UNCHANGED <<node, target, pending, swaps, reply, settled, allowed>>

LoadSlot(c) ==
  /\ Calling(c)
  /\ call[c].w = NotLoaded
  /\ call' = [call EXCEPT ![c].w = node.w]
  /\ UNCHANGED <<node, target, pending, swaps, reply, settled, allowed>>

Answers(c, r) ==
  /\ reply'   = [reply EXCEPT ![c] = r]
  /\ call'    = [call EXCEPT ![c] = NoCall]
  /\ allowed' = [allowed EXCEPT ![c] = {}]
  /\ UNCHANGED <<node, target, pending, swaps, settled>>

\* A caller that reads t->w_slot directly.
ReturnSlot(c) ==
  /\ call[c].kind = "slot"
  /\ call[c].w # NotLoaded
  /\ Answers(c, call[c].w)

\* Mutant: the state is not looked at.
AddressRegardless(c) ==
  /\ call[c].kind = "address"
  /\ call[c].w # NotLoaded
  /\ Answers(c, call[c].w)

\* mmuko_trident_address: NULL as soon as the state is not BOUND, the slot otherwise.
ReturnAddress(c) ==
  /\ call[c].kind = "address"
  /\ call[c].state # NotLoaded
  /\ \/ call[c].state # "BOUND" /\ Answers(c, NoAddress)
     \/ call[c].state = "BOUND" /\ call[c].w # NotLoaded /\ Answers(c, call[c].w)

Return(c) == ReturnSlot(c) \/ ReturnAddress(c)

Next ==
  \/ \E u2 \in Offers, pol \in Policies : Swap(u2, pol)
  \/ \E f \in Fields : Store(f)
  \/ \E c \in Callers, kind \in ReadKinds : Begin(c, kind)
  \/ \E c \in Callers : LoadState(c) \/ LoadSlot(c) \/ Return(c)

\* A resolution runs to its end and a running caller keeps calling: both are
\* straight-line code of a thread that is scheduled.  Nothing makes a supervisor
\* swap.
Fairness ==
  /\ WF_vars(\E f \in Fields : Store(f))
  /\ \A c \in Callers :
       /\ WF_vars(\E kind \in ReadKinds : Begin(c, kind))
       /\ WF_vars(LoadState(c) \/ LoadSlot(c))
       /\ WF_vars(Return(c))

Spec == Init /\ [][Next]_vars /\ Fairness

-----------------------------------------------------------------------------
(* Properties                                                              *)

AgreedAddresses ==
  {d.address : d \in {o \in Offers : \E pol \in Policies : Admits(Required, o, pol)}}

TypeOK ==
  /\ node \in Node
  /\ target \in Node
  /\ pending \subseteq Fields
  /\ swaps \in 0 .. MaxSwaps
  /\ call \in [Callers -> [kind  : ReadKinds \union {"none"},
                          state : BindStates \union {NotLoaded},
                          w     : Addresses \union {Trap, NotLoaded}]]
  /\ reply \in [Callers -> Addresses \union {Trap, NoAddress}]
  /\ settled \in Addresses \union {Trap}
  /\ allowed \in [Callers -> SUBSET (Addresses \union {Trap})]

\* "There is no instant at which w_slot holds an address that has not been
\* validated" (mmuko_trident.h:146-147): whatever the order of the stores and the
\* loads, the slot and every address a caller is given is the trap or the
\* address of an offer that passed consensus.
OnlyValidatedAddresses ==
  /\ node.w \in AgreedAddresses \union {Trap}
  /\ \A c \in Callers :
       /\ reply[c] \in AgreedAddresses \union {Trap, NoAddress}
       /\ call[c].w \in AgreedAddresses \union {Trap, NotLoaded}

\* "A concurrent reader either sees the previous slot or the new one"
\* (mmuko_trident.h:147-148): under every order of the stores the node is a
\* regular register, and an address call tells the trap from an address unless a
\* swap overlaps it.
Register ==
  INSTANCE SlotRegister
    WITH content <- settled,
         writing <- IF pending = {} THEN {} ELSE {target.w},
         reading <- [c \in Callers |-> [kind |-> call[c].kind, allowed |-> allowed[c]]]

ImplementsRegister == Register!Spec

\* Every policy in use admits what is attached, at address a.
CorrectedTo(a) ==
  /\ node.u2 # NoDesc /\ node.u2.address = a
  /\ \A pol \in Policies : Admits(Required, node.u2, pol)

\* "The already-running caller picks up the corrected dependency at its next call
\* through the slot" (mmuko_trident.h:160-161): once an acceptable provider is
\* attached and left alone, every caller ends up with its address for good, also
\* when the node was bound to another one before.
HealingReachesEveryCaller ==
  \A a \in AgreedAddresses :
    <>[](pending = {} /\ CorrectedTo(a)) => <>[](\A c \in Callers : reply[c] = a)
=============================================================================
