---------------------------- MODULE SlotRegister ----------------------------
(***************************************************************************)
(* What a trident slot promises to callers that run while it is swapped,   *)
(* with no node, no fields and no order of stores: a register whose        *)
(* content is the trap or an address that passed consensus, written by     *)
(* one writer and read by many callers.                                    *)
(*                                                                         *)
(* A read that no write overlaps returns the content.  A read that a write *)
(* overlaps may return either value, "the previous slot or the new one"    *)
(* (mmuko_trident.h:147-150): the register is regular.  A caller that asks *)
(* for an address (mmuko_trident_address) is told there is none instead of *)
(* being given the trap, unless a write overlaps its read.                 *)
(***************************************************************************)
EXTENDS Naturals

CONSTANTS Callers, Addresses, Trap, NoAddress

Values == Addresses \union {Trap}

ReadKinds == {"slot", "address"}

VARIABLES
  content,  \* the value of the last finished write
  writing,  \* the value of the write in progress: at most one
  reading,  \* caller -> the kind of its read, and the values it may return
  reply     \* caller -> what its last read returned

vars == <<content, writing, reading, reply>>

NoRead == [kind |-> "none", allowed |-> {}]

Init ==
  /\ content = Trap
  /\ writing = {}
  /\ reading = [c \in Callers |-> NoRead]
  /\ reply   = [c \in Callers |-> NoAddress]

BeginWrite(v) ==
  /\ writing = {}
  /\ writing' = {v}
  /\ reading' = [c \in Callers |-> IF reading[c].kind = "none" THEN reading[c]
                                   ELSE [reading[c] EXCEPT !.allowed = @ \union {v}]]
  /\ UNCHANGED <<content, reply>>

EndWrite ==
  /\ writing # {}
  /\ content' \in writing
  /\ writing' = {}
  /\ UNCHANGED <<reading, reply>>

BeginRead(c, kind) ==
  /\ reading[c] = NoRead
  /\ reading' = [reading EXCEPT ![c] = [kind    |-> kind,
                                        allowed |-> {content} \union writing]]
  /\ UNCHANGED <<content, writing, reply>>

\* What a read may return.
Replies(read) ==
  IF read.kind = "slot" THEN read.allowed
  ELSE {v \in read.allowed : v # Trap \/ read.allowed # {Trap}}
         \union (IF Trap \in read.allowed THEN {NoAddress} ELSE {})

EndRead(c) ==
  /\ reading[c] # NoRead
  /\ reply' \in {[reply EXCEPT ![c] = r] : r \in Replies(reading[c])}
  /\ reading' = [reading EXCEPT ![c] = NoRead]
  /\ UNCHANGED <<content, writing>>

Next ==
  \/ \E v \in Values : BeginWrite(v)
  \/ EndWrite
  \/ \E c \in Callers, kind \in ReadKinds : BeginRead(c, kind)
  \/ \E c \in Callers : EndRead(c)

Spec == Init /\ [][Next]_vars
=============================================================================
