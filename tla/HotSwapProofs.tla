---------------------------- MODULE HotSwapProofs ----------------------------
(***************************************************************************)
(* Theorems about HotSwap, for every requirement, every set of offers and  *)
(* of policies, every number of callers and of swaps.                      *)
(***************************************************************************)
EXTENDS HotSwap, TridentRuleProofs, TLAPS

AgreedOrTrap == AgreedAddresses \union {Trap}

Bound(t) == t.state = "BOUND"

\* What a resolution decides is either an agreed address in a bound node or the
\* trap in one that is not.
Decided(t) ==
  /\ t.w \in AgreedOrTrap
  /\ Bound(t) <=> t.w # Trap

\* The node while the fields of target are being stored: a field not stored yet
\* is still that of the last swap.
WriterInv ==
  /\ node.u1 = Required
  /\ settled \in AgreedOrTrap
  /\ pending # {} => Decided(target)
  /\ node.w = IF pending = {} \/ "w" \in pending THEN settled ELSE target.w
  /\ IF pending = {} \/ "state" \in pending
     THEN Bound(node) <=> settled # Trap
     ELSE node.state = target.state

\* What a call has loaded is accounted for by a value it has overlapped.
CallInv(c) ==
  /\ call[c].kind = "none" => call[c] = NoCall /\ allowed[c] = {}
  /\ call[c].kind # "none" =>
       /\ allowed[c] \subseteq AgreedOrTrap
       /\ settled \in allowed[c]
       /\ pending # {} => target.w \in allowed[c]
  /\ call[c].w # NotLoaded => call[c].w \in allowed[c]
  /\ call[c].state \notin {"BOUND", NotLoaded} => Trap \in allowed[c]
  /\ call[c].state = "BOUND" => allowed[c] # {Trap}
  /\ reply[c] \in AgreedOrTrap \union {NoAddress}

IInv == TypeOK /\ WriterInv /\ \A c \in Callers : CallInv(c)

-----------------------------------------------------------------------------
(* The decision                                                            *)

LEMMA AgreedAreAddresses == AgreedAddresses \subseteq Addresses /\ Trap \notin AgreedAddresses
<1>1. ASSUME NEW d \in Offers, NEW pol \in Policies, Admits(Required, d, pol)
      PROVE  d.address \in Addresses
  <2>1. PICK b \in BOOLEAN : b = TRUE
    OBVIOUS
  <2>2. Verdict(Required, d, pol, b).fault = "NONE"
    BY <1>1, <2>1 DEF Admits
  <2>3. QED
    BY <2>2, VerdictMeaning, HotSwapAssumption
<1>2. AgreedAddresses \subseteq Addresses
  BY <1>1 DEF AgreedAddresses
<1>3. QED
  BY <1>2, NullsAssumption

LEMMA DecisionIsDecided ==
  ASSUME node \in Node, node.u1 = Required, NEW u2 \in Offers, NEW pol \in Policies
  PROVE  /\ SwapNode(node, u2, pol, TRUE) \in Node
         /\ Decided(SwapNode(node, u2, pol, TRUE))
<1>0. PICK b \in BOOLEAN : b = TRUE
  OBVIOUS
<1>a. u2 \in Descriptor \union {NoDesc} /\ pol \in Policy
  BY HotSwapAssumption
<1>b. /\ [node EXCEPT !.u2 = u2] \in Node
      /\ [node EXCEPT !.u2 = u2].u1 = Required /\ [node EXCEPT !.u2 = u2].u2 = u2
  BY <1>a DEF Node
<1>1. PICK t \in Node : t = [node EXCEPT !.u2 = u2] /\ t.u1 = Required /\ t.u2 = u2
  BY <1>b
<1> DEFINE r == ResolveNode(t, pol, b)
<1>2. /\ r \in Node
      /\ r.state = IF Verdict(t.u1, t.u2, pol, b).fault = "NONE" THEN "BOUND" ELSE "FAULT"
      /\ r.state = "BOUND" <=> Admits(Required, u2, pol)
      /\ r.w = IF Verdict(t.u1, t.u2, pol, b).fault = "NONE" THEN u2.address ELSE Trap
  <2>1. /\ r \in Node
        /\ r.state = IF Verdict(t.u1, t.u2, pol, b).fault = "NONE" THEN "BOUND" ELSE "FAULT"
        /\ r.state = "BOUND" <=> b /\ Admits(t.u1, t.u2, pol)
        /\ r.w = IF Verdict(t.u1, t.u2, pol, b).fault = "NONE" THEN t.u2.address ELSE Trap
    BY <1>a, ResolveNodeMeaning
  <2>2. QED
    BY <1>0, <1>1, <2>1
<1>3. SwapNode(node, u2, pol, TRUE) = r
  BY <1>0, <1>1 DEF SwapNode
<1> HIDE DEF r
<1>4. Bound(r) => r.w \in AgreedAddresses
  BY <1>2 DEF Bound, AgreedAddresses
<1>5. ~ Bound(r) => r.w = Trap
  BY <1>2 DEF Bound
<1>6. QED
  BY <1>2, <1>3, <1>4, <1>5, AgreedAreAddresses DEF Decided, AgreedOrTrap

-----------------------------------------------------------------------------
(* The invariant                                                           *)

LEMMA InitInv == Init => IInv
<1> SUFFICES ASSUME Init PROVE IInv
  OBVIOUS
<1>1. InitNode(Required) \in Node
  BY HotSwapAssumption DEF InitNode, Node, BindStates, Faults
<1>2. /\ InitNode(Required).w = Trap /\ InitNode(Required).state = "UNRESOLVED"
      /\ InitNode(Required).u1 = Required
  BY DEF InitNode
<1>3. TypeOK
  BY <1>1, HotSwapAssumption, NotLoadedAssumption DEF Init, TypeOK, NoCall
<1>4. WriterInv
  BY <1>2 DEF Init, WriterInv, Bound, AgreedOrTrap
<1>5. \A c \in Callers : CallInv(c)
  BY DEF Init, CallInv, NoCall
<1>6. QED
  BY <1>3, <1>4, <1>5 DEF IInv

LEMMA SwapInv ==
  ASSUME IInv, NEW u2 \in Offers, NEW pol \in Policies, Swap(u2, pol)
  PROVE  IInv'
<1> DEFINE r == SwapNode(node, u2, pol, TRUE)
<1>1. /\ pending = {} /\ swaps < MaxSwaps
      /\ target' = r /\ node' = [node EXCEPT !.u2 = u2] /\ pending' = Fields
      /\ swaps' = swaps + 1
      /\ allowed' = [c \in Callers |-> IF Calling(c) THEN allowed[c] \union {r.w}
                                       ELSE allowed[c]]
      /\ call' = call /\ reply' = reply /\ settled' = settled
  BY DEF Swap
<1>2. r \in Node /\ Decided(r)
  BY DecisionIsDecided DEF IInv, TypeOK, WriterInv
<1> HIDE DEF r
<1>3. r.w \in AgreedOrTrap /\ r.w \in Addresses \union {Trap}
  BY <1>2, AgreedAreAddresses DEF Decided, AgreedOrTrap
<1>4. node \in Node /\ node.u1 = Required /\ u2 \in Descriptor \union {NoDesc}
  BY HotSwapAssumption DEF IInv, TypeOK, WriterInv
<1>5. node' \in Node /\ node'.u1 = Required /\ node'.w = node.w /\ node'.state = node.state
  BY <1>1, <1>4 DEF Node
<1>6. TypeOK'
  BY <1>1, <1>2, <1>3, <1>5, HotSwapAssumption DEF IInv, TypeOK, Fields
<1>7. WriterInv'
  BY <1>1, <1>2, <1>5 DEF IInv, WriterInv, Fields, Decided, Bound
<1>8. ASSUME NEW c \in Callers PROVE CallInv(c)'
  <2>1. CallInv(c) /\ call[c].kind \in ReadKinds \union {"none"}
    BY DEF IInv, TypeOK
  <2>2. CASE Calling(c)
    <3>1. call[c].kind # "none"
      BY <2>1, <2>2 DEF CallInv, Calling
    <3>2. allowed'[c] = allowed[c] \union {r.w} /\ call'[c] = call[c]
      BY <1>1, <2>2
    <3>3. settled \in allowed[c]
      BY <2>1, <3>1 DEF CallInv
    <3>4. QED
      BY <1>1, <1>3, <2>1, <3>1, <3>2, <3>3 DEF CallInv
  <2>3. CASE ~ Calling(c)
    <3>1. call[c] = NoCall /\ allowed'[c] = allowed[c]
      BY <1>1, <2>3 DEF Calling
    <3>2. QED
      BY <1>1, <2>1, <3>1 DEF CallInv, NoCall
  <2>4. QED
    BY <2>2, <2>3
<1>9. QED
  BY <1>6, <1>7, <1>8 DEF IInv

LEMMA StoreInv ==
  ASSUME IInv, NEW f \in Fields, Store(f)
  PROVE  IInv'
<1>1. /\ f \in pending /\ pending' = pending \ {f}
      /\ settled' = IF pending' = {} THEN target.w ELSE settled
      /\ target' = target /\ call' = call /\ reply' = reply /\ allowed' = allowed /\ swaps' = swaps
  BY DEF Store
<1>2. node \in Node /\ target \in Node /\ pending \subseteq Fields
  BY DEF IInv, TypeOK
<1>3. /\ node' \in Node /\ node'.u1 = node.u1
      /\ node'.w = IF f = "w" THEN target.w ELSE node.w
      /\ node'.state = IF f = "state" THEN target.state ELSE node.state
  <2>1. CASE f = "fault"
    BY <1>2, <2>1 DEF Store, Node
  <2>2. CASE f = "generation"
    BY <1>2, <2>2 DEF Store, Node
  <2>3. CASE f = "state"
    BY <1>2, <2>3 DEF Store, Node
  <2>4. CASE f = "w"
    BY <1>2, <2>4 DEF Store, Node
  <2>5. QED
    BY <2>1, <2>2, <2>3, <2>4 DEF Fields
<1>4. Decided(target) /\ target.w \in AgreedOrTrap /\ target.w \in Addresses \union {Trap}
  BY <1>1, AgreedAreAddresses DEF IInv, WriterInv, Decided, AgreedOrTrap
<1>5. TypeOK'
  BY <1>1, <1>3, <1>4 DEF IInv, TypeOK
<1>6. WriterInv'
  <2>1. CASE pending' = {}
    <3>1. node'.w = target.w
      BY <1>1, <1>3, <2>1 DEF IInv, WriterInv
    <3>2. node'.state = target.state
      BY <1>1, <1>3, <2>1 DEF IInv, WriterInv
    <3>3. QED
      BY <1>1, <1>3, <1>4, <2>1, <3>1, <3>2 DEF IInv, WriterInv, Decided, Bound
  <2>2. CASE pending' # {}
    <3>1. node'.w = IF "w" \in pending' THEN settled' ELSE target'.w
      BY <1>1, <1>3, <2>2 DEF IInv, WriterInv
    <3>2. IF "state" \in pending' THEN Bound(node') <=> settled' # Trap
          ELSE node'.state = target'.state
      <4>1. CASE f = "state"
        BY <1>1, <1>3, <4>1
      <4>2. CASE f # "state"
        <5>1. node'.state = node.state /\ settled' = settled
          BY <1>1, <1>3, <2>2, <4>2
        <5>2. "state" \in pending' <=> "state" \in pending
          BY <1>1, <4>2
        <5>3. QED
          BY <1>1, <5>1, <5>2 DEF IInv, WriterInv, Bound
      <4>3. QED
        BY <4>1, <4>2
    <3>3. settled' = settled /\ target' = target
      BY <1>1, <2>2
    <3>4. QED
      BY <1>3, <1>4, <2>2, <3>1, <3>2, <3>3 DEF IInv, WriterInv, Decided, Bound
  <2>3. QED
    BY <2>1, <2>2
<1>7. ASSUME NEW c \in Callers PROVE CallInv(c)'
  <2>1. CallInv(c)
    BY DEF IInv
  <2>2. call[c].kind # "none" => target.w \in allowed[c]
    BY <1>1, <2>1 DEF CallInv
  <2>3. QED
    BY <1>1, <2>1, <2>2 DEF CallInv
<1>8. QED
  BY <1>5, <1>6, <1>7 DEF IInv

\* A step of one caller leaves the writer and the other callers alone.
CallerStep(c) ==
  /\ UNCHANGED <<node, target, pending, swaps, settled>>
  /\ \A d \in Callers \ {c} : /\ call'[d] = call[d]
                              /\ reply'[d] = reply[d]
                              /\ allowed'[d] = allowed[d]

LEMMA CallerStepInv ==
  ASSUME IInv, NEW c \in Callers, CallerStep(c), TypeOK', CallInv(c)'
  PROVE  IInv'
<1>1. WriterInv'
  BY DEF IInv, WriterInv, CallerStep, Decided, Bound
<1>2. ASSUME NEW d \in Callers \ {c} PROVE CallInv(d)'
  BY <1>2 DEF IInv, CallInv, CallerStep
<1>3. QED
  BY <1>1, <1>2 DEF IInv

LEMMA BeginInv ==
  ASSUME IInv, NEW c \in Callers, NEW kind \in ReadKinds, Begin(c, kind)
  PROVE  IInv'
<1>1. /\ call[c] = NoCall
      /\ call'  = [call EXCEPT ![c].kind = kind]
      /\ allowed' = [allowed EXCEPT ![c] = {settled} \union
                                          (IF pending = {} THEN {} ELSE {target.w})]
      /\ UNCHANGED <<node, target, pending, swaps, reply, settled>>
  BY DEF Begin, Calling
<1>2. /\ call \in [Callers -> [kind : ReadKinds \union {"none"}, state : BindStates \union {NotLoaded},
                              w : Addresses \union {Trap, NotLoaded}]]
      /\ allowed \in [Callers -> SUBSET (Addresses \union {Trap})]
      /\ settled \in Addresses \union {Trap} /\ settled \in AgreedOrTrap
      /\ pending # {} => target.w \in AgreedOrTrap
  BY DEF IInv, TypeOK, WriterInv, Decided
<1>3. AgreedOrTrap \subseteq Addresses \union {Trap}
  BY AgreedAreAddresses DEF AgreedOrTrap
<1>4. /\ call'[c] = [kind |-> kind, state |-> NotLoaded, w |-> NotLoaded]
      /\ allowed'[c] = {settled} \union (IF pending = {} THEN {} ELSE {target.w})
  BY <1>1, <1>2 DEF NoCall
<1>5. /\ call' \in [Callers -> [kind : ReadKinds \union {"none"}, state : BindStates \union {NotLoaded},
                               w : Addresses \union {Trap, NotLoaded}]]
      /\ allowed' \in [Callers -> SUBSET (Addresses \union {Trap})]
  BY <1>1, <1>2, <1>3
<1>6. TypeOK'
  BY <1>1, <1>5 DEF IInv, TypeOK
<1>7. CallInv(c)'
  <2>1. reply[c] \in AgreedOrTrap \union {NoAddress}
    BY DEF IInv, CallInv
  <2>2. kind # "none"
    BY DEF ReadKinds
  <2>3. NotLoaded # "BOUND"
    BY DEF NotLoaded
  <2>4. QED
    BY <1>1, <1>2, <1>4, <2>1, <2>2, <2>3 DEF CallInv
<1>8. CallerStep(c)
  BY <1>1, <1>2 DEF CallerStep
<1>9. QED
  BY <1>6, <1>7, <1>8, CallerStepInv

LEMMA LoadStateInv ==
  ASSUME IInv, NEW c \in Callers, LoadState(c)
  PROVE  IInv'
<1>1. /\ call[c].kind = "address" /\ call[c].state = NotLoaded
      /\ call' = [call EXCEPT ![c].state = node.state]
      /\ UNCHANGED <<node, target, pending, swaps, reply, settled, allowed>>
  BY DEF LoadState
<1>2. /\ node.state \in BindStates
      /\ call \in [Callers -> [kind : ReadKinds \union {"none"}, state : BindStates \union {NotLoaded},
                              w : Addresses \union {Trap, NotLoaded}]]
  BY DEF IInv, TypeOK, Node
<1>3. call'[c] = [call[c] EXCEPT !.state = node.state]
  BY <1>1, <1>2
<1>4. call' \in [Callers -> [kind : ReadKinds \union {"none"}, state : BindStates \union {NotLoaded},
                           w : Addresses \union {Trap, NotLoaded}]]
  BY <1>1, <1>2
<1>5. TypeOK'
  BY <1>1, <1>4 DEF IInv, TypeOK
<1>6. /\ call'[c].kind = "address" /\ call'[c].state = node.state
      /\ call'[c].w = call[c].w
  BY <1>1, <1>2, <1>3
<1>7. CallInv(c) /\ WriterInv
  BY DEF IInv
<1>8. /\ settled \in allowed[c]
      /\ pending # {} => target.w \in allowed[c] /\ Decided(target)
  BY <1>1, <1>7 DEF CallInv, WriterInv
<1>9. /\ node.state # "BOUND" => Trap \in allowed[c]
      /\ node.state = "BOUND" => allowed[c] # {Trap}
  <2>1. CASE pending = {} \/ "state" \in pending
    BY <1>7, <1>8, <2>1 DEF WriterInv, Bound
  <2>2. CASE ~ (pending = {} \/ "state" \in pending)
    BY <1>7, <1>8, <2>2 DEF WriterInv, Bound, Decided
  <2>3. QED
    BY <2>1, <2>2
<1>10. CallInv(c)'
  BY <1>1, <1>6, <1>7, <1>9 DEF CallInv
<1>11. CallerStep(c)
  BY <1>1, <1>2 DEF CallerStep
<1>12. QED
  BY <1>5, <1>10, <1>11, CallerStepInv

LEMMA LoadSlotInv ==
  ASSUME IInv, NEW c \in Callers, LoadSlot(c)
  PROVE  IInv'
<1>1. /\ call[c] # NoCall /\ call[c].w = NotLoaded
      /\ call' = [call EXCEPT ![c].w = node.w]
      /\ UNCHANGED <<node, target, pending, swaps, reply, settled, allowed>>
  BY DEF LoadSlot, Calling
<1>2. /\ node.w \in Addresses \union {Trap}
      /\ call \in [Callers -> [kind : ReadKinds \union {"none"}, state : BindStates \union {NotLoaded},
                              w : Addresses \union {Trap, NotLoaded}]]
  BY DEF IInv, TypeOK, Node
<1>3. call'[c] = [call[c] EXCEPT !.w = node.w]
  BY <1>1, <1>2
<1>4. call' \in [Callers -> [kind : ReadKinds \union {"none"}, state : BindStates \union {NotLoaded},
                           w : Addresses \union {Trap, NotLoaded}]]
  BY <1>1, <1>2
<1>5. TypeOK'
  BY <1>1, <1>4 DEF IInv, TypeOK
<1>6. /\ call'[c].kind = call[c].kind /\ call'[c].state = call[c].state
      /\ call'[c].w = node.w
  BY <1>1, <1>2, <1>3
<1>7. CallInv(c) /\ WriterInv
  BY DEF IInv
<1>8. /\ call[c].kind # "none"
      /\ settled \in allowed[c]
      /\ pending # {} => target.w \in allowed[c]
  BY <1>1, <1>7 DEF CallInv
<1>9. node.w \in allowed[c]
  BY <1>7, <1>8 DEF WriterInv
<1>10. CallInv(c)'
  BY <1>1, <1>6, <1>7, <1>8, <1>9 DEF CallInv
<1>11. CallerStep(c)
  BY <1>1, <1>2 DEF CallerStep
<1>12. QED
  BY <1>5, <1>10, <1>11, CallerStepInv

\* What a returning call answers with, in terms of the values it overlapped.
LEMMA ReturnMeaning ==
  ASSUME IInv, NEW c \in Callers, Return(c)
  PROVE  \E r \in AgreedOrTrap \union {NoAddress} :
           /\ Answers(c, r)
           /\ call[c].kind \in ReadKinds
           /\ \/ call[c].kind = "slot" /\ r \in allowed[c]
              \/ /\ call[c].kind = "address"
                 /\ \/ r = NoAddress /\ Trap \in allowed[c]
                    \/ r \in allowed[c] /\ allowed[c] # {Trap}
<1>1. /\ CallInv(c)
      /\ call[c].kind \in ReadKinds => allowed[c] \subseteq AgreedOrTrap
  BY DEF IInv, CallInv, ReadKinds
<1>2. CASE ReturnSlot(c)
  BY <1>1, <1>2 DEF ReturnSlot, CallInv, ReadKinds
<1>3. CASE ReturnAddress(c)
  <2>1. call[c].kind = "address" /\ call[c].state # NotLoaded
    BY <1>3 DEF ReturnAddress
  <2>2. CASE call[c].state # "BOUND" /\ Answers(c, NoAddress)
    BY <1>1, <2>1, <2>2 DEF CallInv, ReadKinds
  <2>3. CASE call[c].state = "BOUND" /\ call[c].w # NotLoaded /\ Answers(c, call[c].w)
    <3>1. call[c].w \in allowed[c] /\ allowed[c] # {Trap}
      BY <1>1, <2>3 DEF CallInv
    <3>2. QED
      BY <1>1, <2>1, <2>3, <3>1 DEF ReadKinds
  <2>4. QED
    BY <1>3, <2>2, <2>3 DEF ReturnAddress
<1>4. QED
  BY <1>2, <1>3 DEF Return

LEMMA ReturnInv ==
  ASSUME IInv, NEW c \in Callers, Return(c)
  PROVE  IInv'
<1>1. PICK r \in AgreedOrTrap \union {NoAddress} : Answers(c, r)
  BY ReturnMeaning
<1>2. /\ reply' = [reply EXCEPT ![c] = r]
      /\ call' = [call EXCEPT ![c] = NoCall]
      /\ allowed' = [allowed EXCEPT ![c] = {}]
      /\ UNCHANGED <<node, target, pending, swaps, settled>>
  BY <1>1 DEF Answers
<1>3. r \in Addresses \union {Trap, NoAddress}
  BY AgreedAreAddresses DEF AgreedOrTrap
<1>4. NoCall \in [kind : ReadKinds \union {"none"}, state : BindStates \union {NotLoaded},
                 w : Addresses \union {Trap, NotLoaded}]
  BY DEF NoCall
<1>5. TypeOK'
  BY <1>2, <1>3, <1>4 DEF IInv, TypeOK
<1>6. call'[c] = NoCall /\ allowed'[c] = {} /\ reply'[c] = r
  BY <1>2 DEF IInv, TypeOK
<1>7. CallInv(c)'
  BY <1>6 DEF CallInv, NoCall
<1>8. CallerStep(c)
  BY <1>2 DEF CallerStep, IInv, TypeOK
<1>9. QED
  BY <1>5, <1>7, <1>8, CallerStepInv

LEMMA NextInv == IInv /\ [Next]_vars => IInv'
<1> SUFFICES ASSUME IInv, [Next]_vars PROVE IInv'
  OBVIOUS
<1>1. CASE UNCHANGED vars
  BY <1>1 DEF vars, IInv, TypeOK, WriterInv, CallInv, Decided, Bound
<1>2. ASSUME NEW u2 \in Offers, NEW pol \in Policies, Swap(u2, pol) PROVE IInv'
  BY <1>2, SwapInv
<1>3. ASSUME NEW f \in Fields, Store(f) PROVE IInv'
  BY <1>3, StoreInv
<1>4. ASSUME NEW c \in Callers, NEW kind \in ReadKinds, Begin(c, kind) PROVE IInv'
  BY <1>4, BeginInv
<1>5. ASSUME NEW c \in Callers, LoadState(c) \/ LoadSlot(c) \/ Return(c) PROVE IInv'
  BY <1>5, LoadStateInv, LoadSlotInv, ReturnInv
<1>6. QED
  BY <1>1, <1>2, <1>3, <1>4, <1>5 DEF Next

LEMMA Invariance == Spec => []IInv
BY InitInv, NextInv, PTL DEF Spec

\* The fields and the calls keep their types.
THEOREM TypeCorrect == Spec => []TypeOK
<1>1. IInv => TypeOK
  BY DEF IInv
<1>2. QED
  BY <1>1, Invariance, PTL

\* Whatever is offered and whatever the order of the stores and of the loads, a
\* caller is only ever given the trap or an address that passed consensus.
THEOREM CallersGetOnlyValidatedAddresses == Spec => []OnlyValidatedAddresses
<1>1. IInv => OnlyValidatedAddresses
  <2> SUFFICES ASSUME IInv PROVE OnlyValidatedAddresses
    OBVIOUS
  <2>1. node.w \in AgreedOrTrap
    BY DEF IInv, WriterInv, Decided
  <2>2. ASSUME NEW c \in Callers
        PROVE  /\ reply[c] \in AgreedAddresses \union {Trap, NoAddress}
               /\ call[c].w \in AgreedAddresses \union {Trap, NotLoaded}
    <3>1. CallInv(c)
      BY DEF IInv
    <3>2. call[c].w # NotLoaded => call[c].w \in AgreedOrTrap
      <4>1. CASE call[c].kind = "none"
        BY <3>1, <4>1 DEF CallInv, NoCall
      <4>2. CASE call[c].kind # "none"
        BY <3>1, <4>2 DEF CallInv
      <4>3. QED
        BY <4>1, <4>2
    <3>3. QED
      BY <3>1, <3>2 DEF CallInv, AgreedOrTrap
  <2>3. QED
    BY <2>1, <2>2 DEF OnlyValidatedAddresses, AgreedOrTrap
<1>2. QED
  BY <1>1, Invariance, PTL

-----------------------------------------------------------------------------
(* The node implements the register                                        *)

\* The two variables of the register that are computed from those of the node.
Writing == IF pending = {} THEN {} ELSE {target.w}
Reading == [c \in Callers |-> [kind |-> call[c].kind, allowed |-> allowed[c]]]

LEMMA RegisterInit == Init => Register!Init
BY DEF Init, Register!Init, Register!NoRead, NoCall

LEMMA SwapBeginsWrite ==
  ASSUME IInv, NEW u2 \in Offers, NEW pol \in Policies, Swap(u2, pol)
  PROVE  \E v \in Register!Values : Register!BeginWrite(v)
<1>0. PICK r : r = SwapNode(node, u2, pol, TRUE)
  OBVIOUS
<1>1. r.w \in AgreedOrTrap
  BY <1>0, DecisionIsDecided DEF IInv, TypeOK, WriterInv, Decided
<1>2. /\ pending = {} /\ pending' = Fields /\ target' = r
      /\ allowed' = [c \in Callers |-> IF Calling(c) THEN allowed[c] \union {r.w}
                                       ELSE allowed[c]]
      /\ call' = call /\ reply' = reply /\ settled' = settled
  BY <1>0 DEF Swap
<1>3. PICK v \in Register!Values : v = r.w
  BY <1>1, AgreedAreAddresses DEF AgreedOrTrap, Register!Values
<1>4. Writing = {} /\ Writing' = {r.w}
  BY <1>2 DEF Writing, Fields
<1>5. \A c \in Callers : Calling(c) <=> call[c].kind # "none"
  BY DEF IInv, CallInv, Calling, NoCall
<1>6. Reading' = [c \in Callers |-> IF Reading[c].kind = "none" THEN Reading[c]
                                   ELSE [Reading[c] EXCEPT !.allowed = @ \union {r.w}]]
  BY <1>2, <1>5 DEF Reading
<1>7. Register!BeginWrite(v)
  BY <1>2, <1>3, <1>4, <1>6 DEF Register!BeginWrite, Writing, Reading
<1>8. QED
  BY <1>7

LEMMA StoreEndsWriteOrStutters ==
  ASSUME IInv, NEW f \in Fields, Store(f)
  PROVE  Register!EndWrite \/ UNCHANGED Register!vars
<1>1. /\ pending # {} /\ target' = target /\ call' = call /\ reply' = reply
      /\ allowed' = allowed
      /\ settled' = IF pending' = {} THEN target.w ELSE settled
  BY DEF Store
<1>2. CASE pending' = {}
  BY <1>1, <1>2 DEF Register!EndWrite
<1>3. CASE pending' # {}
  BY <1>1, <1>3 DEF Register!vars
<1>4. QED
  BY <1>2, <1>3

LEMMA BeginBeginsRead ==
  ASSUME IInv, NEW c \in Callers, NEW kind \in ReadKinds, Begin(c, kind)
  PROVE  Register!BeginRead(c, kind)
<1>1. /\ call[c] = NoCall /\ allowed[c] = {}
      /\ call'  = [call EXCEPT ![c].kind = kind]
      /\ allowed' = [allowed EXCEPT ![c] = {settled} \union Writing]
      /\ UNCHANGED <<node, target, pending, swaps, reply, settled>>
  BY DEF Begin, Calling, IInv, CallInv, Writing, NoCall
<1>2. /\ call \in [Callers -> [kind : ReadKinds \union {"none"}, state : BindStates \union {NotLoaded},
                              w : Addresses \union {Trap, NotLoaded}]]
      /\ allowed \in [Callers -> SUBSET (Addresses \union {Trap})]
  BY DEF IInv, TypeOK
<1>3. /\ call'[c].kind = kind /\ allowed'[c] = {settled} \union Writing
      /\ \A d \in Callers \ {c} : call'[d] = call[d] /\ allowed'[d] = allowed[d]
  BY <1>1, <1>2
<1>4. Reading' = [Reading EXCEPT ![c] = [kind |-> kind, allowed |-> {settled} \union Writing]]
  BY <1>3 DEF Reading
<1>5. Reading[c] = Register!NoRead
  <2>1. Reading[c] = [kind |-> call[c].kind, allowed |-> allowed[c]]
    BY DEF Reading
  <2>2. call[c].kind = "none" /\ allowed[c] = {}
    BY <1>1 DEF NoCall
  <2>3. QED
    BY <2>1, <2>2 DEF Register!NoRead
<1>6. QED
  BY <1>1, <1>4, <1>5 DEF Register!BeginRead, Reading, Writing

LEMMA LoadStutters ==
  ASSUME IInv, NEW c \in Callers, LoadState(c) \/ LoadSlot(c)
  PROVE  UNCHANGED Register!vars
<1>1. /\ UNCHANGED <<target, pending, reply, settled, allowed>>
      /\ \E x : call' = [call EXCEPT ![c].state = x] \/ call' = [call EXCEPT ![c].w = x]
  BY DEF LoadState, LoadSlot
<1>2. call \in [Callers -> [kind : ReadKinds \union {"none"}, state : BindStates \union {NotLoaded},
                           w : Addresses \union {Trap, NotLoaded}]]
  BY DEF IInv, TypeOK
<1>3. \A d \in Callers : call'[d].kind = call[d].kind
  BY <1>1, <1>2
<1>4. Reading' = Reading
  BY <1>1, <1>3 DEF Reading
<1>5. QED
  BY <1>1, <1>4 DEF Register!vars, Reading

LEMMA ReturnEndsRead ==
  ASSUME IInv, NEW c \in Callers, Return(c)
  PROVE  Register!EndRead(c)
<1>1. PICK r \in AgreedOrTrap \union {NoAddress} :
           /\ Answers(c, r)
           /\ call[c].kind \in ReadKinds
           /\ \/ call[c].kind = "slot" /\ r \in allowed[c]
              \/ /\ call[c].kind = "address"
                 /\ \/ r = NoAddress /\ Trap \in allowed[c]
                    \/ r \in allowed[c] /\ allowed[c] # {Trap}
  BY ReturnMeaning
<1>2. /\ reply' = [reply EXCEPT ![c] = r]
      /\ call' = [call EXCEPT ![c] = NoCall]
      /\ allowed' = [allowed EXCEPT ![c] = {}]
      /\ UNCHANGED <<node, target, pending, swaps, settled>>
  BY <1>1 DEF Answers
<1>3. /\ call \in [Callers -> [kind : ReadKinds \union {"none"}, state : BindStates \union {NotLoaded},
                              w : Addresses \union {Trap, NotLoaded}]]
      /\ allowed \in [Callers -> SUBSET (Addresses \union {Trap})]
  BY DEF IInv, TypeOK
<1>4. /\ call'[c].kind = "none" /\ allowed'[c] = {}
      /\ \A d \in Callers \ {c} : call'[d] = call[d] /\ allowed'[d] = allowed[d]
  BY <1>2, <1>3 DEF NoCall
<1>5. Reading' = [Reading EXCEPT ![c] = Register!NoRead]
  BY <1>4 DEF Reading, Register!NoRead
<1>6. Reading[c] # Register!NoRead
  BY <1>1 DEF Reading, Register!NoRead, ReadKinds
<1>7. r \in Register!Replies(Reading[c])
  BY <1>1 DEF Register!Replies, Reading, ReadKinds
<1>8. reply' \in {[reply EXCEPT ![c] = x] : x \in Register!Replies(Reading[c])}
  BY <1>2, <1>7
<1>9. QED
  BY <1>2, <1>5, <1>6, <1>8 DEF Register!EndRead, Reading, Writing

\* Every order of the stores and of the loads is, seen from the callers, a
\* regular register: the "either the previous slot or the new one" of
\* mmuko_trident.h holds without any barrier.
THEOREM NodeImplementsRegister == Spec => ImplementsRegister
<1>1. IInv /\ [Next]_vars => [Register!Next]_(Register!vars)
  <2> SUFFICES ASSUME IInv, [Next]_vars PROVE [Register!Next]_(Register!vars)
    OBVIOUS
  <2>1. CASE UNCHANGED vars
    BY <2>1 DEF vars, Register!vars
  <2>2. ASSUME NEW u2 \in Offers, NEW pol \in Policies, Swap(u2, pol)
        PROVE  Register!Next
    BY <2>2, SwapBeginsWrite DEF Register!Next
  <2>3. ASSUME NEW f \in Fields, Store(f) PROVE [Register!Next]_(Register!vars)
    BY <2>3, StoreEndsWriteOrStutters DEF Register!Next
  <2>4. ASSUME NEW c \in Callers, NEW kind \in ReadKinds, Begin(c, kind)
        PROVE  Register!Next
    <3>1. kind \in Register!ReadKinds
      BY DEF ReadKinds, Register!ReadKinds
    <3>2. QED
      BY <2>4, <3>1, BeginBeginsRead DEF Register!Next
  <2>5. ASSUME NEW c \in Callers, LoadState(c) \/ LoadSlot(c)
        PROVE  UNCHANGED Register!vars
    BY <2>5, LoadStutters
  <2>6. ASSUME NEW c \in Callers, Return(c) PROVE Register!Next
    BY <2>6, ReturnEndsRead DEF Register!Next
  <2>7. QED
    BY <2>1, <2>2, <2>3, <2>4, <2>5, <2>6 DEF Next
<1>2. Spec => Register!Init /\ [][Register!Next]_(Register!vars)
  BY <1>1, RegisterInit, Invariance, PTL DEF Spec
<1>3. QED
  BY <1>2 DEF ImplementsRegister, Register!Spec
=============================================================================
