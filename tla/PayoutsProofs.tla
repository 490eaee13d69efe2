--------------------------- MODULE PayoutsProofs ---------------------------
(***************************************************************************)
(* Theorems about Payouts, for any number of overlapping requests, escrows *)
(* and payment orders.                                                     *)
(***************************************************************************)
EXTENDS Payouts, FiniteSetTheorems, SequenceTheorems, TLAPS

-----------------------------------------------------------------------------
\* A change of the status of an order leaves the orders well typed.
LEMMA OrderStatusChange ==
    ASSUME TypeOK, NEW o \in MM!Orders, NEW st \in OrderStatuses
    PROVE  /\ [order EXCEPT ![o].status = st] \in Seq(Row)
           /\ Len([order EXCEPT ![o].status = st]) = Len(order)
<1> DEFINE new == [order[o] EXCEPT !.status = st]
<1>1. order \in Seq(Row) /\ o \in 1..Len(order)
  BY DEF TypeOK, MomoType, MM!Orders
<1>2. order[o] \in Row
  BY <1>1, ElementOfSeq
<1>3. new \in Row
  BY <1>2 DEF Row
<1>4. [order EXCEPT ![o].status = st] = [order EXCEPT ![o] = new]
  BY <1>1
<1> QED BY <1>1, <1>3, <1>4, ExceptSeq

\* A new order is appended within the bound.
LEMMA OrderAppend ==
    ASSUME TypeOK, Len(order) < MaxOrders, NEW row \in Row
    PROVE  /\ Append(order, row) \in Seq(Row)
           /\ Len(Append(order, row)) = Len(order) + 1
           /\ Len(order) + 1 <= MaxOrders
           /\ Len(order) \in Nat
<1>1. order \in Seq(Row)
  BY DEF TypeOK, MomoType
<1> QED BY <1>1, AppendProperties, LenProperties, PayoutsAssumption DEF TypeOK, MomoType

CallRecord == [at : {"idle", "claimed", "ordered", "answered", "recorded"},
               to : SUBSET Providers, order : 0..MaxOrders, answer : Answers]

Request == [at : {"rest", "hold", "release", "payout", "create", "pay",
                  "refund", "order", "capture"},
            row : Escrows \cup 0..MaxOrders]

\* The requests of one way keep their types when the other appends or changes orders.
LEMMA OtherWayType ==
    ASSUME TypeOK, order' \in Seq(Row), Len(order') <= MaxOrders, Len(order) <= Len(order')
    PROVE  /\ (UNCHANGED escrowVars) => StaffType'
           /\ (UNCHANGED momoVars /\ commission' \in {"PENDING", "PROCESSING", "PAID"}) => MomoType'
<1>1. MomoType /\ StaffType
  BY DEF TypeOK
<1>2. \A i \in 1..Len(order) : i \in 1..Len(order')
  BY LenProperties, <1>1 DEF MomoType
<1> QED BY <1>1, <1>2 DEF MomoType, StaffType, escrowVars, momoVars

\* Making the commission payable again, the calls being typed.
LEMMA GiveBackType ==
    ASSUME MomoType, call' \in [Workers -> CallRecord], UNCHANGED provider, MM!GiveBack
    PROVE  givenUp' \subseteq Providers /\ commission' \in {"PENDING", "PROCESSING", "PAID"}
<1>1. \A d \in Workers : call'[d].to \subseteq Providers
  BY DEF CallRecord
<1>2. MM!Alive' \subseteq Providers
  BY <1>1 DEF MM!Alive
<1> HIDE DEF MM!Alive
<1> QED BY <1>2 DEF MomoType, MM!GiveBack, MM!CommissionTo

LEMMA CallToIdle ==
    ASSUME MomoType, NEW c \in Workers, call' = [call EXCEPT ![c] = MM!Idle]
    PROVE  /\ call' \in [Workers -> CallRecord]
           /\ \A d \in Workers : call'[d].at \in {"ordered", "answered"} => call'[d].order \in 1..Len(order)
<1>1. MM!Idle \in CallRecord /\ MM!Idle.at = "idle"
  BY PayoutsAssumption DEF MM!Idle, CallRecord, Answers
<1> QED BY <1>1 DEF MomoType, CallRecord

-----------------------------------------------------------------------------
\* A step of payCommission keeps the types.
LEMMA CallStepType ==
    ASSUME TypeOK, NEW c \in Workers, MM!CallStep(c), UNCHANGED escrowVars
    PROVE  TypeOK'
<1> USE PayoutsAssumption DEF TypeOK, MomoType
<1>0. MomoType /\ StaffType /\ Len(order) \in Nat
  BY LenProperties DEF MomoType
<1>1. CASE MM!Claim(c)
  <2>0. PICK p \in Providers : call' = [call EXCEPT ![c] = [@ EXCEPT !.at = "claimed", !.to = {p}]]
    BY <1>1 DEF MM!Claim
  <2>1. MomoType'
    BY <1>0, <1>1, <2>0 DEF MM!Claim, MomoType
  <2> QED BY <1>0, <1>1, <2>1, OtherWayType DEF MM!Claim, MomoType
<1>2. CASE MM!CreateOrder(c)
  <2> DEFINE row == [status |-> "PROCESSING", ref |-> MM!Reference]
  <2>1. row \in Row
    BY DEF Row, OrderStatuses
  <2>2. order' = Append(order, row) /\ Len(order) < MaxOrders
    BY <1>2 DEF MM!CreateOrder
  <2>3. order' \in Seq(Row) /\ Len(order') = Len(order) + 1 /\ Len(order') <= MaxOrders
    BY <2>1, <2>2, OrderAppend
  <2>4. call' \in [Workers -> CallRecord]
    <3> DEFINE new == [call[c] EXCEPT !.at = "ordered", !.order = Len(order) + 1]
    <3>1. Len(order) + 1 \in 0..MaxOrders
      BY <1>0, <2>3
    <3>2. new \in CallRecord
      BY <1>0, <3>1 DEF MomoType, CallRecord
    <3>3. call' = [call EXCEPT ![c] = new]
      BY <1>2 DEF MM!CreateOrder
    <3> HIDE DEF new
    <3> QED BY <1>0, <3>2, <3>3 DEF MomoType, CallRecord
  <2>5. \A d \in Workers : call'[d].at \in {"ordered", "answered"} => call'[d].order \in 1..Len(order')
    BY <1>0, <1>2, <2>3 DEF MM!CreateOrder, MomoType
  <2>6. MomoType'
    BY <1>0, <1>2, <2>3, <2>4, <2>5 DEF MM!CreateOrder, MomoType, CallRecord
  <2> QED BY <1>0, <2>3, <2>6, OtherWayType
<1>3. CASE MM!InitiateThrows(c)
  <2>0. /\ call' = [call EXCEPT ![c] = MM!Idle] /\ MM!GiveBack
        /\ UNCHANGED <<order, hook, provider, declined>>
    BY <1>3 DEF MM!InitiateThrows
  <2>1. MomoType'
    BY <1>0, <2>0, CallToIdle, GiveBackType DEF MomoType, CallRecord
  <2> QED BY <1>0, <1>3, <2>1, OtherWayType DEF MM!InitiateThrows, MomoType
<1>4. CASE MM!Ask(c)
  <2>1. PICK p, state, a :
            /\ p \in call[c].to /\ state \in MM!Effects(provider[p]) /\ a \in MM!Answers(state)
            /\ MM!ProviderTo(p, state)
            /\ call' = [call EXCEPT ![c] = [@ EXCEPT !.at = "answered", !.to = {}, !.answer = a]]
    BY <1>4 DEF MM!Ask
  <2>2. p \in Providers
    BY <1>0, <2>1 DEF MomoType
  <2>3. state \in {"unknown", "accepted", "executed", "refused"}
    BY <1>0, <2>1, <2>2 DEF MM!Effects, MomoType
  <2>4. a \in Answers
    BY <2>1 DEF MM!Answers, Answers
  <2>5. provider' \in [Providers -> {"unknown", "accepted", "executed", "refused"}]
        /\ declined' \subseteq Providers
    BY <1>0, <2>1, <2>2, <2>3 DEF MM!ProviderTo, MomoType
  <2>6. call' \in [Workers -> CallRecord]
    BY <1>0, <2>1, <2>4 DEF MomoType, CallRecord
  <2>7. \A d \in Workers : call'[d].at \in {"ordered", "answered"} => call'[d].order \in 1..Len(order)
    BY <1>0, <1>4, <2>1 DEF MM!Ask, MomoType
  <2>8. MomoType'
    BY <1>0, <1>4, <2>5, <2>6, <2>7 DEF MM!Ask, MomoType, CallRecord
  <2> QED BY <1>0, <1>4, <2>8, OtherWayType DEF MM!Ask, MomoType
<1>5. CASE MM!RecordOrder(c)
  <2> DEFINE o == call[c].order
             st == MM!OrderStatusOf(call[c].answer)
  <2>1. o \in MM!Orders
    BY <1>0, <1>5 DEF MM!RecordOrder, MomoType, MM!Orders
  <2>2. st \in OrderStatuses
    BY DEF MM!OrderStatusOf, OrderStatuses
  <2>3. order' = [order EXCEPT ![o].status = st]
    BY <1>5 DEF MM!RecordOrder
  <2>4. order' \in Seq(Row) /\ Len(order') = Len(order)
    BY <2>1, <2>2, <2>3, OrderStatusChange
  <2>5. call' \in [Workers -> CallRecord]
    <3> DEFINE new == [call[c] EXCEPT !.at = "recorded", !.order = 0]
    <3>0. call[c] \in CallRecord /\ 0 \in 0..MaxOrders
      BY <1>0 DEF MomoType, CallRecord
    <3>1. new \in CallRecord
      BY <3>0 DEF CallRecord
    <3>2. call' = [call EXCEPT ![c] = new]
      BY <1>5 DEF MM!RecordOrder
    <3> HIDE DEF new
    <3> QED BY <1>0, <3>1, <3>2 DEF MomoType, CallRecord
  <2>6. \A d \in Workers : call'[d].at \in {"ordered", "answered"} => call'[d].order \in 1..Len(order')
    BY <1>0, <1>5, <2>4 DEF MM!RecordOrder, MomoType
  <2>7. MomoType'
    BY <1>0, <1>5, <2>4, <2>5, <2>6 DEF MM!RecordOrder, MomoType, CallRecord
  <2> QED BY <1>0, <2>4, <2>7, OtherWayType DEF MomoType
<1>6. CASE MM!RecordCommission(c)
  <2>0. /\ call' = [call EXCEPT ![c] = MM!Idle]
        /\ UNCHANGED <<order, hook, provider, declined>>
        /\ MM!GiveBack \/ (UNCHANGED givenUp /\ commission' \in {commission, "PAID"})
    BY <1>6 DEF MM!RecordCommission, MM!CommissionTo
  <2>1. MomoType'
    BY <1>0, <2>0, CallToIdle, GiveBackType DEF MomoType, CallRecord
  <2> QED BY <1>0, <1>6, <2>1, OtherWayType DEF MM!RecordCommission, MomoType
<1>7. CASE MM!CutCall(c)
  <2>1. MomoType'
    BY <1>0, <1>7, CallToIdle DEF MM!CutCall, MomoType, CallRecord
  <2> QED BY <1>0, <1>7, <2>1, OtherWayType DEF MM!CutCall, MomoType
<1> QED BY <1>1, <1>2, <1>3, <1>4, <1>5, <1>6, <1>7 DEF MM!CallStep

\* The provider and its call back keep the types.
LEMMA ProviderType ==
    ASSUME TypeOK, UNCHANGED escrowVars,
           \/ \E p \in Providers : MM!Settle(p)
           \/ \E s \in {"COMPLETED", "FAILED", "PROCESSING"} : MM!Deliver(s)
           \/ MM!Reconcile \/ MM!CutHook
    PROVE  TypeOK'
<1> USE DEF TypeOK
<1>0. MomoType /\ StaffType /\ Len(order) \in Nat
  BY LenProperties DEF MomoType
<1>1. CASE \E p \in Providers : MM!Settle(p)
  <2>1. MomoType'
    BY <1>0, <1>1 DEF MM!Settle, MM!ProviderTo, MomoType
  <2> QED BY <1>0, <1>1, <2>1, OtherWayType DEF MM!Settle, MomoType
<1>2. CASE \E s \in {"COMPLETED", "FAILED", "PROCESSING"} : MM!Deliver(s)
  <2>1. PICK s \in {"COMPLETED", "FAILED", "PROCESSING"}, o \in MM!Orders :
            /\ order' = [order EXCEPT ![o].status = s] /\ MM!Deliver(s)
            /\ hook' = IF s = "PROCESSING" THEN "none" ELSE s
    BY <1>2 DEF MM!Deliver
  <2>2. order' \in Seq(Row) /\ Len(order') = Len(order)
    BY <2>1, OrderStatusChange DEF OrderStatuses
  <2>3. MomoType'
    BY <1>0, <2>1, <2>2 DEF MM!Deliver, MomoType
  <2> QED BY <1>0, <2>2, <2>3, OtherWayType DEF MomoType
<1>3. CASE MM!Reconcile
  <2>0. /\ hook' = "none" /\ UNCHANGED <<order, call, provider, declined>>
        /\ MM!GiveBack \/ (UNCHANGED givenUp /\ commission' \in {commission, "PAID"})
    BY <1>0, <1>3 DEF MM!Reconcile, MM!CommissionTo, MomoType
  <2>1. MomoType'
    BY <1>0, <2>0, GiveBackType DEF MomoType, CallRecord
  <2> QED BY <1>0, <1>3, <2>1, OtherWayType DEF MM!Reconcile, MomoType
<1>4. CASE MM!CutHook
  <2>1. MomoType'
    BY <1>0, <1>4 DEF MM!CutHook, MomoType
  <2> QED BY <1>0, <1>4, <2>1, OtherWayType DEF MM!CutHook, MomoType
<1> QED BY <1>1, <1>2, <1>3, <1>4

-----------------------------------------------------------------------------
\* The staff's steps keep the types.
LEMMA StaffStepType ==
    ASSUME TypeOK, NEW s \in Workers, EA!StaffStep(s), UNCHANGED momoVars
    PROVE  TypeOK'
<1> USE PayoutsAssumption DEF TypeOK
<1>0. MomoType /\ StaffType /\ Len(order) \in Nat
  BY LenProperties DEF MomoType
<1>1. ASSUME NEW what \in {"hold", "order"}, EA!Begin(s, what, 0) PROVE TypeOK'
  <2>1. StaffType'
    BY <1>0, <1>1 DEF EA!Begin, StaffType
  <2> QED BY <1>0, <1>1, <2>1, OtherWayType DEF EA!Begin, MomoType
<1>2. ASSUME NEW what \in {"release", "refund"}, NEW e \in Escrows, EA!Begin(s, what, e) PROVE TypeOK'
  <2>1. StaffType'
    BY <1>0, <1>2 DEF EA!Begin, StaffType
  <2> QED BY <1>0, <1>2, <2>1, OtherWayType DEF EA!Begin, MomoType
<1>3. ASSUME NEW o \in EA!Orders, EA!Begin(s, "capture", o) PROVE TypeOK'
  <2>1. o \in 1..Len(order) /\ o \in 0..MaxOrders
    BY <1>0, <1>3 DEF EA!Orders, MomoType
  <2>2. StaffType'
    BY <1>0, <1>3, <2>1 DEF EA!Begin, StaffType
  <2> QED BY <1>0, <1>3, <2>2, OtherWayType DEF EA!Begin, MomoType
<1>4. ASSUME NEW e \in Escrows, EA!Hold(s, e) PROVE TypeOK'
  <2>1. StaffType'
    BY <1>0, <1>4 DEF EA!Hold, EA!Open, EA!Leave, EA!AtRest, StaffType
  <2> QED BY <1>0, <1>4, <2>1, OtherWayType DEF EA!Hold, MomoType
<1>5. CASE EA!ClaimRelease(s) \/ EA!FindPayout(s) \/ EA!Refund(s) \/ EA!Cut(s)
  <2>1. staff[s] \in Request
    BY <1>0 DEF StaffType, Request
  <2>2. EA!AtRest \in Request
    BY DEF EA!AtRest, Request
  <2>3. \/ staff' = [staff EXCEPT ![s] = EA!AtRest]
        \/ /\ staff' = [staff EXCEPT ![s].at = "payout"]
           /\ staff[s].at = "release"
        \/ \E a \in {"pay", "create"} : /\ staff' = [staff EXCEPT ![s].at = a]
                                        /\ staff[s].at = "payout"
    BY <1>5 DEF EA!ClaimRelease, EA!FindPayout, EA!Refund, EA!Cut, EA!Leave
  <2>4. staff' \in [Workers -> Request]
    <3>1. \A a \in {"payout", "pay", "create"} : [staff[s] EXCEPT !.at = a] \in Request
      BY <2>1 DEF Request
    <3>2. \A r \in Request : [staff EXCEPT ![s] = r] \in [Workers -> Request]
      BY <1>0 DEF StaffType, Request
    <3>3. staff' = [staff EXCEPT ![s] = EA!AtRest]
          \/ \E a \in {"payout", "pay", "create"} :
                 staff' = [staff EXCEPT ![s] = [staff[s] EXCEPT !.at = a]]
      BY <2>3
    <3> QED BY <2>2, <3>1, <3>2, <3>3
  <2>5. \A t \in Workers :
           /\ staff'[t].at \in {"release", "payout", "create", "refund"} => staff'[t].row \in Escrows
           /\ staff'[t].at = "capture" => staff'[t].row \in 1..Len(order)
    <3>1. CASE staff' = [staff EXCEPT ![s] = EA!AtRest]
      BY <1>0, <3>1 DEF StaffType, EA!AtRest
    <3>2. CASE \E a \in {"payout", "pay", "create"} :
                   /\ staff' = [staff EXCEPT ![s].at = a]
                   /\ staff[s].at \in {"release", "payout"}
      BY <1>0, <3>2 DEF StaffType
    <3> QED BY <2>3, <3>1, <3>2
  <2>6. escrow' \in [Escrows -> {"absent", "HELD", "DISPUTED", "RELEASED", "REFUNDED"}]
    BY <1>0, <1>5 DEF EA!ClaimRelease, EA!FindPayout, EA!Refund, EA!Cut, StaffType
  <2>7. UNCHANGED <<commission, order, opened, made, vouched>>
    BY <1>5 DEF EA!ClaimRelease, EA!FindPayout, EA!Refund, EA!Cut
  <2>8. StaffType'
    BY <1>0, <2>4, <2>5, <2>6, <2>7 DEF StaffType, Request
  <2> QED BY <1>0, <2>7, <2>8, OtherWayType DEF MomoType
<1>6. CASE EA!CreatePayout(s)
  <2> DEFINE row == [status |-> "PENDING", ref |-> 0]
  <2>1. row \in Row
    BY DEF Row, OrderStatuses
  <2>2. order' = Append(order, row) /\ Len(order) < MaxOrders
    BY <1>6 DEF EA!CreatePayout, EA!NewOrder
  <2>3. order' \in Seq(Row) /\ Len(order') = Len(order) + 1 /\ Len(order') <= MaxOrders
    BY <2>1, <2>2, OrderAppend
  <2>4. staff' \in [Workers -> Request]
    BY <1>0, <1>6 DEF EA!CreatePayout, StaffType, Request
  <2>5. made' \in [Escrows -> Nat]
    BY <1>0, <1>6 DEF EA!CreatePayout, StaffType
  <2>6. \A t \in Workers :
           /\ staff'[t].at \in {"release", "payout", "create", "refund"} => staff'[t].row \in Escrows
           /\ staff'[t].at = "capture" => staff'[t].row \in 1..Len(order')
    BY <1>0, <1>6, <2>3 DEF EA!CreatePayout, StaffType
  <2>7. StaffType'
    BY <1>0, <1>6, <2>4, <2>5, <2>6 DEF EA!CreatePayout, StaffType, Request
  <2> QED BY <1>0, <1>6, <2>3, <2>7, OtherWayType DEF EA!CreatePayout, MomoType
<1>7. CASE EA!GenerateOrder(s)
  <2> DEFINE row == [status |-> "PENDING", ref |-> 0]
  <2>1. row \in Row
    BY DEF Row, OrderStatuses
  <2>2. order' = Append(order, row) /\ Len(order) < MaxOrders
    BY <1>7 DEF EA!GenerateOrder, EA!NewOrder
  <2>3. order' \in Seq(Row) /\ Len(order') = Len(order) + 1 /\ Len(order') <= MaxOrders
    BY <2>1, <2>2, OrderAppend
  <2>4. StaffType'
    BY <1>0, <1>7, <2>3 DEF EA!GenerateOrder, EA!Leave, EA!AtRest, StaffType
  <2> QED BY <1>0, <1>7, <2>3, <2>4, OtherWayType DEF EA!GenerateOrder, MomoType
<1>8. CASE EA!PayByRelease(s)
  <2>1. StaffType'
    BY <1>0, <1>8 DEF EA!PayByRelease, EA!Leave, EA!AtRest, StaffType
  <2> QED BY <1>0, <1>8, <2>1, OtherWayType DEF EA!PayByRelease, MomoType
<1>9. CASE EA!Capture(s)
  <2> DEFINE o == staff[s].row
             row == [status |-> "COMPLETED", ref |-> 0]
  <2>1. o \in 1..Len(order)
    BY <1>0, <1>9 DEF EA!Capture, StaffType
  <2>2. row \in Row
    BY DEF Row, OrderStatuses
  <2>3. order' = [order EXCEPT ![o] = row]
    BY <1>9 DEF EA!Capture
  <2>4. order' \in Seq(Row) /\ Len(order') = Len(order)
    BY <1>0, <2>1, <2>2, <2>3, ExceptSeq DEF MomoType
  <2>5. StaffType'
    BY <1>0, <1>9, <2>4 DEF EA!Capture, EA!Leave, EA!AtRest, StaffType
  <2> QED BY <1>0, <1>9, <2>4, <2>5, OtherWayType DEF EA!Capture, MomoType
<1> QED BY <1>1, <1>2, <1>3, <1>4, <1>5, <1>6, <1>7, <1>8, <1>9
        DEF EA!StaffStep, EA!BeginHold, EA!BeginRelease, EA!BeginRefund, EA!BeginOrder, EA!BeginCapture

\* The one-step operations of the staff keep the types.
LEMMA EscrowType ==
    ASSUME TypeOK, UNCHANGED momoVars,
           \/ \E e \in Escrows : EA!Dispute(e) \/ EA!ContractRelease(e)
           \/ \E o \in EA!Orders : EA!MarkFailed(o)
           \/ EA!MarkPaid
    PROVE  TypeOK'
<1> USE PayoutsAssumption DEF TypeOK
<1>0. MomoType /\ StaffType /\ Len(order) \in Nat
  BY LenProperties DEF MomoType
<1>1. ASSUME NEW e \in Escrows, EA!Dispute(e) \/ EA!ContractRelease(e) PROVE TypeOK'
  <2>1. escrow' \in [Escrows -> {"absent", "HELD", "DISPUTED", "RELEASED", "REFUNDED"}]
    BY <1>0, <1>1 DEF EA!Dispute, EA!ContractRelease, EA!Open, StaffType
  <2>2. opened' \in [Escrows -> 0..MaxOpen]
    <3>1. CASE UNCHANGED opened
      BY <1>0, <3>1 DEF StaffType
    <3>2. CASE opened[e] < MaxOpen /\ opened' = [opened EXCEPT ![e] = @ + 1]
      <4>1. opened[e] + 1 \in 0..MaxOpen
        BY <1>0, <3>2 DEF StaffType
      <4> QED BY <1>0, <3>2, <4>1 DEF StaffType
    <3> QED BY <1>1, <3>1, <3>2 DEF EA!Dispute, EA!ContractRelease, EA!Open
  <2>3. StaffType'
    BY <1>0, <1>1, <2>1, <2>2 DEF EA!Dispute, EA!ContractRelease, StaffType
  <2> QED BY <1>0, <1>1, <2>3, OtherWayType DEF EA!Dispute, EA!ContractRelease, MomoType
<1>2. ASSUME NEW o \in EA!Orders, EA!MarkFailed(o) PROVE TypeOK'
  <2>1. order' = [order EXCEPT ![o].status = "FAILED"] /\ o \in MM!Orders
    BY <1>2 DEF EA!MarkFailed, EA!Orders, MM!Orders
  <2>2. order' \in Seq(Row) /\ Len(order') = Len(order)
    BY <2>1, OrderStatusChange DEF OrderStatuses
  <2>3. StaffType'
    BY <1>0, <1>2, <2>2 DEF EA!MarkFailed, StaffType
  <2> QED BY <1>0, <1>2, <2>2, <2>3, OtherWayType DEF EA!MarkFailed, MomoType
<1>3. CASE EA!MarkPaid
  <2>1. StaffType'
    BY <1>0, <1>3 DEF EA!MarkPaid, StaffType
  <2> QED BY <1>0, <1>3, <2>1, OtherWayType DEF EA!MarkPaid, MomoType
<1> QED BY <1>1, <1>2, <1>3

LEMMA TypeInit == Init => TypeOK
<1> SUFFICES ASSUME Init PROVE TypeOK
  OBVIOUS
<1>1. MomoType
  BY EmptySeq, PayoutsAssumption DEF Init, MM!MomoInit, MM!Idle, MomoType, Answers
<1>2. StaffType
  <2>1. EA!AtRest \in Request /\ 0 \in 0..MaxOpen /\ EA!AtRest.at = "rest"
    BY PayoutsAssumption DEF EA!AtRest, Request
  <2> QED BY <2>1 DEF Init, EA!EscrowInit, StaffType, Request
<1> QED BY <1>1, <1>2 DEF TypeOK

LEMMA TypeStep == TypeOK /\ [Next]_vars => TypeOK'
<1> SUFFICES ASSUME TypeOK, [Next]_vars PROVE TypeOK'
  OBVIOUS
<1>1. CASE Momo
  BY <1>1, CallStepType, ProviderType DEF Momo, MM!MomoNext
<1>2. CASE ByHand
  BY <1>2, StaffStepType, EscrowType DEF ByHand, EA!EscrowNext
<1>3. CASE UNCHANGED vars
  BY <1>3 DEF vars, momoVars, escrowVars, TypeOK, MomoType, StaffType
<1> QED BY <1>1, <1>2, <1>3 DEF Next

\* The types hold in every state: no step of either way breaks those of the other.
THEOREM TypeCorrect == Spec => []TypeOK
  BY TypeInit, TypeStep, PTL DEF Spec

-----------------------------------------------------------------------------
\* Who says that a transfer is done says so after a provider has done it.
Told ==
    /\ commission = "PAID" => vouched \/ Executed # {}
    /\ \A c \in Workers : call[c].answer = "success" => Executed # {}
    /\ hook = "COMPLETED" => Executed # {}

\* Of the transfers that are alive one at most was not given up, and none while the
\* commission can be claimed.
Once ==
    /\ \A p, q \in MM!Alive \ givenUp : p = q
    /\ commission = "PENDING" => MM!Alive \subseteq givenUp

PayInv == TypeOK /\ Told /\ Once

\* What one step may do to the facts that PayoutPromise is about.
Transferred ==
    /\ \E p \in Providers : /\ p \notin Executed /\ Executed' = Executed \cup {p}
                            /\ p \in givenUp \/ Executed \subseteq givenUp
    /\ UNCHANGED <<commission, givenUp, vouched>>
Vouched == commission' = "PAID" /\ vouched' = TRUE /\ UNCHANGED <<provider, givenUp>>
Recorded == commission' = "PAID" /\ Executed # {} /\ UNCHANGED <<provider, givenUp, vouched>>
GivenBack ==
    /\ commission # "PAID" /\ commission' # "PAID"
    /\ givenUp \subseteq givenUp' /\ UNCHANGED <<provider, vouched>>
Stays ==
    /\ commission' = "PAID" <=> commission = "PAID"
    /\ Executed' = Executed
    /\ UNCHANGED <<givenUp, vouched>>
Change == Transferred \/ Vouched \/ Recorded \/ GivenBack \/ Stays
Shape == Told' /\ Once' /\ Change

\* A step after which fewer transfers are alive, and after which the commission is
\* payable only if it was or if what is alive is given up, keeps Once.
LEMMA OnceStays ==
    ASSUME Once, MM!Alive' \subseteq MM!Alive, givenUp \subseteq givenUp',
           commission' = "PENDING" =>
               (commission = "PENDING" /\ givenUp' = givenUp) \/ MM!Alive' \subseteq givenUp'
    PROVE  Once'
<1> HIDE DEF MM!Alive
<1> QED BY DEF Once

\* What a step may do to the calls and the provider without a new transfer.
LEMMA FewerAlive ==
    ASSUME \A d \in Workers : call'[d].to \subseteq call[d].to,
           \A p \in Providers : provider'[p] \in {"accepted", "executed"} => p \in MM!Alive
    PROVE  MM!Alive' \subseteq MM!Alive
  BY DEF MM!Alive

\* Making the commission payable again.
LEMMA GiveBackShape ==
    ASSUME PayInv, MM!GiveBack, MM!Alive' \subseteq MM!Alive, UNCHANGED <<provider, vouched>>
    PROVE  /\ Once' /\ (GivenBack \/ Stays) /\ Executed' = Executed
           /\ commission' = "PAID" <=> commission = "PAID"
<1> HIDE DEF MM!Alive
<1>0. Executed' = Executed
  BY DEF Executed
<1>1. CASE commission = "PROCESSING"
  <2>1. commission' = "PENDING" /\ givenUp' = givenUp \cup MM!Alive'
    BY <1>1 DEF MM!GiveBack, MM!CommissionTo
  <2>2. Once'
    BY <2>1, OnceStays DEF PayInv
  <2> QED BY <1>0, <1>1, <2>1, <2>2 DEF GivenBack
<1>2. CASE commission # "PROCESSING"
  <2>1. UNCHANGED <<commission, givenUp>>
    BY <1>2 DEF MM!GiveBack, MM!CommissionTo
  <2>2. Once'
    BY <2>1, OnceStays DEF PayInv
  <2> QED BY <1>0, <2>1, <2>2 DEF Stays
<1> QED BY <1>1, <1>2

\* What the ledger and the calls say stays true while they say nothing new.
LEMMA ToldStays ==
    ASSUME Told, Executed \subseteq Executed', vouched => vouched',
           commission' = "PAID" => commission = "PAID" \/ vouched' \/ Executed # {},
           hook' = "COMPLETED" => hook = "COMPLETED" \/ Executed' # {},
           \A d \in Workers : call'[d].answer = "success" => call[d].answer = "success" \/ Executed' # {}
    PROVE  Told'
  BY DEF Told

LEMMA IdleCall ==
    ASSUME NEW c \in Workers, MomoType, call' = [call EXCEPT ![c] = MM!Idle]
    PROVE  /\ \A d \in Workers : call'[d].to \subseteq call[d].to
           /\ \A d \in Workers : call'[d].answer = "success" => call[d].answer = "success"
<1>1. MM!Idle.to = {} /\ MM!Idle.answer = "none"
  BY DEF MM!Idle
<1> QED BY <1>1 DEF MomoType

\* A provider that comes to accept or to carry out what was alive there.
LEMMA ProviderMoves ==
    ASSUME PayInv, NEW p \in Providers, p \in MM!Alive, NEW state,
           provider' = [provider EXCEPT ![p] = state],
           provider[p] = "executed" => state = "executed",
           \A d \in Workers : call'[d].to \subseteq call[d].to,
           UNCHANGED <<commission, givenUp, vouched>>
    PROVE  /\ Once' /\ (Transferred \/ Stays) /\ Executed \subseteq Executed'
           /\ state = "executed" => Executed' # {}
<1>1. provider \in [Providers -> {"unknown", "accepted", "executed", "refused"}]
  BY DEF PayInv, TypeOK, MomoType
<1>2. \A q \in Providers : provider'[q] \in {"accepted", "executed"} => q \in MM!Alive
  BY <1>1 DEF MM!Alive
<1>3. MM!Alive' \subseteq MM!Alive
  BY <1>2, FewerAlive
<1>4. Executed \subseteq MM!Alive
  BY DEF Executed, MM!Alive
<1> HIDE DEF MM!Alive
<1>5. Once'
  BY <1>3, OnceStays DEF PayInv
<1>6. Executed' = IF state = "executed" THEN Executed \cup {p} ELSE Executed
  BY <1>1 DEF Executed
<1>7. p \in givenUp \/ p \in Executed \/ Executed \subseteq givenUp
  BY <1>4 DEF PayInv, Once
<1> QED BY <1>5, <1>6, <1>7 DEF Transferred, Stays

\* A step of payCommission: the answer of the provider is true when it says that
\* the transfer is done, and only such an answer makes the commission PAID; only a
\* claim makes another transfer alive, when all that are were given up.
LEMMA CallStepShape ==
    ASSUME PayInv, NEW c \in Workers, MM!CallStep(c), UNCHANGED escrowVars
    PROVE  Shape
<1>0. MomoType /\ Told /\ Once /\ UNCHANGED vouched
  BY DEF PayInv, TypeOK, escrowVars
<1>1. CASE MM!Claim(c)
  <2>1. PICK p \in Providers : call' = [call EXCEPT ![c] = [@ EXCEPT !.at = "claimed", !.to = {p}]]
    BY <1>1 DEF MM!Claim
  <2>2. commission = "PENDING" /\ commission' = "PROCESSING" /\ UNCHANGED <<hook, provider, givenUp>>
    BY <1>1 DEF MM!Claim
  <2>3. \A d \in Workers : call'[d].to \subseteq call[d].to \cup {p} /\ call'[d].answer = call[d].answer
    BY <1>0, <2>1 DEF MomoType
  <2>4. MM!Alive' \subseteq MM!Alive \cup {p}
    BY <2>2, <2>3 DEF MM!Alive
  <2>5. Executed' = Executed
    BY <2>2 DEF Executed
  <2> HIDE DEF MM!Alive
  <2>6. Once'
    BY <1>0, <2>2, <2>4 DEF Once
  <2>7. Told'
    BY <1>0, <2>2, <2>3, <2>5, ToldStays
  <2> QED BY <1>0, <2>2, <2>5, <2>6, <2>7 DEF Shape, Change, Stays
<1>2. CASE MM!CreateOrder(c) \/ MM!RecordOrder(c)
  <2>1. UNCHANGED <<commission, hook, provider, givenUp>>
    BY <1>2 DEF MM!CreateOrder, MM!RecordOrder
  <2>2. \A d \in Workers : call'[d].to \subseteq call[d].to /\ call'[d].answer = call[d].answer
    <3> SUFFICES ASSUME NEW d \in Workers
                 PROVE  call'[d].to \subseteq call[d].to /\ call'[d].answer = call[d].answer
      OBVIOUS
    <3>1. CASE MM!CreateOrder(c)
      BY <1>0, <3>1 DEF MM!CreateOrder, MomoType
    <3>2. CASE MM!RecordOrder(c)
      BY <1>0, <3>2 DEF MM!RecordOrder, MomoType
    <3> QED BY <1>2, <3>1, <3>2
  <2>3. MM!Alive' \subseteq MM!Alive /\ Executed' = Executed
    BY <2>1, <2>2 DEF MM!Alive, Executed
  <2> HIDE DEF MM!Alive
  <2>4. Once'
    BY <1>0, <2>1, <2>3, OnceStays
  <2>5. Told'
    BY <1>0, <2>1, <2>2, <2>3, ToldStays
  <2> QED BY <1>0, <2>1, <2>3, <2>4, <2>5 DEF Shape, Change, Stays
<1>3. CASE MM!InitiateThrows(c) \/ MM!RecordCommission(c) \/ MM!CutCall(c)
  <2>1. call' = [call EXCEPT ![c] = MM!Idle] /\ UNCHANGED <<hook, provider>>
    BY <1>3 DEF MM!InitiateThrows, MM!RecordCommission, MM!CutCall
  <2>2. /\ \A d \in Workers : call'[d].to \subseteq call[d].to
        /\ \A d \in Workers : call'[d].answer = "success" => call[d].answer = "success"
    BY <1>0, <2>1, IdleCall
  <2>3. MM!Alive' \subseteq MM!Alive /\ Executed' = Executed
    <3>1. \A p \in Providers : provider'[p] \in {"accepted", "executed"} => p \in MM!Alive
      BY <2>1 DEF MM!Alive
    <3> QED BY <2>1, <2>2, <3>1, FewerAlive DEF Executed
  <2>4. \/ MM!GiveBack
        \/ UNCHANGED <<commission, givenUp>>
        \/ Executed # {} /\ commission' = "PAID" /\ UNCHANGED givenUp
        \/ Executed # {} /\ UNCHANGED <<commission, givenUp>>
    BY <1>0, <1>3 DEF MM!InitiateThrows, MM!RecordCommission, MM!CutCall, MM!CommissionTo, Told
  <2> HIDE DEF MM!Alive
  <2>5. CASE MM!GiveBack
    <3>1. Once' /\ (GivenBack \/ Stays) /\ (commission' = "PAID" <=> commission = "PAID")
      BY <1>0, <2>1, <2>3, <2>5, GiveBackShape
    <3>2. Told'
      BY <1>0, <2>1, <2>2, <2>3, <3>1, ToldStays
    <3> QED BY <3>1, <3>2 DEF Shape, Change
  <2>6. CASE UNCHANGED <<commission, givenUp>>
    <3>1. Once' /\ Told'
      BY <1>0, <2>1, <2>2, <2>3, <2>6, OnceStays, ToldStays
    <3> QED BY <1>0, <2>3, <2>6, <3>1 DEF Shape, Change, Stays
  <2>7. CASE Executed # {} /\ commission' = "PAID" /\ UNCHANGED givenUp
    <3>1. Once' /\ Told'
      BY <1>0, <2>1, <2>2, <2>3, <2>7, OnceStays, ToldStays
    <3> QED BY <1>0, <2>1, <2>7, <3>1 DEF Shape, Change, Recorded
  <2> QED BY <2>4, <2>5, <2>6, <2>7
<1>4. CASE MM!Ask(c)
  <2>1. PICK p, state, a :
            /\ p \in call[c].to /\ state \in MM!Effects(provider[p]) /\ a \in MM!Answers(state)
            /\ MM!ProviderTo(p, state)
            /\ call' = [call EXCEPT ![c] = [@ EXCEPT !.at = "answered", !.to = {}, !.answer = a]]
    BY <1>4 DEF MM!Ask
  <2>2. p \in Providers /\ p \in MM!Alive
    BY <1>0, <2>1 DEF MomoType, MM!Alive
  <2>3. provider' = [provider EXCEPT ![p] = state] /\ (provider[p] = "executed" => state = "executed")
    BY <2>1 DEF MM!ProviderTo, MM!Effects
  <2>4. /\ \A d \in Workers : call'[d].to \subseteq call[d].to
        /\ \A d \in Workers : call'[d].answer = "success" => call[d].answer = "success" \/ a = "success"
    BY <1>0, <2>1 DEF MomoType
  <2>5. a = "success" => state = "executed"
    BY <2>1 DEF MM!Answers
  <2>6. UNCHANGED <<commission, hook, givenUp>>
    BY <1>4 DEF MM!Ask
  <2> HIDE DEF MM!Alive
  <2>7. /\ Once' /\ (Transferred \/ Stays) /\ Executed \subseteq Executed'
        /\ state = "executed" => Executed' # {}
    BY <1>0, <2>2, <2>3, <2>4, <2>6, ProviderMoves
  <2>8. Told'
    BY <1>0, <2>4, <2>5, <2>6, <2>7, ToldStays
  <2> QED BY <2>7, <2>8 DEF Shape, Change
<1> QED BY <1>1, <1>2, <1>3, <1>4 DEF MM!CallStep

\* The providers and their call back: a notice of failure never takes PAID back.
LEMMA ProviderShape ==
    ASSUME PayInv, UNCHANGED escrowVars,
           \/ \E p \in Providers : MM!Settle(p)
           \/ \E s \in {"COMPLETED", "FAILED", "PROCESSING"} : MM!Deliver(s)
           \/ MM!Reconcile \/ MM!CutHook
    PROVE  Shape
<1>0. MomoType /\ Told /\ Once /\ UNCHANGED vouched
  BY DEF PayInv, TypeOK, escrowVars
<1>1. ASSUME NEW p \in Providers, MM!Settle(p) PROVE Shape
  <2>1. PICK state \in {"executed", "refused"} : provider' = [provider EXCEPT ![p] = state]
    BY <1>1 DEF MM!Settle, MM!ProviderTo
  <2>2. provider[p] = "accepted" /\ UNCHANGED <<commission, call, hook, givenUp>>
    BY <1>1 DEF MM!Settle
  <2>3. p \in MM!Alive
    BY <2>2 DEF MM!Alive
  <2>4. Once' /\ (Transferred \/ Stays) /\ Executed \subseteq Executed'
    BY <1>0, <2>1, <2>2, <2>3, ProviderMoves
  <2>5. Told'
    BY <1>0, <2>2, <2>4, ToldStays
  <2> QED BY <2>4, <2>5 DEF Shape, Change
<1>2. ASSUME UNCHANGED <<call, provider>>, MM!Alive' \subseteq MM!Alive /\ Executed' = Executed
      PROVE  /\ UNCHANGED <<commission, givenUp>> => Once' /\ Stays
             /\ commission' = "PAID" /\ UNCHANGED givenUp => Once'
             /\ (hook' = "COMPLETED" => hook = "COMPLETED" \/ Executed # {})
                  /\ (commission' = "PAID" => commission = "PAID" \/ Executed # {}) => Told'
  <2> HIDE DEF MM!Alive
  <2>1. UNCHANGED <<commission, givenUp>> => Once'
    BY <1>0, <1>2, OnceStays
  <2>2. commission' = "PAID" /\ UNCHANGED givenUp => Once'
    BY <1>0, <1>2, OnceStays
  <2>3. (hook' = "COMPLETED" => hook = "COMPLETED" \/ Executed # {})
            /\ (commission' = "PAID" => commission = "PAID" \/ Executed # {}) => Told'
    BY <1>0, <1>2, ToldStays
  <2> QED BY <1>0, <1>2, <2>1, <2>2, <2>3 DEF Stays
<1>3. ASSUME UNCHANGED <<call, provider>>
      PROVE  MM!Alive' \subseteq MM!Alive /\ Executed' = Executed
  BY <1>3 DEF MM!Alive, Executed
<1>4. ASSUME NEW s \in {"COMPLETED", "FAILED", "PROCESSING"}, MM!Deliver(s) PROVE Shape
  <2>1. PICK p \in Providers : s \in MM!Announced(p) /\ hook' = IF s = "PROCESSING" THEN "none" ELSE s
    BY <1>4 DEF MM!Deliver
  <2>2. s = "COMPLETED" => Executed # {}
    BY <2>1 DEF MM!Announced, Executed
  <2>3. UNCHANGED <<commission, call, provider, givenUp>>
    BY <1>4 DEF MM!Deliver
  <2>4. Once' /\ Stays /\ Told'
    BY <1>2, <1>3, <2>1, <2>2, <2>3
  <2> QED BY <2>4 DEF Shape, Change
<1>5. CASE MM!Reconcile
  <2>1. UNCHANGED <<call, provider>> /\ hook' = "none"
    BY <1>5 DEF MM!Reconcile
  <2>2. \/ MM!GiveBack
        \/ Executed # {} /\ UNCHANGED givenUp /\ (commission' = "PAID" \/ UNCHANGED commission)
    BY <1>0, <1>5 DEF MM!Reconcile, MM!CommissionTo, Told, MomoType
  <2>3. CASE MM!GiveBack
    <3>1. Once' /\ (GivenBack \/ Stays) /\ (commission' = "PAID" <=> commission = "PAID")
      BY <1>0, <1>3, <2>1, <2>3, GiveBackShape
    <3>2. Told'
      BY <1>2, <1>3, <2>1, <3>1
    <3> QED BY <3>1, <3>2 DEF Shape, Change
  <2>4. CASE Executed # {} /\ UNCHANGED givenUp /\ (commission' = "PAID" \/ UNCHANGED commission)
    <3>1. Once' /\ Told' /\ (UNCHANGED commission => Stays)
      BY <1>2, <1>3, <2>1, <2>4
    <3> QED BY <1>0, <2>1, <2>4, <3>1 DEF Shape, Change, Recorded
  <2> QED BY <2>2, <2>3, <2>4
<1>6. CASE MM!CutHook
  <2>1. UNCHANGED <<commission, call, provider, givenUp>> /\ hook' = "none"
    BY <1>6 DEF MM!CutHook
  <2>2. Once' /\ Stays /\ Told'
    BY <1>2, <1>3, <2>1
  <2> QED BY <2>2 DEF Shape, Change
<1> QED BY <1>1, <1>4, <1>5, <1>6

\* The staff's steps leave the providers alone; they make the commission PAID only
\* as a person's declaration, and never payable.
LEMMA ByHandShape ==
    ASSUME PayInv, ByHand
    PROVE  Shape
<1>1. UNCHANGED <<call, hook, provider, givenUp>>
  BY DEF ByHand, momoVars
<1>2. \/ UNCHANGED <<commission, vouched>>
      \/ commission' = "PAID" /\ vouched' = TRUE
  BY DEF ByHand, EA!EscrowNext, EA!StaffStep, EA!BeginHold, EA!Hold, EA!BeginRelease, EA!BeginRefund,
         EA!ClaimRelease, EA!FindPayout, EA!CreatePayout, EA!PayByRelease, EA!Refund, EA!BeginOrder,
         EA!GenerateOrder, EA!BeginCapture, EA!Capture, EA!Cut, EA!Begin, EA!Dispute,
         EA!ContractRelease, EA!MarkFailed, EA!MarkPaid
<1>3. MM!Alive' \subseteq MM!Alive /\ Executed' = Executed
  BY <1>1 DEF MM!Alive, Executed
<1> HIDE DEF MM!Alive
<1>4. Once'
  BY <1>1, <1>2, <1>3, OnceStays DEF PayInv
<1>5. Told'
  BY <1>1, <1>2, <1>3, ToldStays DEF PayInv
<1> QED BY <1>1, <1>2, <1>3, <1>4, <1>5 DEF Shape, Change, Vouched, Stays

LEMMA PayInvInductive ==
    /\ Init => PayInv
    /\ PayInv /\ [Next]_vars => PayInv' /\ (Shape \/ UNCHANGED vars)
<1>1. Init => PayInv
  <2> SUFFICES ASSUME Init PROVE PayInv
    OBVIOUS
  <2>1. TypeOK
    BY TypeInit
  <2>2. MM!Alive = {}
    BY DEF Init, MM!MomoInit, MM!Idle, MM!Alive
  <2>3. Told
    BY DEF Init, MM!MomoInit, MM!Idle, Told
  <2> QED BY <2>1, <2>2, <2>3 DEF PayInv, Once
<1>2. PayInv /\ [Next]_vars => PayInv' /\ (Shape \/ UNCHANGED vars)
  <2> SUFFICES ASSUME PayInv, [Next]_vars PROVE PayInv' /\ (Shape \/ UNCHANGED vars)
    OBVIOUS
  <2>1. TypeOK'
    BY TypeStep DEF PayInv
  <2>2. CASE Momo
    <3>1. Shape
      BY <2>2, CallStepShape, ProviderShape DEF Momo, MM!MomoNext
    <3> QED BY <2>1, <3>1 DEF PayInv, Shape
  <2>3. CASE ByHand
    BY <2>1, <2>3, ByHandShape DEF PayInv, Shape
  <2>4. CASE UNCHANGED vars
    <3>1. MM!Alive' = MM!Alive /\ Executed' = Executed
      BY <2>4 DEF vars, momoVars, MM!Alive, Executed
    <3>2. Told' /\ Once'
      BY <2>4, <3>1 DEF vars, momoVars, escrowVars, PayInv, Told, Once
    <3> QED BY <2>1, <2>4, <3>2 DEF PayInv
  <2> QED BY <2>2, <2>3, <2>4 DEF Next
<1> QED BY <1>1, <1>2

LEMMA PayInvHolds == Spec => []PayInv
  BY PayInvInductive, PTL DEF Spec

\* Two transfers need a commission that was made payable again while one of them
\* was alive; no overlap, cut, repetition or payout by hand is enough.
THEOREM PaysTwiceOnlyIfGivenUp == Spec => []TwiceOnlyIfGivenUp
<1>1. PayInv => TwiceOnlyIfGivenUp
  <2>1. Executed \subseteq MM!Alive
    BY DEF Executed, MM!Alive
  <2> QED BY <2>1 DEF PayInv, Once, TwiceOnlyIfGivenUp
<1> QED BY <1>1, PayInvHolds, PTL

\* PAID always rests on a transfer that was carried out or on a person's word.
THEOREM Backed == Spec => []PaidIsBacked
<1>1. PayInv => PaidIsBacked
  BY DEF PayInv, Told, PaidIsBacked
<1> QED BY <1>1, PayInvHolds, PTL

\* Payouts implements PayoutPromise: PAID is reached once, for a reason, and is
\* final; the money moves again only where it was given up.
THEOREM PromiseKept == Spec => KeepsPromise
<1>1. Init => Promise!Init
  BY DEF Init, MM!MomoInit, EA!EscrowInit, Promise!Init, Executed
<1>2. PayInv /\ PayInv' /\ (Shape \/ UNCHANGED vars) => [Promise!Next]_(Promise!vars)
  <2> SUFFICES ASSUME PayInv, PayInv', Shape \/ UNCHANGED vars PROVE [Promise!Next]_(Promise!vars)
    OBVIOUS
  <2>1. CASE Transferred
    <3>1. PICK p \in Providers : /\ p \notin Executed /\ Executed' = Executed \cup {p}
                                 /\ p \in givenUp \/ Executed \subseteq givenUp
      BY <2>1 DEF Transferred
    <3>2. Promise!Transfer(p)
      BY <2>1, <3>1 DEF Transferred, Promise!Transfer
    <3> QED BY <3>2 DEF Promise!Next
  <2>2. CASE Vouched
    BY <2>2 DEF Vouched, Promise!Next, Promise!Vouch, Executed
  <2>3. CASE Recorded
    BY <2>3 DEF Recorded, Promise!Next, Promise!Record, Executed
  <2>4. CASE GivenBack
    <3>1. Executed' = Executed
      BY <2>4 DEF GivenBack, Executed
    <3>2. givenUp' \in SUBSET Providers /\ givenUp' = givenUp \cup givenUp'
      BY <2>4 DEF GivenBack, PayInv, TypeOK, MomoType
    <3> QED BY <2>4, <3>1, <3>2 DEF GivenBack, Promise!Next, Promise!GiveUp
  <2>5. CASE Stays
    BY <2>5 DEF Stays, Promise!vars
  <2>6. CASE UNCHANGED vars
    BY <2>6 DEF vars, momoVars, escrowVars, Promise!vars, Executed
  <2> QED BY <2>1, <2>2, <2>3, <2>4, <2>5, <2>6 DEF Shape, Change
<1> QED BY <1>1, <1>2, PayInvInductive, PayInvHolds, PTL DEF Spec, KeepsPromise, Promise!Spec

-----------------------------------------------------------------------------
\* The requests that have claimed a release of e and have not looked for, or not
\* created, its payment order.
Releasing(e) == {s \in Workers : staff[s].at \in {"payout", "create"} /\ staff[s].row = e}

\* An opening is spent once: it is open, being released, or has its order.
Spent(e) == made[e] + Cardinality(Releasing(e)) + (IF escrow[e] \in EA!Releasable THEN 1 ELSE 0)
OpeningInv == \A e \in Escrows : Spent(e) <= opened[e]

LEMMA ReleasingFinite ==
    ASSUME NEW e
    PROVE  IsFiniteSet(Releasing(e)) /\ Cardinality(Releasing(e)) \in Nat
<1>1. Releasing(e) \in SUBSET Workers
  BY DEF Releasing
<1> QED BY <1>1, FS_Subset, FS_CardinalityType, PayoutsAssumption

\* A step that adds no request to those that release e, opens nothing and creates
\* nothing keeps the account of e.
LEMMA NothingSpent ==
    ASSUME TypeOK, TypeOK', NEW e \in Escrows, Spent(e) <= opened[e],
           Releasing(e)' \subseteq Releasing(e),
           made'[e] = made[e], opened'[e] = opened[e],
           escrow'[e] \in EA!Releasable => escrow[e] \in EA!Releasable
    PROVE  Spent(e)' <= opened'[e]
<1>1. Cardinality(Releasing(e)') <= Cardinality(Releasing(e))
      /\ Cardinality(Releasing(e)') \in Nat
  BY ReleasingFinite, FS_Subset, FS_CardinalityType
<1>2. Cardinality(Releasing(e)) \in Nat /\ made[e] \in Nat /\ opened[e] \in Nat
  BY ReleasingFinite DEF TypeOK, StaffType
<1>3. Spent(e)' = made'[e] + Cardinality(Releasing(e)')
                  + (IF escrow'[e] \in EA!Releasable THEN 1 ELSE 0)
  BY DEF Spent, EA!Releasable
<1> QED BY <1>1, <1>2, <1>3 DEF Spent

LEMMA StaffStepSpends ==
    ASSUME TypeOK, TypeOK', OpeningInv, NEW s \in Workers, EA!StaffStep(s)
    PROVE  OpeningInv'
<1> SUFFICES ASSUME NEW e \in Escrows PROVE Spent(e)' <= opened'[e]
  BY DEF OpeningInv
<1>0. /\ Spent(e) <= opened[e]
      /\ staff \in [Workers -> Request]
      /\ made[e] \in Nat /\ opened[e] \in Nat
      /\ IsFiniteSet(Releasing(e)) /\ Cardinality(Releasing(e)) \in Nat
  BY ReleasingFinite DEF OpeningInv, TypeOK, StaffType, Request
<1>1. CASE \/ EA!BeginHold(s) \/ EA!BeginOrder(s) \/ \E o \in EA!Orders : EA!BeginCapture(s, o)
           \/ \E f \in Escrows : EA!BeginRelease(s, f) \/ EA!BeginRefund(s, f)
  <2>1. PICK what, row : what \in {"hold", "order", "capture", "release", "refund"} /\ EA!Begin(s, what, row)
    BY <1>1 DEF EA!BeginHold, EA!BeginOrder, EA!BeginCapture, EA!BeginRelease, EA!BeginRefund
  <2>2. Releasing(e)' \subseteq Releasing(e)
    BY <1>0, <2>1 DEF EA!Begin, Releasing
  <2> QED BY <1>0, <2>1, <2>2, NothingSpent DEF EA!Begin
<1>2. CASE EA!PayByRelease(s) \/ EA!GenerateOrder(s) \/ EA!Capture(s) \/ EA!Cut(s) \/ EA!Refund(s)
  <2>1. staff' = [staff EXCEPT ![s] = EA!AtRest]
    BY <1>2 DEF EA!PayByRelease, EA!GenerateOrder, EA!Capture, EA!Cut, EA!Refund, EA!Leave
  <2>2. Releasing(e)' \subseteq Releasing(e)
    BY <1>0, <2>1 DEF EA!AtRest, Releasing
  <2>3. UNCHANGED <<made, opened>>
    BY <1>2 DEF EA!PayByRelease, EA!GenerateOrder, EA!Capture, EA!Cut, EA!Refund
  <2>4. escrow'[e] \in EA!Releasable => escrow[e] \in EA!Releasable
    BY <1>2 DEF EA!PayByRelease, EA!GenerateOrder, EA!Capture, EA!Cut, EA!Refund, EA!Releasable,
                TypeOK, StaffType
  <2> QED BY <1>0, <2>2, <2>3, <2>4, NothingSpent
<1>3. ASSUME NEW f \in Escrows, EA!Hold(s, f) PROVE Spent(e)' <= opened'[e]
  <2>1. Releasing(e)' \subseteq Releasing(e)
    BY <1>0, <1>3 DEF EA!Hold, EA!Leave, EA!AtRest, Releasing
  <2>2. CASE e # f
    BY <1>0, <1>3, <2>1, <2>2, NothingSpent DEF EA!Hold, EA!Open, TypeOK, StaffType
  <2>3. CASE e = f
    <3>1. made'[e] = made[e] /\ opened'[e] = opened[e] + 1 /\ escrow[e] = "absent"
          /\ escrow'[e] = "HELD"
      BY <1>3, <2>3 DEF EA!Hold, EA!Open, TypeOK, StaffType
    <3>2. Cardinality(Releasing(e)') <= Cardinality(Releasing(e))
          /\ Cardinality(Releasing(e)') \in Nat
      BY <1>0, <2>1, FS_Subset, FS_CardinalityType
    <3>3. Spent(e)' = made'[e] + Cardinality(Releasing(e)') + 1
      BY <3>1 DEF Spent, EA!Releasable
    <3>4. Spent(e) = made[e] + Cardinality(Releasing(e))
      BY <1>0, <3>1 DEF Spent, EA!Releasable
    <3> QED BY <1>0, <3>1, <3>2, <3>3, <3>4
  <2> QED BY <2>2, <2>3
<1>4. CASE EA!ClaimRelease(s)
  <2> DEFINE f == staff[s].row
  <2>0. staff[s].at = "release" /\ UNCHANGED <<made, opened>>
    BY <1>4 DEF EA!ClaimRelease
  <2>1. CASE escrow[f] \notin EA!Releasable
    <3>1. Releasing(e)' \subseteq Releasing(e) /\ UNCHANGED escrow
      BY <1>0, <1>4, <2>1 DEF EA!ClaimRelease, EA!Leave, EA!AtRest, Releasing
    <3> QED BY <1>0, <2>0, <3>1, NothingSpent
  <2>2. CASE escrow[f] \in EA!Releasable
    <3>1. /\ escrow' = [escrow EXCEPT ![f] = "RELEASED"]
          /\ staff' = [staff EXCEPT ![s].at = "payout"]
      BY <1>4, <2>2 DEF EA!ClaimRelease
    <3>2. CASE e # f
      <4>1. Releasing(e)' \subseteq Releasing(e) /\ escrow'[e] = escrow[e]
        BY <1>0, <3>1, <3>2 DEF Releasing, TypeOK, StaffType
      <4> QED BY <1>0, <2>0, <4>1, NothingSpent
    <3>3. CASE e = f
      <4>1. Releasing(e)' = Releasing(e) \cup {s} /\ s \notin Releasing(e)
        BY <1>0, <2>0, <3>1, <3>3 DEF Releasing, Request
      <4>2. Cardinality(Releasing(e)') = Cardinality(Releasing(e)) + 1
        BY <1>0, <4>1, FS_AddElement
      <4>3. escrow'[e] = "RELEASED"
        BY <3>1, <3>3 DEF TypeOK, StaffType
      <4>4. Spent(e)' = made'[e] + Cardinality(Releasing(e)')
        <5>1. Spent(e)' = made'[e] + Cardinality(Releasing(e)') + 0
          BY <4>3 DEF Spent, EA!Releasable
        <5> QED BY <1>0, <2>0, <4>2, <5>1
      <4>5. Spent(e) = made[e] + Cardinality(Releasing(e)) + 1
        BY <2>2, <3>3 DEF Spent
      <4> QED BY <1>0, <2>0, <4>2, <4>4, <4>5
    <3> QED BY <3>2, <3>3
  <2> QED BY <2>1, <2>2
<1>5. CASE EA!FindPayout(s)
  <2>1. Releasing(e)' \subseteq Releasing(e)
    BY <1>0, <1>5 DEF EA!FindPayout, Releasing
  <2> QED BY <1>0, <1>5, <2>1, NothingSpent DEF EA!FindPayout
<1>6. CASE EA!CreatePayout(s)
  <2> DEFINE f == staff[s].row
  <2>1. /\ staff[s].at = "create" /\ UNCHANGED <<escrow, opened>>
        /\ made' = [made EXCEPT ![f] = @ + 1]
        /\ staff' = [staff EXCEPT ![s].at = "pay"]
    BY <1>6 DEF EA!CreatePayout
  <2>2. CASE e # f
    <3>1. Releasing(e)' \subseteq Releasing(e) /\ made'[e] = made[e]
      BY <1>0, <2>1, <2>2 DEF Releasing, TypeOK, StaffType
    <3> QED BY <1>0, <2>1, <3>1, NothingSpent
  <2>3. CASE e = f
    <3>1. Releasing(e)' = Releasing(e) \ {s} /\ s \in Releasing(e)
      BY <1>0, <2>1, <2>3 DEF Releasing, Request
    <3>2. Cardinality(Releasing(e)') = Cardinality(Releasing(e)) - 1
      BY <1>0, <3>1, FS_RemoveElement
    <3>3. made'[e] = made[e] + 1
      BY <2>1, <2>3 DEF TypeOK, StaffType
    <3>4. Spent(e)' = made'[e] + Cardinality(Releasing(e)') + (IF escrow[e] \in EA!Releasable THEN 1 ELSE 0)
      BY <2>1 DEF Spent, EA!Releasable
    <3> QED BY <1>0, <2>1, <3>2, <3>3, <3>4 DEF Spent
  <2> QED BY <2>2, <2>3
<1> QED BY <1>1, <1>2, <1>3, <1>4, <1>5, <1>6 DEF EA!StaffStep

\* The releases of an escrow create one payment order for each opening, for any
\* number of arbiters who release, refund and dispute at once.
THEOREM OpeningsSpentOnce == Spec => []OneOrderPerOpening
<1> USE DEF OpeningInv
<1>1. Init => OpeningInv
  <2> SUFFICES ASSUME Init, NEW e \in Escrows PROVE Spent(e) <= opened[e]
    OBVIOUS
  <2>1. Releasing(e) = {}
    BY DEF Init, EA!EscrowInit, EA!AtRest, Releasing
  <2> QED BY <2>1, FS_EmptySet DEF Init, EA!EscrowInit, Spent, EA!Releasable
<1>2. TypeOK /\ TypeOK' /\ OpeningInv /\ [Next]_vars => OpeningInv'
  <2> SUFFICES ASSUME TypeOK, TypeOK', OpeningInv, [Next]_vars PROVE OpeningInv'
    OBVIOUS
  <2>1. ASSUME UNCHANGED <<staff, opened, made>>, NEW f \in Escrows,
               UNCHANGED escrow \/ escrow' = [escrow EXCEPT ![f] = "RELEASED"]
               \/ (escrow[f] \in EA!Releasable /\ escrow' = [escrow EXCEPT ![f] = "DISPUTED"])
        PROVE  OpeningInv'
    <3> SUFFICES ASSUME NEW e \in Escrows PROVE Spent(e)' <= opened'[e]
      OBVIOUS
    <3>1. Releasing(e)' = Releasing(e)
      BY <2>1 DEF Releasing
    <3>2. escrow'[e] \in EA!Releasable => escrow[e] \in EA!Releasable
      BY <2>1 DEF EA!Releasable, TypeOK, StaffType
    <3> QED BY <2>1, <3>1, <3>2, NothingSpent
  <2>2. CASE UNCHANGED <<escrow, staff, opened, made>>
    <3>1. \A e \in Escrows : Spent(e)' = Spent(e) /\ opened'[e] = opened[e]
      BY <2>2 DEF Spent, Releasing, EA!Releasable
    <3> QED BY <3>1
  <2>3. CASE Momo
    BY <2>2, <2>3 DEF Momo, escrowVars
  <2>4. CASE \E s \in Workers : EA!StaffStep(s)
    BY <2>4, StaffStepSpends
  <2>5. ASSUME NEW f \in Escrows, EA!Dispute(f) PROVE OpeningInv'
    <3>1. CASE escrow[f] \in EA!Releasable
      BY <2>1, <2>5, <3>1 DEF EA!Dispute
    <3>2. CASE escrow[f] \notin EA!Releasable
      <4> SUFFICES ASSUME NEW e \in Escrows PROVE Spent(e)' <= opened'[e]
        OBVIOUS
      <4>1. Releasing(e)' = Releasing(e) /\ made'[e] = made[e]
        BY <2>5 DEF EA!Dispute, Releasing
      <4>2. CASE e # f
        BY <2>5, <3>2, <4>1, <4>2, NothingSpent DEF EA!Dispute, EA!Open, TypeOK, StaffType
      <4>3. CASE e = f
        <5>1. opened'[e] = opened[e] + 1 /\ escrow'[e] = "DISPUTED"
          BY <2>5, <3>2, <4>3 DEF EA!Dispute, EA!Open, TypeOK, StaffType
        <5>2. Spent(e)' = made[e] + Cardinality(Releasing(e)) + 1
          BY <4>1, <5>1 DEF Spent, EA!Releasable
        <5>3. Spent(e) = made[e] + Cardinality(Releasing(e)) + 0
          BY <3>2, <4>3 DEF Spent
        <5>4. made[e] \in Nat /\ opened[e] \in Nat /\ Cardinality(Releasing(e)) \in Nat
          BY ReleasingFinite DEF TypeOK, StaffType
        <5> QED BY <5>1, <5>2, <5>3, <5>4
      <4> QED BY <4>2, <4>3
    <3> QED BY <3>1, <3>2
  <2>6. ASSUME NEW f \in Escrows, EA!ContractRelease(f) PROVE OpeningInv'
    BY <2>1, <2>6 DEF EA!ContractRelease
  <2>7. CASE EA!MarkPaid \/ \E o \in EA!Orders : EA!MarkFailed(o)
    BY <2>2, <2>7 DEF EA!MarkPaid, EA!MarkFailed
  <2>8. CASE UNCHANGED vars
    BY <2>2, <2>8 DEF vars, escrowVars
  <2> QED BY <2>3, <2>4, <2>5, <2>6, <2>7, <2>8 DEF Next, ByHand, EA!EscrowNext
<1>3. TypeOK /\ OpeningInv => OneOrderPerOpening
  <2> SUFFICES ASSUME TypeOK, OpeningInv, NEW e \in Escrows PROVE made[e] <= opened[e]
    BY DEF OneOrderPerOpening
  <2>1. made[e] \in Nat /\ opened[e] \in Nat /\ Cardinality(Releasing(e)) \in Nat
    BY ReleasingFinite DEF TypeOK, StaffType
  <2> QED BY <2>1 DEF Spent
<1> QED BY <1>1, <1>2, <1>3, TypeCorrect, PTL DEF Spec

-----------------------------------------------------------------------------
\* What an order says: its reference is one of refs, and if it is COMPLETED it was
\* captured, or the transfer is done.
Sound(r, refs, done) == r.ref \in refs /\ (r.status = "COMPLETED" => r.ref = 0 \/ done)
AllSound(t, refs, done) == \A o \in 1..Len(t) : Sound(t[o], refs, done)
Done == Executed # {}

LEMMA SoundAppend ==
    ASSUME NEW t \in Seq(Row), NEW row \in Row, NEW refs, NEW done \in BOOLEAN,
           AllSound(t, refs, done), Sound(row, refs, done)
    PROVE  AllSound(Append(t, row), refs, done) /\ Len(t) <= Len(Append(t, row))
<1>1. /\ Len(t) \in Nat /\ Len(Append(t, row)) = Len(t) + 1
      /\ Append(t, row)[Len(t) + 1] = row
      /\ \A i \in 1..Len(t) : Append(t, row)[i] = t[i]
  BY AppendProperties, LenProperties
<1> DEFINE u == Append(t, row)
<1> HIDE DEF u
<1>2. ASSUME NEW o \in 1..Len(u) PROVE Sound(u[o], refs, done)
  <2>1. CASE o = Len(t) + 1
    BY <1>1, <2>1 DEF u
  <2>2. CASE o # Len(t) + 1
    <3>1. o \in 1..Len(t) /\ u[o] = t[o]
      BY <1>1, <2>2 DEF u
    <3> QED BY <3>1 DEF AllSound
  <2> QED BY <2>1, <2>2
<1> QED BY <1>1, <1>2 DEF AllSound, u

LEMMA SoundUpdate ==
    ASSUME NEW t \in Seq(Row), NEW o \in 1..Len(t), NEW row \in Row, NEW refs, NEW done \in BOOLEAN,
           AllSound(t, refs, done), Sound(row, refs, done)
    PROVE  AllSound([t EXCEPT ![o] = row], refs, done) /\ Len(t) <= Len([t EXCEPT ![o] = row])
<1> DEFINE u == [t EXCEPT ![o] = row]
<1>1. /\ Len(t) \in Nat /\ Len(u) = Len(t)
      /\ \A i \in 1..Len(t) : u[i] = IF i = o THEN row ELSE t[i]
  BY ExceptSeq, LenProperties
<1> HIDE DEF u
<1>2. ASSUME NEW i \in 1..Len(u) PROVE Sound(u[i], refs, done)
  BY <1>1 DEF AllSound
<1> QED BY <1>1, <1>2 DEF AllSound, u

\* Writing a status keeps an order sound if COMPLETED is not written before the
\* transfer is done.
LEMMA SoundStatus ==
    ASSUME TypeOK, NEW o \in MM!Orders, NEW st \in OrderStatuses, NEW refs,
           AllSound(order, refs, Done), st = "COMPLETED" => Done
    PROVE  AllSound([order EXCEPT ![o].status = st], refs, Done)
           /\ Len(order) <= Len([order EXCEPT ![o].status = st])
<1> DEFINE new == [order[o] EXCEPT !.status = st]
<1>1. order \in Seq(Row) /\ o \in 1..Len(order)
  BY DEF TypeOK, MomoType, MM!Orders
<1>2. order[o] \in Row
  BY <1>1, ElementOfSeq
<1>3. new \in Row /\ new.ref = order[o].ref /\ new.status = st
  BY <1>2 DEF Row
<1>4. [order EXCEPT ![o].status = st] = [order EXCEPT ![o] = new]
  BY <1>1
<1>5. Sound(new, refs, Done)
  BY <1>1, <1>3 DEF Sound, AllSound
<1> HIDE DEF new
<1>6. Done \in BOOLEAN
  BY DEF Done
<1> QED BY <1>1, <1>3, <1>4, <1>5, <1>6, SoundUpdate

\* The provider's way: orders are created with the key of the commission, and the
\* two writers of a status say COMPLETED after the provider has.
LEMMA MomoKeepsSound ==
    ASSUME PayInv, Momo, NEW refs, 1 \in refs, AllSound(order, refs, Done)
    PROVE  AllSound(order', refs, Done) /\ Len(order) <= Len(order')
<1> USE DEF PayInv
<1>0. order \in Seq(Row) /\ Done \in BOOLEAN /\ Len(order) \in Nat
  BY LenProperties DEF TypeOK, MomoType, Done
<1>1. ASSUME NEW c \in Workers, MM!CreateOrder(c)
      PROVE  AllSound(order', refs, Done) /\ Len(order) <= Len(order')
  <2> DEFINE row == [status |-> "PROCESSING", ref |-> MM!Reference]
  <2>1. row \in Row /\ Sound(row, refs, Done)
    BY DEF Row, OrderStatuses, Sound, MM!Reference
  <2>2. order' = Append(order, row)
    BY <1>1 DEF MM!CreateOrder
  <2> HIDE DEF row
  <2> QED BY <1>0, <2>1, <2>2, SoundAppend
<1>2. ASSUME NEW c \in Workers, MM!RecordOrder(c)
      PROVE  AllSound(order', refs, Done) /\ Len(order) <= Len(order')
  <2> DEFINE o == call[c].order
             st == MM!OrderStatusOf(call[c].answer)
  <2>1. o \in MM!Orders /\ st \in OrderStatuses
    BY <1>2 DEF MM!RecordOrder, TypeOK, MomoType, MM!Orders, MM!OrderStatusOf, OrderStatuses
  <2>2. st = "COMPLETED" => Done
    BY DEF Told, Done, MM!OrderStatusOf
  <2>3. order' = [order EXCEPT ![o].status = st]
    BY <1>2 DEF MM!RecordOrder
  <2> HIDE DEF o, st
  <2> QED BY <2>1, <2>2, <2>3, SoundStatus
<1>3. ASSUME NEW s \in {"COMPLETED", "FAILED", "PROCESSING"}, MM!Deliver(s)
      PROVE  AllSound(order', refs, Done) /\ Len(order) <= Len(order')
  <2>1. PICK p \in Providers, o \in MM!Orders :
            s \in MM!Announced(p) /\ order' = [order EXCEPT ![o].status = s]
    BY <1>3 DEF MM!Deliver
  <2>2. s = "COMPLETED" => Done
    BY <2>1 DEF MM!Announced, Done, Executed
  <2> QED BY <2>1, <2>2, SoundStatus DEF OrderStatuses
<1>4. CASE UNCHANGED order
  BY <1>0, <1>4
<1> QED BY <1>1, <1>2, <1>3, <1>4
        DEF Momo, MM!MomoNext, MM!CallStep, MM!Claim, MM!InitiateThrows, MM!Ask, MM!RecordCommission,
            MM!CutCall, MM!Settle, MM!Reconcile, MM!CutHook

\* The staff's way: new orders have no reference, and a captured one loses its own.
LEMMA ByHandKeepsSound ==
    ASSUME PayInv, ByHand, NEW refs, 0 \in refs, AllSound(order, refs, Done)
    PROVE  AllSound(order', refs, Done)
<1> USE DEF PayInv
<1>0. order \in Seq(Row) /\ Done \in BOOLEAN
  BY DEF TypeOK, MomoType, Done
<1>1. CASE order' = EA!NewOrder
  <2> DEFINE row == [status |-> "PENDING", ref |-> 0]
  <2>1. row \in Row /\ Sound(row, refs, Done) /\ order' = Append(order, row)
    BY <1>1 DEF Row, OrderStatuses, Sound, EA!NewOrder
  <2> HIDE DEF row
  <2> QED BY <1>0, <2>1, SoundAppend
<1>2. ASSUME NEW s \in Workers, EA!Capture(s) PROVE AllSound(order', refs, Done)
  <2> DEFINE row == [status |-> "COMPLETED", ref |-> 0]
             o == staff[s].row
  <2>1. row \in Row /\ Sound(row, refs, Done) /\ order' = [order EXCEPT ![o] = row]
    BY <1>2 DEF Row, OrderStatuses, Sound, EA!Capture
  <2>2. o \in 1..Len(order)
    BY <1>2 DEF EA!Capture, TypeOK, StaffType
  <2> HIDE DEF row, o
  <2> QED BY <1>0, <2>1, <2>2, SoundUpdate
<1>3. ASSUME NEW o \in EA!Orders, EA!MarkFailed(o) PROVE AllSound(order', refs, Done)
  <2>1. o \in MM!Orders /\ order' = [order EXCEPT ![o].status = "FAILED"]
    BY <1>3 DEF EA!MarkFailed, EA!Orders, MM!Orders
  <2> QED BY <2>1, SoundStatus DEF OrderStatuses
<1>4. CASE UNCHANGED order
  BY <1>4
<1>5. \/ order' = EA!NewOrder \/ UNCHANGED order
      \/ \E s \in Workers : EA!Capture(s)
      \/ \E o \in EA!Orders : EA!MarkFailed(o)
  BY DEF ByHand, EA!EscrowNext, EA!StaffStep, EA!BeginHold, EA!Hold, EA!BeginRelease, EA!BeginRefund,
         EA!ClaimRelease, EA!FindPayout, EA!CreatePayout, EA!PayByRelease, EA!Refund, EA!BeginOrder,
         EA!GenerateOrder, EA!BeginCapture, EA!Cut, EA!Begin, EA!Dispute, EA!ContractRelease, EA!MarkPaid
<1> QED BY <1>1, <1>2, <1>3, <1>4, <1>5

\* What a provider has carried out stays carried out.
LEMMA DoneStays == ASSUME Shape \/ UNCHANGED vars, Done PROVE Done'
<1>1. UNCHANGED provider => Executed' = Executed
  BY DEF Executed
<1>2. UNCHANGED vars => UNCHANGED provider
  BY DEF vars, momoVars
<1>3. Change => Executed \subseteq Executed'
  BY <1>1 DEF Change, Transferred, Vouched, Recorded, GivenBack, Stays
<1> QED BY <1>1, <1>2, <1>3 DEF Shape, Done

LEMMA SoundLater ==
    ASSUME NEW refs, AllSound(order', refs, Done), Done => Done'
    PROVE  AllSound(order, refs, Done)'
  BY DEF AllSound, Sound

\* A payment order never claims a transfer that was not carried out: the two ways
\* may overwrite each other's status, but COMPLETED stays true.
THEOREM CompletedAlwaysTrue == Spec => []CompletedIsTrue
<1> DEFINE Inv == AllSound(order, {0, 1}, Done)
<1>1. Init => Inv
  BY EmptySeq DEF Init, MM!MomoInit, AllSound
<1>2. PayInv /\ Inv /\ [Next]_vars => Inv'
  <2> SUFFICES ASSUME PayInv, Inv, [Next]_vars PROVE Inv'
    OBVIOUS
  <2>1. Done => Done'
    BY PayInvInductive, DoneStays
  <2>2. AllSound(order', {0, 1}, Done)
    <3>1. CASE Momo
      BY <3>1, MomoKeepsSound
    <3>2. CASE ByHand
      BY <3>2, ByHandKeepsSound
    <3>3. CASE UNCHANGED vars
      BY <3>3 DEF vars
    <3> QED BY <3>1, <3>2, <3>3 DEF Next
  <2> QED BY <2>1, <2>2, SoundLater
<1>3. PayInv /\ Inv => CompletedIsTrue
  BY DEF AllSound, Sound, Done, CompletedIsTrue, MM!Orders
<1> QED BY <1>1, <1>2, <1>3, PayInvHolds, PTL DEF Spec

\* payCommission creates the order before it asks the provider, and nothing on the
\* provider's way takes the key off it: a call back always finds an order.
THEOREM TransferAlwaysHasOrder == MomoSpec => []TransferHasOrder
<1> DEFINE Inv == /\ PayInv /\ AllSound(order, {1}, Done)
                  /\ (\E p \in Providers : provider[p] # "unknown") => Len(order) >= 1
<1>1. Init => Inv
  BY PayInvInductive, EmptySeq DEF Init, MM!MomoInit, AllSound
<1>2. Inv /\ [Momo]_vars => Inv'
  <2> SUFFICES ASSUME Inv, [Momo]_vars PROVE Inv'
    OBVIOUS
  <2>1. CASE UNCHANGED vars
    <3>1. [Next]_vars
      BY <2>1
    <3>2. PayInv'
      BY <3>1, PayInvInductive
    <3> QED BY <2>1, <3>2 DEF vars, momoVars, AllSound, Sound, Done, Executed
  <2>2. CASE Momo
    <3>1. UNCHANGED escrowVars /\ TypeOK' /\ Shape
      BY <2>2, CallStepType, ProviderType, CallStepShape, ProviderShape DEF Momo, MM!MomoNext, PayInv
    <3>2. PayInv' /\ (Done => Done')
      BY <3>1, DoneStays DEF PayInv, Shape
    <3>3. AllSound(order', {1}, Done) /\ Len(order) <= Len(order')
      BY <2>2, MomoKeepsSound
    <3>4. AllSound(order, {1}, Done)'
      BY <3>2, <3>3, SoundLater
    <3>5. Len(order) \in Nat /\ Len(order') \in Nat
      BY <3>2, LenProperties DEF PayInv, TypeOK, MomoType
    <3>6. (\E p \in Providers : provider'[p] # "unknown") => Len(order) >= 1
      <4>1. CASE provider' = provider
        BY <4>1
      <4>2. ASSUME NEW c \in Workers, MM!Ask(c) PROVE Len(order) >= 1
        BY <3>5, <4>2 DEF MM!Ask, PayInv, TypeOK, MomoType
      <4>3. ASSUME NEW p \in Providers, MM!Settle(p) PROVE Len(order) >= 1
        BY <4>3 DEF MM!Settle
      <4>4. provider' = provider \/ (\E c \in Workers : MM!Ask(c)) \/ \E p \in Providers : MM!Settle(p)
        BY <2>2 DEF Momo, MM!MomoNext, MM!CallStep, MM!Claim, MM!CreateOrder, MM!InitiateThrows,
                    MM!RecordOrder, MM!RecordCommission, MM!CutCall, MM!Deliver, MM!Reconcile, MM!CutHook
      <4> QED BY <4>1, <4>2, <4>3, <4>4
    <3> QED BY <3>2, <3>3, <3>4, <3>5, <3>6
  <2> QED BY <2>1, <2>2
<1>3. Inv => TransferHasOrder
  <2> SUFFICES ASSUME Inv, Executed # {} PROVE OrderIsFindable
    BY DEF TransferHasOrder
  <2>1. Len(order) \in Nat /\ Len(order) >= 1
    BY LenProperties DEF Executed, PayInv, TypeOK, MomoType
  <2>2. 1 \in MM!Orders /\ order[1].ref = MM!Reference
    BY <2>1 DEF AllSound, Sound, MM!Orders, MM!Reference
  <2> QED BY <2>2 DEF OrderIsFindable
<1> QED BY <1>1, <1>2, <1>3, PTL DEF MomoSpec
=============================================================================
