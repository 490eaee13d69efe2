---------------------------- MODULE MobileMoney ----------------------------
(***************************************************************************)
(* The payout of one commission by mobile money: payCommission and         *)
(* initiatePayment on one side, the provider's call back (handleWebhook)   *)
(* on the other, and the providers (Wave, MTN, Orange) between them.       *)
(*                                                                         *)
(* payCommission awaits the database and the provider between its steps;   *)
(* several calls, several deliveries and the staff (EscrowArbitration) may *)
(* run at once, and each may be cut at any point.                          *)
(***************************************************************************)
EXTENDS Naturals, Sequences

CONSTANTS Calls,      \* calls of payCommission that may overlap
          Providers,  \* those that detectProvider may choose
          MaxOrders   \* bound: the payment orders of the commission

VARIABLES commission,  \* Commission.status
          order,       \* PaymentOrder rows in order of creation
          call,        \* call[c]: where a call of payCommission is
          hook,        \* the outcome a delivery has written and not yet reconciled
          provider,    \* provider[p]: what became of the request at p, which knows
                       \* the reference of the commission again at each attempt
          declined,    \* the providers that have announced a failure
          givenUp      \* history: the transfers that were alive when the commission
                       \* was made payable again

Orders == 1..Len(order)

Idle == [at |-> "idle", to |-> {}, order |-> 0, answer |-> "none"]

MomoInit ==
    /\ commission = "PENDING" /\ order = <<>>
    /\ call = [c \in Calls |-> Idle]
    /\ hook = "none"
    /\ provider = [p \in Providers |-> "unknown"]
    /\ declined = {} /\ givenUp = {}

\* `COM-${commissionId}`, the same for every attempt; 0 is no reference
Reference == 1

\* updateMany where status in S: nothing happens to a row that is not in S
CommissionTo(new, S) ==
    commission' = IF commission \in S THEN new ELSE commission

\* A transfer is alive at p while it is under way or done, and while a call of
\* payCommission is still to ask p for it.
Alive == {p \in Providers : provider[p] \in {"accepted", "executed"}}
             \cup UNION {call[c].to : c \in Calls}

\* PROCESSING -> PENDING: the commission can be paid again.
GiveBack ==
    /\ CommissionTo("PENDING", {"PROCESSING"})
    /\ givenUp' = IF commission = "PROCESSING" THEN givenUp \cup Alive' ELSE givenUp

(***************************************************************************)
(* payCommission                                                           *)
(***************************************************************************)
\* Slip: the claim by id of the commission that was read, unless it was PAID.
ClaimById(c) ==
    /\ call[c].at = "idle" /\ commission # "PAID"
    /\ commission' = "PROCESSING"
    /\ \E p \in Providers : call' = [call EXCEPT ![c] = [@ EXCEPT !.at = "claimed", !.to = {p}]]
    /\ UNCHANGED <<order, hook, provider, declined, givenUp>>

\* The claim PENDING -> PROCESSING; a call that loses it throws.  The number of the
\* talent, which names the provider, is read anew at each attempt, and the talent
\* may have changed it.
Claim(c) ==
    /\ call[c].at = "idle" /\ commission = "PENDING"
    /\ commission' = "PROCESSING"
    /\ \E p \in Providers : call' = [call EXCEPT ![c] = [@ EXCEPT !.at = "claimed", !.to = {p}]]
    /\ UNCHANGED <<order, hook, provider, declined, givenUp>>

\* initiatePayment: the order is created PROCESSING before the provider is called
CreateOrder(c) ==
    /\ call[c].at = "claimed" /\ Len(order) < MaxOrders
    /\ order' = Append(order, [status |-> "PROCESSING", ref |-> Reference])
    /\ call' = [call EXCEPT ![c] = [@ EXCEPT !.at = "ordered", !.order = Len(order) + 1]]
    /\ UNCHANGED <<commission, hook, provider, declined, givenUp>>

\* initiatePayment throws: the order was not created, or neither its outcome nor
\* its failure could be written.  The commission can be paid again.
InitiateThrows(c) ==
    /\ call[c].at \in {"claimed", "answered"}
    /\ call' = [call EXCEPT ![c] = Idle]
    /\ UNCHANGED <<order, hook, provider, declined>>
    /\ GiveBack

\* What a request may do at a provider, which knows its reference again: a
\* transfer under way or done is not begun a second time.
Effects(state) ==
    IF state \in {"accepted", "executed"} THEN {state}
    ELSE {state, "accepted", "executed", "refused"}

\* "failed" is also an answer that is lost, a duplicate that is turned away, a
\* database error while the answer is written: initiatePayment treats them alike.
Answers(state) ==
    {"failed"} \cup (IF state = "executed" THEN {"success"} ELSE {})
               \cup (IF state \in {"accepted", "executed"} THEN {"pending"} ELSE {})

\* The provider moves to a state, and says so now or later, once or often.
ProviderTo(p, state) ==
    /\ provider' = [provider EXCEPT ![p] = state]
    /\ declined' = IF state = "refused" THEN declined \cup {p} ELSE declined

\* callProviderAPI with the reference of the commission
Ask(c) ==
    /\ call[c].at = "ordered"
    /\ \E p \in call[c].to : \E state \in Effects(provider[p]) :
           /\ ProviderTo(p, state)
           /\ \E a \in Answers(state) :
                  call' = [call EXCEPT ![c] = [@ EXCEPT !.at = "answered", !.to = {}, !.answer = a]]
    /\ UNCHANGED <<commission, order, hook, givenUp>>

OrderStatusOf(answer) == CASE answer = "success" -> "COMPLETED"
                           [] answer = "pending" -> "PROCESSING"
                           [] OTHER -> "FAILED"

\* The order is updated by id, whatever has happened to it since.
RecordOrder(c) ==
    /\ call[c].at = "answered"
    /\ order' = [order EXCEPT ![call[c].order].status = OrderStatusOf(call[c].answer)]
    /\ call' = [call EXCEPT ![c] = [@ EXCEPT !.at = "recorded", !.order = 0]]
    /\ UNCHANGED <<commission, hook, provider, declined, givenUp>>

\* COMPLETED -> PAID, FAILED -> PENDING, pending -> PROCESSING is kept
RecordCommission(c) ==
    /\ call[c].at = "recorded"
    /\ call' = [call EXCEPT ![c] = Idle]
    /\ UNCHANGED <<order, hook, provider, declined>>
    /\ CASE call[c].answer = "success" ->
                UNCHANGED givenUp /\ CommissionTo("PAID", {"PENDING", "PROCESSING"})
         [] call[c].answer = "failed" -> GiveBack
         [] OTHER -> UNCHANGED <<commission, givenUp>>

\* The process of the call ends before the call does.
CutCall(c) ==
    /\ call[c].at # "idle"
    /\ call' = [call EXCEPT ![c] = Idle]
    /\ UNCHANGED <<commission, order, hook, provider, declined, givenUp>>

(***************************************************************************)
(* The providers, and their call back                                      *)
(***************************************************************************)
\* A transfer that was accepted is carried out, or fails after all.
Settle(p) ==
    /\ provider[p] = "accepted"
    /\ \E state \in {"executed", "refused"} : ProviderTo(p, state)
    /\ UNCHANGED <<commission, order, call, hook, givenUp>>

\* What a delivery of p can say; interpretProviderStatus makes PROCESSING of every
\* status it does not know.
Announced(p) == (IF provider[p] = "unknown" THEN {} ELSE {"PROCESSING"})
                \cup (IF provider[p] = "executed" THEN {"COMPLETED"} ELSE {})
                \cup (IF p \in declined THEN {"FAILED"} ELSE {})

\* A delivery: late, repeated, or before the answer of the call.  findFirst by
\* reference takes any order that has it, whichever provider it was sent to;
\* without one the handler answers { processed: false } and is done.
Deliver(status) ==
    /\ hook = "none"
    /\ \E p \in Providers, o \in Orders :
           /\ status \in Announced(p) /\ order[o].ref = Reference
           /\ order' = [order EXCEPT ![o].status = status]
           /\ hook' = IF status = "PROCESSING" THEN "none" ELSE status
    /\ UNCHANGED <<commission, call, provider, declined, givenUp>>

\* Slip: the reset of a refused payout does not ask for PROCESSING.
ReconcileAnyStatus ==
    /\ hook # "none"
    /\ CASE hook = "COMPLETED" -> CommissionTo("PAID", {"PENDING", "PROCESSING"})
         [] hook = "FAILED" -> CommissionTo("PENDING", {"PENDING", "PROCESSING", "PAID"})
    /\ hook' = "none"
    /\ UNCHANGED <<order, call, provider, declined, givenUp>>

\* Slip: the commission is left to the call, as before the reconciliation.
ReconcileNothing ==
    /\ hook # "none"
    /\ hook' = "none"
    /\ UNCHANGED <<commission, order, call, provider, declined, givenUp>>

\* ... and the commission of the order it found
Reconcile ==
    /\ hook # "none"
    /\ hook' = "none"
    /\ UNCHANGED <<order, call, provider, declined>>
    /\ CASE hook = "COMPLETED" ->
                UNCHANGED givenUp /\ CommissionTo("PAID", {"PENDING", "PROCESSING"})
         [] hook = "FAILED" -> GiveBack

CutHook ==
    /\ hook # "none"
    /\ hook' = "none"
    /\ UNCHANGED <<commission, order, call, provider, declined, givenUp>>

CallStep(c) ==
    \/ Claim(c) \/ CreateOrder(c) \/ InitiateThrows(c) \/ Ask(c)
    \/ RecordOrder(c) \/ RecordCommission(c) \/ CutCall(c)

MomoNext ==
    \/ \E c \in Calls : CallStep(c)
    \/ \E p \in Providers : Settle(p)
    \/ \E s \in {"COMPLETED", "FAILED", "PROCESSING"} : Deliver(s)
    \/ Reconcile \/ CutHook
=============================================================================
