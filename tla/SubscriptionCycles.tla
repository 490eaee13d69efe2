------------------------- MODULE SubscriptionCycles -------------------------
(***************************************************************************)
(* The manual cycles of a subscription: startManualSubscriptionCycle, the  *)
(* web hooks of CinetPay and PayPal, and applySubscriptionCycleIfPaid,     *)
(* which extends the period once for every payment that was collected.     *)
(*                                                                         *)
(* Several deliveries are handled at once; each awaits between its steps,  *)
(* may be cut at any of them, and is delivered again.  The last three      *)
(* steps are one READ COMMITTED transaction.  All payments are for one     *)
(* subscription.                                                           *)
(***************************************************************************)
EXTENDS Naturals, FiniteSets

CONSTANTS Payments,   \* references of the payments
          Rail,       \* Rail[p]: "CINETPAY", "PAYPAL" or "FREE"
          Hooks,      \* deliveries that are handled at the same time
          NoPayment,
          Cycle,      \* CYCLE_DAYS, in units of the clock
          MaxClock    \* bound: the clock

ASSUME CyclesAssumption ==
    /\ Rail \in [Payments -> {"CINETPAY", "PAYPAL", "FREE"}]
    /\ NoPayment \notin Payments
    /\ Cycle \in Nat \ {0} /\ MaxClock \in Nat

VARIABLES clock,
          pay,      \* pay[p]: the IntakePayment row
          truth,    \* truth[p]: what the provider knows of the payment
          end,      \* Subscription.currentPeriodEnd, 0 when there is none
          hook,     \* hook[h]: the delivery in hand, and what it has read
          grants    \* grants[p]: the extensions committed for p

vars == <<clock, pay, truth, end, hook, grants>>

Free == [at |-> "free", ref |-> NoPayment, paidAt |-> 0, seen |-> 0]

Init ==
    /\ clock = 1
    /\ pay = [p \in Payments |-> [status |-> "absent", proof |-> FALSE, paidAt |-> 0, applied |-> FALSE]]
    /\ truth = [p \in Payments |-> "none"]
    /\ end = 0
    /\ hook = [h \in Hooks |-> Free]
    /\ grants = [p \in Payments |-> 0]

Tick == clock < MaxClock /\ clock' = clock + 1 /\ UNCHANGED <<pay, truth, end, hook, grants>>

\* updateMany where status is not PAID
StatusUnlessPaid(p, status) ==
    pay' = IF pay[p].status = "PAID" THEN pay ELSE [pay EXCEPT ![p].status = status]
Go(h, at) == hook' = [hook EXCEPT ![h].at = at]
End(h) == hook' = [hook EXCEPT ![h] = Free]

(***************************************************************************)
(* startManualSubscriptionCycle                                            *)
(***************************************************************************)
\* The row is created before the provider is asked.
Start(p) ==
    /\ pay[p].status = "absent" /\ Rail[p] # "FREE"
    /\ pay' = [pay EXCEPT ![p].status = "PENDING"]
    /\ UNCHANGED <<clock, truth, end, hook, grants>>

\* initPayment: the provider opens the payment, whether its answer comes or not.
AskProvider(p) ==
    /\ pay[p].status = "PENDING" /\ truth[p] = "none"
    /\ truth' = [truth EXCEPT ![p] = "asked"]
    /\ UNCHANGED <<clock, pay, end, hook, grants>>

\* providerRef and the proof of notification are saved, the customer gets the page.
SaveProof(p) ==
    /\ truth[p] = "asked" /\ pay[p].status # "FAILED"
    /\ pay' = [pay EXCEPT ![p].proof = TRUE]
    /\ truth' = [truth EXCEPT ![p] = "open"]
    /\ UNCHANGED <<clock, end, hook, grants>>

\* initPayment throws, or its answer cannot be saved.
StartFails(p) ==
    /\ pay[p].status = "PENDING" /\ truth[p] \in {"none", "asked"}
    /\ StatusUnlessPaid(p, "FAILED")
    /\ UNCHANGED <<clock, truth, end, hook, grants>>

\* A price of zero: the row is born PAID, and the request applies it itself.
StartFree(p, h) ==
    /\ pay[p].status = "absent" /\ Rail[p] = "FREE" /\ hook[h] = Free
    /\ pay' = [pay EXCEPT ![p] = [@ EXCEPT !.status = "PAID", !.paidAt = clock]]
    /\ hook' = [hook EXCEPT ![h] = [Free EXCEPT !.at = "read", !.ref = p]]
    /\ UNCHANGED <<clock, truth, end, grants>>

(***************************************************************************)
(* The customer and the provider                                           *)
(***************************************************************************)
\* CinetPay collects; a failed attempt may be followed by one that succeeds.
Collect(p) ==
    /\ Rail[p] = "CINETPAY" /\ truth[p] \in {"open", "refused"}
    /\ truth' = [truth EXCEPT ![p] = "charged"]
    /\ UNCHANGED <<clock, pay, end, hook, grants>>

\* FAILED or EXPIRED
Refuse(p) ==
    /\ truth[p] = "open"
    /\ truth' = [truth EXCEPT ![p] = "refused"]
    /\ UNCHANGED <<clock, pay, end, hook, grants>>

\* The customer consents on PayPal's page: nothing is collected yet.
Approve(p) ==
    /\ Rail[p] = "PAYPAL" /\ truth[p] = "open"
    /\ truth' = [truth EXCEPT ![p] = "approved"]
    /\ UNCHANGED <<clock, pay, end, hook, grants>>

(***************************************************************************)
(* The web hook of CinetPay                                                *)
(***************************************************************************)
\* Slip: a payment that is PAID was handled before, 200.
NotifyOnce(h, p) ==
    /\ hook[h] = Free /\ Rail[p] = "CINETPAY" /\ truth[p] # "none"
    /\ pay[p].proof /\ pay[p].status # "PAID"
    /\ hook' = [hook EXCEPT ![h] = [Free EXCEPT !.ref = p, !.at = "verify"]]
    /\ UNCHANGED <<clock, pay, truth, end, grants>>

\* The row is read; without its proof the answer is 503 and nothing is done.  A
\* payment that is PAID already still has its cycle to be applied.
Notify(h, p) ==
    /\ hook[h] = Free /\ Rail[p] = "CINETPAY" /\ truth[p] # "none"
    /\ pay[p].proof
    /\ hook' = [hook EXCEPT ![h] = [Free EXCEPT !.ref = p,
                    !.at = IF pay[p].status = "PAID" THEN "read" ELSE "verify"]]
    /\ UNCHANGED <<clock, pay, truth, end, grants>>

\* verifyPayment: the authoritative status; any other one ends the delivery.
Verify(h) ==
    /\ hook[h].at = "verify"
    /\ CASE truth[hook[h].ref] = "charged" -> Go(h, "pay")
         [] truth[hook[h].ref] = "refused" -> Go(h, "refuse")
         [] OTHER -> End(h)
    /\ UNCHANGED <<clock, pay, truth, end, grants>>

\* Slip: the failure is written whatever the row says by now.
RecordAnyRefusal(h) ==
    /\ hook[h].at = "refuse"
    /\ pay' = [pay EXCEPT ![hook[h].ref].status = "FAILED"]
    /\ End(h)
    /\ UNCHANGED <<clock, truth, end, grants>>

RecordRefusal(h) ==
    /\ hook[h].at = "refuse"
    /\ StatusUnlessPaid(hook[h].ref, "FAILED")
    /\ End(h)
    /\ UNCHANGED <<clock, truth, end, grants>>

(***************************************************************************)
(* The web hook of PayPal                                                  *)
(***************************************************************************)
\* Slip: the consent of the customer is taken for the money.
TakeConsent(h, p) ==
    /\ hook[h] = Free /\ Rail[p] = "PAYPAL" /\ truth[p] \in {"approved", "charged"}
    /\ hook' = [hook EXCEPT ![h] = [Free EXCEPT !.ref = p, !.at = "pay"]]
    /\ UNCHANGED <<clock, pay, truth, end, grants>>

\* CHECKOUT.ORDER.APPROVED: the order is captured; a capture that does not end
\* well, or whose answer is lost, ends the delivery with 200.
Capture(h, p) ==
    /\ hook[h] = Free /\ Rail[p] = "PAYPAL" /\ truth[p] \in {"approved", "charged"}
    /\ \/ truth' = [truth EXCEPT ![p] = "charged"]
          /\ hook' = [hook EXCEPT ![h] = [Free EXCEPT !.ref = p, !.at = "pay"]]
       \/ truth' = [truth EXCEPT ![p] = "charged"] /\ UNCHANGED hook
    /\ UNCHANGED <<clock, pay, end, grants>>

\* PAYMENT.CAPTURE.COMPLETED
CaptureCompleted(h, p) ==
    /\ hook[h] = Free /\ Rail[p] = "PAYPAL" /\ truth[p] = "charged"
    /\ hook' = [hook EXCEPT ![h] = [Free EXCEPT !.ref = p, !.at = "pay"]]
    /\ UNCHANGED <<clock, pay, truth, end, grants>>

(***************************************************************************)
(* Both: PAID is claimed, then the cycle is applied                        *)
(***************************************************************************)
\* CinetPay's route goes on when the row is PAID already, PayPal's stops there.
ClaimPaid(h) ==
    /\ hook[h].at = "pay"
    /\ LET p == hook[h].ref
       IN  IF pay[p].status = "PAID"
           THEN /\ IF Rail[p] = "PAYPAL" THEN End(h) ELSE Go(h, "read")
                /\ UNCHANGED pay
           ELSE /\ pay' = [pay EXCEPT ![p] = [@ EXCEPT !.status = "PAID", !.paidAt = clock]]
                /\ Go(h, "read")
    /\ UNCHANGED <<clock, truth, end, grants>>

\* applySubscriptionCycleIfPaid reads the payment outside the transaction.
ReadPayment(h) ==
    /\ hook[h].at = "read"
    /\ IF pay[hook[h].ref].applied THEN End(h)
       ELSE hook' = [hook EXCEPT ![h] = [@ EXCEPT !.at = "claim", !.paidAt = pay[hook[h].ref].paidAt]]
    /\ UNCHANGED <<clock, pay, truth, end, grants>>

\* A transaction that has claimed the payment holds its row.
Holds(h, p) == hook[h].ref = p /\ hook[h].at \in {"base", "commit"}

\* Slip: the claim does not ask for cycleAppliedAt to be null.
ClaimAgain(h) ==
    /\ hook[h].at = "claim"
    /\ \A g \in Hooks : ~Holds(g, hook[h].ref)
    /\ Go(h, "base")
    /\ UNCHANGED <<clock, pay, truth, end, grants>>

\* updateMany where cycleAppliedAt is null; it waits for the row
ClaimCycle(h) ==
    /\ hook[h].at = "claim"
    /\ \A g \in Hooks : ~Holds(g, hook[h].ref)
    /\ IF pay[hook[h].ref].applied THEN End(h) ELSE Go(h, "base")
    /\ UNCHANGED <<clock, pay, truth, end, grants>>

ReadEnd(h) ==
    /\ hook[h].at = "base"
    /\ hook' = [hook EXCEPT ![h] = [@ EXCEPT !.at = "commit", !.seen = end]]
    /\ UNCHANGED <<clock, pay, truth, end, grants>>

\* From the end of the period when that is still to come.
Base(seen, paidAt) == IF seen > paidAt THEN seen ELSE paidAt

Extend(h) ==
    /\ hook[h].at = "commit"
    /\ pay' = [pay EXCEPT ![hook[h].ref].applied = TRUE]
    /\ end' = Base(hook[h].seen, hook[h].paidAt) + Cycle
    /\ grants' = [grants EXCEPT ![hook[h].ref] = @ + 1]
    /\ End(h)
    /\ UNCHANGED <<clock, truth>>

\* An error or the end of the process: CinetPay answers 503, PayPal 200; an open
\* transaction is rolled back.
Cut(h) ==
    /\ hook[h] # Free
    /\ End(h)
    /\ UNCHANGED <<clock, pay, truth, end, grants>>

Cinetpay(h) == \E p \in Payments : Notify(h, p)
Paypal(h) == \E p \in Payments : Capture(h, p) \/ CaptureCompleted(h, p)
Handle(h) ==
    \/ Verify(h) \/ RecordRefusal(h) \/ ClaimPaid(h)
    \/ ReadPayment(h) \/ ClaimCycle(h) \/ ReadEnd(h) \/ Extend(h)

Next ==
    \/ Tick
    \/ \E p \in Payments : Start(p) \/ AskProvider(p) \/ SaveProof(p) \/ StartFails(p)
    \/ \E p \in Payments : Collect(p) \/ Refuse(p) \/ Approve(p)
    \/ \E p \in Payments, h \in Hooks : StartFree(p, h)
    \/ \E h \in Hooks : Cinetpay(h) \/ Paypal(h) \/ Handle(h) \/ Cut(h)

Spec == Init /\ [][Next]_vars

Steps == {"free", "verify", "refuse", "pay", "read", "claim", "base", "commit"}

\* A delivery that is being handled ends, by itself or cut off.  CinetPay delivers
\* again until it gets a 2xx, which it gets when the cycle is applied, and no step
\* is the one at which every delivery of a payment is cut off.
Redelivery ==
    /\ \A h \in Hooks : WF_vars(Handle(h) \/ Cut(h))
    /\ \A p \in {q \in Payments : Rail[q] = "CINETPAY"} :
           /\ SF_vars(\E h \in Hooks : Notify(h, p))
           /\ \A at \in {"verify", "pay", "read", "claim", "base", "commit"} :
                  SF_vars(\E h \in Hooks : hook[h].at = at /\ hook[h].ref = p /\ Handle(h))

FairSpec == Spec /\ Redelivery

(***************************************************************************)
(* Properties                                                              *)
(***************************************************************************)
\* Every variable has its type.
TypeOK ==
    /\ clock \in 1..(MaxClock + 1)
    /\ pay \in [Payments -> [status : {"absent", "PENDING", "PAID", "FAILED"}, proof : BOOLEAN,
                             paidAt : 0..(MaxClock + 1), applied : BOOLEAN]]
    /\ truth \in [Payments -> {"none", "asked", "open", "approved", "refused", "charged"}]
    /\ end \in Nat
    /\ hook \in [Hooks -> [at : Steps, ref : Payments \cup {NoPayment},
                           paidAt : 0..(MaxClock + 1), seen : Nat]]
    /\ \A h \in Hooks : hook[h] = Free \/ (hook[h].at # "free" /\ hook[h].ref \in Payments)
    /\ grants \in [Payments -> Nat]

\* A payment extends the period once at most, and it is marked as applied exactly
\* when it has: whatever is redelivered, handled twice at once or cut off.
GrantedOnce == \A p \in Payments : grants[p] = IF pay[p].applied THEN 1 ELSE 0

\* A payment is PAID only if the provider has collected it, or it costs nothing.
PaidIsCollected ==
    \A p \in Payments : pay[p].status = "PAID" => truth[p] = "charged" \/ Rail[p] = "FREE"

\* No late refusal, and no failure of the start, takes PAID back.
PaidIsFinal == [][\A p \in Payments : pay[p].status = "PAID" => pay'[p].status = "PAID"]_vars

\* The subscription never runs further than the days that were paid for: a cycle
\* for each payment that was applied, counted at the latest from now.  Deliveries
\* that extend one period at once, from ends that are no longer its end, and
\* transactions that are cut and done again, give nobody a day for nothing.  It may
\* run less far: of two payments that are applied at once one adds nothing.
DaysAreBought == end <= clock + Cycle * Cardinality({p \in Payments : pay[p].applied})

\* What CinetPay has collected ends up as a cycle of the subscription.
CollectedIsGranted ==
    \A p \in Payments : Rail[p] = "CINETPAY" /\ truth[p] = "charged" ~> pay[p].applied
=============================================================================
