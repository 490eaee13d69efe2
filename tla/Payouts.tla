------------------------------ MODULE Payouts ------------------------------
(***************************************************************************)
(* The two ways a commission is paid, on the same rows: MobileMoney, where *)
(* the provider is asked to transfer, and EscrowArbitration, where people  *)
(* pay and record it.  They share Commission and PaymentOrder.             *)
(***************************************************************************)
EXTENDS Naturals, Sequences, FiniteSets

CONSTANTS Workers,    \* the requests that may overlap
          Providers,  \* the mobile money providers
          Escrows,    \* the rows that holdEscrowForMission may create
          MaxOrders,  \* bound: the payment orders of the commission
          MaxOpen     \* bound: how often one escrow becomes releasable

ASSUME PayoutsAssumption ==
    /\ IsFiniteSet(Workers)
    /\ MaxOrders \in Nat \ {0} /\ MaxOpen \in Nat

VARIABLES commission, order, call, hook, provider, declined, givenUp,
          escrow, staff, opened, made, vouched

MM == INSTANCE MobileMoney WITH Calls <- Workers
EA == INSTANCE EscrowArbitration WITH Staff <- Workers

momoVars == <<call, hook, provider, declined, givenUp>>
escrowVars == <<escrow, staff, opened, made, vouched>>
vars == <<commission, order, momoVars, escrowVars>>

Init == MM!MomoInit /\ EA!EscrowInit

\* A worker of the server carries one request at a time, of either kind.
OneRequestEach == \A w \in Workers : call[w].at = "idle" \/ staff[w].at = "rest"

Momo == MM!MomoNext /\ UNCHANGED escrowVars
ByHand == EA!EscrowNext /\ UNCHANGED momoVars
Next == (Momo \/ ByHand) /\ OneRequestEach'

Spec == Init /\ [][Next]_vars

\* A delivery that is being handled ends, by itself or cut off.  A provider that
\* has carried out a transfer repeats its call back until it gets an answer, and
\* not every delivery of it is cut off.
Redelivery ==
    /\ WF_vars((MM!Reconcile \/ MM!CutHook) /\ UNCHANGED escrowVars)
    /\ SF_vars(MM!Deliver("COMPLETED") /\ UNCHANGED escrowVars)
    /\ SF_vars(MM!Reconcile /\ hook = "COMPLETED" /\ UNCHANGED escrowVars)

\* The provider's way alone.
MomoSpec == Init /\ [][Momo]_vars /\ Redelivery

(***************************************************************************)
(* Properties                                                              *)
(***************************************************************************)
OrderStatuses == {"PENDING", "PROCESSING", "COMPLETED", "FAILED"}
Answers == {"none", "success", "pending", "failed"}

Row == [status : OrderStatuses, ref : {0, MM!Reference}]

MomoType ==
    /\ commission \in {"PENDING", "PROCESSING", "PAID"}
    /\ order \in Seq(Row)
    /\ Len(order) <= MaxOrders
    /\ call \in [Workers -> [at : {"idle", "claimed", "ordered", "answered", "recorded"},
                             to : SUBSET Providers, order : 0..MaxOrders, answer : Answers]]
    /\ \A c \in Workers : call[c].at \in {"ordered", "answered"} => call[c].order \in 1..Len(order)
    /\ hook \in {"none", "COMPLETED", "FAILED"}
    /\ provider \in [Providers -> {"unknown", "accepted", "executed", "refused"}]
    /\ declined \subseteq Providers /\ givenUp \subseteq Providers

StaffType ==
    /\ escrow \in [Escrows -> {"absent", "HELD", "DISPUTED", "RELEASED", "REFUNDED"}]
    /\ staff \in [Workers -> [at : {"rest", "hold", "release", "payout", "create", "pay",
                                    "refund", "order", "capture"},
                              row : Escrows \cup 0..MaxOrders]]
    /\ \A s \in Workers :
           /\ staff[s].at \in {"release", "payout", "create", "refund"} => staff[s].row \in Escrows
           /\ staff[s].at = "capture" => staff[s].row \in 1..Len(order)
    /\ opened \in [Escrows -> 0..MaxOpen]
    /\ made \in [Escrows -> Nat]
    /\ vouched \in BOOLEAN

\* Every variable has its type; the rows a request or a call points to exist.
TypeOK == MomoType /\ StaffType

Executed == {p \in Providers : provider[p] = "executed"}

\* The money of a commission is transferred twice only through a provider that the
\* ledger has given up: of two transfers that were carried out, one was alive when
\* its refusal, or the loss of its answer, made the commission payable again
\* (mobile-money/index.ts:150-174, 220-224).  Two calls that overlap never do it,
\* nor what is cut, late or repeated, nor a payout by hand in between.
TwiceOnlyIfGivenUp == \A p, q \in Executed \ givenUp : p = q

\* A commission is PAID only when a provider has carried out its transfer or a
\* person has declared it (markPaid, releaseEscrow): never on a transfer that was
\* only accepted, nor on an order that failed.
PaidIsBacked == commission = "PAID" => vouched \/ Executed # {}

\* The releases of an escrow create one payment order for each time the escrow
\* was held or reopened, however many arbiters release it at the same moment.
OneOrderPerOpening == \A e \in Escrows : made[e] <= opened[e]

\* A payment order is COMPLETED only if a provider has carried out a transfer of the
\* commission, or if a person has captured it, which gives it her reference: no lost or late
\* answer, and no update by id, says so of a transfer that was not done.
CompletedIsTrue ==
    \A o \in MM!Orders :
        order[o].status = "COMPLETED" => order[o].ref = 0 \/ Executed # {}

\* Once money has moved there is an order that bears the reference of the
\* commission, where the call back finds it.
OrderIsFindable == \E o \in MM!Orders : order[o].ref = MM!Reference
TransferHasOrder == Executed # {} => OrderIsFindable

\* PayoutPromise is kept: one transfer unless it was given up, and PAID once,
\* backed and for good.
Promise == INSTANCE PayoutPromise WITH
    transfers <- Executed, recorded <- commission = "PAID"
KeepsPromise == Promise!Spec

\* What a provider has carried out ends up as PAID in the ledger, whichever of
\* the call, its answer and its process was lost, and however late the notices of
\* earlier failures come.  (A capture by hand would take the reference off its
\* order: the call back would not find it.)
TransferIsRecorded == (Executed # {} /\ OrderIsFindable) ~> commission = "PAID"
=============================================================================
