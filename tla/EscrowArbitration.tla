------------------------- MODULE EscrowArbitration -------------------------
(***************************************************************************)
(* The escrow of a mission and the payouts that people make by hand:       *)
(* holdEscrowForMission, releaseEscrow, refundEscrow, disputeEscrow,       *)
(* captureManualPayout, markPayoutFailed (escrow-arbitration), the payment *)
(* order of commission-engine, markPaid of the commission router and       *)
(* releaseEscrow of the contract router.                                   *)
(*                                                                         *)
(* Each of them reads, awaits and writes.  The escrows are those of one    *)
(* mission and its commission.                                             *)
(***************************************************************************)
EXTENDS Naturals, Sequences

CONSTANTS Staff,      \* requests of the staff that may overlap
          Escrows,    \* the rows that holdEscrowForMission may create
          MaxOrders,  \* bound: the payment orders of the commission
          MaxOpen     \* bound: how often one escrow becomes releasable

VARIABLES commission,  \* Commission.status, shared with MobileMoney
          order,       \* PaymentOrder rows, shared with MobileMoney
          escrow,      \* Escrow.status, "absent" before the row exists
          staff,       \* staff[s]: the request s, and the row it is about
          opened,      \* opened[e]: how often e was held or reopened
          made,        \* made[e]: the payment orders that releases of e created
          vouched      \* a person has declared the commission paid

Orders == 1..Len(order)
Releasable == {"HELD", "DISPUTED"}
AtRest == [at |-> "rest", row |-> 0]

EscrowInit ==
    /\ escrow = [e \in Escrows |-> "absent"]
    /\ staff = [s \in Staff |-> AtRest]
    /\ opened = [e \in Escrows |-> 0]
    /\ made = [e \in Escrows |-> 0]
    /\ vouched = FALSE

\* A request reads its row, passes its checks and awaits.
Begin(s, what, row) ==
    /\ staff[s] = AtRest
    /\ staff' = [staff EXCEPT ![s] = [at |-> what, row |-> row]]
    /\ UNCHANGED <<commission, order, escrow, opened, made, vouched>>

\* A request that stops there: a check that fails, an error, the end of its process.
Leave(s) == staff' = [staff EXCEPT ![s] = AtRest]
Cut(s) ==
    /\ staff[s] # AtRest /\ Leave(s)
    /\ UNCHANGED <<commission, order, escrow, opened, made, vouched>>

(***************************************************************************)
(* Escrows                                                                 *)
(***************************************************************************)
Open(e, status) ==
    /\ opened[e] < MaxOpen
    /\ escrow' = [escrow EXCEPT ![e] = status]
    /\ opened' = [opened EXCEPT ![e] = @ + 1]

\* holdEscrowForMission: the HELD escrow of the mission is returned if there is one
BeginHold(s) ==
    /\ \A e \in Escrows : escrow[e] # "HELD"
    /\ Begin(s, "hold", 0)
Hold(s, e) ==
    /\ staff[s].at = "hold" /\ escrow[e] = "absent"
    /\ Open(e, "HELD") /\ Leave(s)
    /\ UNCHANGED <<commission, order, made, vouched>>

\* releaseEscrow: the status is read; the conditions are met, or force is given
BeginRelease(s, e) == escrow[e] \in Releasable /\ Begin(s, "release", e)

\* Slip: the transition is not claimed, only the status that was read counts.
ReleaseUnclaimed(s) ==
    /\ staff[s].at = "release"
    /\ escrow' = [escrow EXCEPT ![staff[s].row] = "RELEASED"]
    /\ staff' = [staff EXCEPT ![s].at = "payout"]
    /\ UNCHANGED <<commission, order, opened, made, vouched>>

\* The claim HELD or DISPUTED -> RELEASED; the request that loses it throws.
ClaimRelease(s) ==
    /\ staff[s].at = "release"
    /\ IF escrow[staff[s].row] \in Releasable
       THEN /\ escrow' = [escrow EXCEPT ![staff[s].row] = "RELEASED"]
            /\ staff' = [staff EXCEPT ![s].at = "payout"]
       ELSE Leave(s) /\ UNCHANGED escrow
    /\ UNCHANGED <<commission, order, opened, made, vouched>>

Payable == {o \in Orders : order[o].status # "FAILED"}
NewOrder == Append(order, [status |-> "PENDING", ref |-> 0])

\* F2: an order of the commission that is not FAILED serves this release too.
FindPayout(s) ==
    /\ staff[s].at = "payout"
    /\ staff' = [staff EXCEPT ![s].at = IF Payable # {} THEN "pay" ELSE "create"]
    /\ UNCHANGED <<commission, order, escrow, opened, made, vouched>>

CreatePayout(s) ==
    /\ staff[s].at = "create" /\ Len(order) < MaxOrders
    /\ order' = NewOrder
    /\ made' = [made EXCEPT ![staff[s].row] = @ + 1]
    /\ staff' = [staff EXCEPT ![s].at = "pay"]
    /\ UNCHANGED <<commission, escrow, opened, vouched>>

\* commission.update to PAID, whatever its status, after the link to the order
PayByRelease(s) ==
    /\ staff[s].at = "pay"
    /\ commission' = "PAID" /\ vouched' = TRUE
    /\ Leave(s)
    /\ UNCHANGED <<order, escrow, opened, made>>

\* refundEscrow: only a RELEASED escrow is refused, when it is read
BeginRefund(s, e) == escrow[e] \notin {"absent", "RELEASED"} /\ Begin(s, "refund", e)
Refund(s) ==
    /\ staff[s].at = "refund"
    /\ escrow' = [escrow EXCEPT ![staff[s].row] = "REFUNDED"]
    /\ Leave(s)
    /\ UNCHANGED <<commission, order, opened, made, vouched>>

\* disputeEscrow, from any status: a closed escrow can be released again
Dispute(e) ==
    /\ escrow[e] # "absent"
    /\ IF escrow[e] \in Releasable
       THEN escrow' = [escrow EXCEPT ![e] = "DISPUTED"] /\ UNCHANGED opened
       ELSE Open(e, "DISPUTED")
    /\ UNCHANGED <<commission, order, staff, made, vouched>>

\* contract.releaseEscrow: the status alone, and no order
ContractRelease(e) ==
    /\ escrow[e] # "absent"
    /\ escrow' = [escrow EXCEPT ![e] = "RELEASED"]
    /\ UNCHANGED <<commission, order, staff, opened, made, vouched>>

(***************************************************************************)
(* Payment orders                                                          *)
(***************************************************************************)
\* generatePaymentOrder: an order that is not FAILED is returned instead
BeginOrder(s) == Payable = {} /\ Begin(s, "order", 0)
GenerateOrder(s) ==
    /\ staff[s].at = "order" /\ Len(order) < MaxOrders
    /\ order' = NewOrder
    /\ Leave(s)
    /\ UNCHANGED <<commission, escrow, opened, made, vouched>>

\* captureManualPayout: the person has paid, and gives the order her reference
BeginCapture(s, o) == order[o].status # "COMPLETED" /\ Begin(s, "capture", o)
Capture(s) ==
    /\ staff[s].at = "capture"
    /\ order' = [order EXCEPT ![staff[s].row] = [status |-> "COMPLETED", ref |-> 0]]
    /\ Leave(s)
    /\ UNCHANGED <<commission, escrow, opened, made, vouched>>

\* markPayoutFailed, by id
MarkFailed(o) ==
    /\ order' = [order EXCEPT ![o].status = "FAILED"]
    /\ UNCHANGED <<commission, escrow, staff, opened, made, vouched>>

\* commission.markPaid, by id
MarkPaid ==
    /\ commission' = "PAID" /\ vouched' = TRUE
    /\ UNCHANGED <<order, escrow, staff, opened, made>>

StaffStep(s) ==
    \/ BeginHold(s) \/ \E e \in Escrows : Hold(s, e)
    \/ \E e \in Escrows : BeginRelease(s, e) \/ BeginRefund(s, e)
    \/ ClaimRelease(s) \/ FindPayout(s) \/ CreatePayout(s) \/ PayByRelease(s)
    \/ Refund(s)
    \/ BeginOrder(s) \/ GenerateOrder(s)
    \/ \E o \in Orders : BeginCapture(s, o)
    \/ Capture(s) \/ Cut(s)

EscrowNext ==
    \/ \E s \in Staff : StaffStep(s)
    \/ \E e \in Escrows : Dispute(e) \/ ContractRelease(e)
    \/ \E o \in Orders : MarkFailed(o)
    \/ MarkPaid
=============================================================================
