------------------------- MODULE EmissionLifecycle -------------------------
(***************************************************************************)
(* One emission from its opening to its observation.                       *)
(*                                                                         *)
(* Three lanes carry a mutation: "governed" (governedProcedure),           *)
(* "strangler" (auditedProcedure) and "bus" (mestor.emitIntent).  Each     *)
(* opens an emission, passes the gates, runs the handler and closes the    *)
(* emission.  Around the lane, and interleaved with it, act the ops sweep, *)
(* the cancellation endpoint of the streaming protocol and Seshat, which   *)
(* observes what the event bus announces.  The bus lives in the memory of  *)
(* the process: what it has not delivered dies with it.                    *)
(***************************************************************************)
EXTENDS Naturals

CONSTANT Emissions

VARIABLES lane,        \* lane[i]: the entry path of the mutation
          pc,          \* pc[i]: where the lane stands, and what it answered
          row,         \* row[i]: the columns status, completedAt (set or not),
                       \*   observationStatus of the row
          closing,     \* closing[i]: the closeEmission the lane is about to make
          downgraded,  \* downgraded[i]: a gate answered DOWNGRADE
          effect,      \* effect[i]: what the handler has committed
          notices,     \* notices[i]: published events Seshat has not handled
          decided,     \* decided[i]: observation statuses Seshat is about to write
          overage,     \* overage[i]: startedAt is older than the sweep's cutoff
          breached     \* emissions whose post-condition failed

vars == <<lane, pc, row, closing, downgraded, effect, notices, decided, overage, breached>>

Lanes == {"governed", "strangler", "bus"}
Success == {"OK", "DOWNGRADED"}
Answers == {"succeeded", "failed"}
InFlight == {"gates", "handler", "postconditions", "closing"}
Statuses == {"PENDING", "FAILED", "VETOED", "QUEUED"} \cup Success
Observations == {"PENDING_OBSERVATION", "OBSERVED", "STALE_OBSERVATION", "NOT_APPLICABLE"}
Row == [status : Statuses \cup {"absent"}, completed : BOOLEAN, obs : Observations]
Closing == [status : Statuses \ {"PENDING"}, guarded : BOOLEAN, throws : BOOLEAN]
MaxNotices == 2  \* a lane announces at most two events

Absent == [status |-> "absent", completed |-> FALSE, obs |-> "PENDING_OBSERVATION"]
Pending == [Absent EXCEPT !.status = "PENDING"]
Stored(i) == row[i].status # "absent"

\* guarded: an exception of the close is caught and closed again as FAILED;
\* throws: the lane throws, inside the same try, once the close is written.
Close(status, guarded, throws) == [status |-> status, guarded |-> guarded, throws |-> throws]
NoClose == Close("FAILED", FALSE, FALSE)

GoClose(i, status, guarded, throws) ==
    /\ closing' = [closing EXCEPT ![i] = Close(status, guarded, throws)]
    /\ pc' = [pc EXCEPT ![i] = "closing"]

Goto(i, where) == pc' = [pc EXCEPT ![i] = where] /\ UNCHANGED closing

-----------------------------------------------------------------------------
Init ==
    /\ lane \in [Emissions -> Lanes]
    /\ pc = [i \in Emissions |-> "idle"]
    /\ row = [i \in Emissions |-> Absent]
    /\ closing = [i \in Emissions |-> NoClose]
    /\ downgraded = [i \in Emissions |-> FALSE]
    /\ effect = [i \in Emissions |-> "none"]
    /\ notices = [i \in Emissions |-> 0]
    /\ decided = [i \in Emissions |-> {}]
    /\ overage = [i \in Emissions |-> FALSE]
    /\ breached = {}

Surroundings == <<lane, notices, decided, overage>>

\* openEmission: the row exists; if the acknowledgement of the commit is lost
\* the lane refuses to dispatch and the row stays behind.
Open(i) ==
    /\ pc[i] = "idle"
    /\ row' = [row EXCEPT ![i] = Pending]
    /\ \E next \in {"gates", "failed"} : Goto(i, next)
    /\ UNCHANGED <<Surroundings, downgraded, effect, breached>>

\* Slip: the trace is best effort and the mutation goes on without it.
OpenFailsSilently(i) ==
    /\ pc[i] = "idle"
    /\ Goto(i, "gates")
    /\ UNCHANGED <<Surroundings, row, downgraded, effect, breached>>

\* EmissionPersistError without a row: no trace, no mutation.
OpenFails(i) ==
    /\ pc[i] = "idle"
    /\ Goto(i, "failed")
    /\ UNCHANGED <<Surroundings, row, downgraded, effect, breached>>

\* Firewall, cost gate, and the pre-flights of the bus refuse.
GateVetoes(i) ==
    /\ pc[i] = "gates"
    /\ GoClose(i, "VETOED", FALSE, FALSE)
    /\ UNCHANGED <<Surroundings, row, downgraded, effect, breached>>

\* assertReadyFor announces the veto itself, before anyone closes the row.
ReadinessVetoes(i) ==
    /\ pc[i] = "gates"
    /\ lane[i] \in {"governed", "strangler"}
    /\ notices' = [notices EXCEPT ![i] = @ + 1]
    /\ GoClose(i, "VETOED", FALSE, FALSE)
    /\ UNCHANGED <<lane, decided, overage, row, downgraded, effect, breached>>

\* Preconditions are declared and the input names no strategy.
InputRejected(i) ==
    /\ pc[i] = "gates"
    /\ lane[i] = "governed"
    /\ GoClose(i, "FAILED", FALSE, FALSE)
    /\ UNCHANGED <<Surroundings, row, downgraded, effect, breached>>

\* A gate throws anything else: the error leaves the lane, the row is not closed.
GateThrows(i) ==
    /\ pc[i] = "gates"
    /\ Goto(i, "failed")
    /\ UNCHANGED <<Surroundings, row, downgraded, effect, breached>>

GatePasses(i) ==
    /\ pc[i] = "gates"
    /\ \E verdict \in BOOLEAN : downgraded' = [downgraded EXCEPT ![i] = verdict]
    /\ Goto(i, "handler")
    /\ UNCHANGED <<Surroundings, row, effect, breached>>

FinalStatus(i) == IF downgraded[i] THEN "DOWNGRADED" ELSE "OK"

HandlerSucceeds(i) ==
    /\ pc[i] = "handler"
    /\ effect' = [effect EXCEPT ![i] = "whole"]
    /\ IF lane[i] = "governed" THEN Goto(i, "postconditions")
       ELSE GoClose(i, FinalStatus(i), lane[i] = "strangler", FALSE)
    /\ UNCHANGED <<Surroundings, row, downgraded, breached>>

\* Slip, once real: next() does not throw and the lane closes the row as OK.
FailuresPassAsOk(l) == IF l = "governed" THEN {"OK"} ELSE {"FAILED"}

\* How a lane files a handler that refused or failed: next() answers
\* { ok: false }, execute() throws or returns another status.
FailureStatuses(l) ==
    CASE l = "governed"  -> {"VETOED", "FAILED"}
      [] l = "strangler" -> {"FAILED"}
      [] l = "bus"       -> {"VETOED", "FAILED", "QUEUED"}

\* The handler may have committed part of its work before it gave up.
HandlerFails(i) ==
    /\ pc[i] = "handler"
    /\ \E left \in {"none", "partial"} : effect' = [effect EXCEPT ![i] = left]
    /\ \E status \in FailureStatuses(lane[i]) :
          GoClose(i, status, lane[i] # "bus", FALSE)
    /\ UNCHANGED <<Surroundings, row, downgraded, breached>>

PostconditionsHold(i) ==
    /\ pc[i] = "postconditions"
    /\ GoClose(i, FinalStatus(i), TRUE, FALSE)
    /\ UNCHANGED <<Surroundings, row, downgraded, effect, breached>>

\* The row is closed as FAILED and a TRPCError thrown, which the catch of the
\* same procedure closes as FAILED a second time.
PostconditionFails(i) ==
    /\ pc[i] = "postconditions"
    /\ breached' = breached \cup {i}
    /\ GoClose(i, "FAILED", TRUE, TRUE)
    /\ UNCHANGED <<Surroundings, row, downgraded, effect>>

Closed(i) == [status |-> closing[i].status, completed |-> TRUE, obs |-> row[i].obs]

Answer(i) == IF closing[i].status \in Success THEN "succeeded" ELSE "failed"

\* closeEmission: update by id, then publish; QUEUED has no terminal event.
CloseWrites(i) ==
    /\ pc[i] = "closing"
    /\ row' = [row EXCEPT ![i] = Closed(i)]
    /\ notices' = [notices EXCEPT ![i] = IF closing[i].status = "QUEUED" THEN @ ELSE @ + 1]
    /\ IF closing[i].throws THEN GoClose(i, "FAILED", FALSE, FALSE)
       ELSE Goto(i, Answer(i))
    /\ UNCHANGED <<lane, decided, overage, downgraded, effect, breached>>

\* Slip: every lane swallows the error of the close, as the bus does.
CloseFailsUnseen(i) ==
    /\ pc[i] = "closing"
    /\ \E reached \in BOOLEAN : row' = IF reached THEN [row EXCEPT ![i] = Closed(i)] ELSE row
    /\ Goto(i, Answer(i))
    /\ UNCHANGED <<Surroundings, downgraded, effect, breached>>

\* The update throws; it may have reached the database all the same.  The bus
\* swallows the error and answers what the handler returned.
CloseFails(i) ==
    /\ pc[i] = "closing"
    /\ \E reached \in BOOLEAN : row' = IF reached THEN [row EXCEPT ![i] = Closed(i)] ELSE row
    /\ IF closing[i].guarded THEN GoClose(i, "FAILED", FALSE, FALSE)
       ELSE Goto(i, IF lane[i] = "bus" THEN Answer(i) ELSE "failed")
    /\ UNCHANGED <<Surroundings, downgraded, effect, breached>>

\* The process of the lane dies, with its event bus and its observers.
Crash(i) ==
    /\ pc[i] \in InFlight \/ (pc[i] \in Answers /\ (notices[i] > 0 \/ decided[i] # {}))
    /\ Goto(i, IF pc[i] \in Answers THEN pc[i] ELSE "dead")
    /\ notices' = [notices EXCEPT ![i] = 0]
    /\ decided' = [decided EXCEPT ![i] = {}]
    /\ UNCHANGED <<lane, overage, row, downgraded, effect, breached>>

LaneStep(i) ==
    \/ Open(i) \/ OpenFails(i)
    \/ GateVetoes(i) \/ ReadinessVetoes(i) \/ InputRejected(i) \/ GateThrows(i) \/ GatePasses(i)
    \/ HandlerSucceeds(i) \/ HandlerFails(i)
    \/ PostconditionsHold(i) \/ PostconditionFails(i)
    \/ CloseWrites(i) \/ CloseFails(i)

-----------------------------------------------------------------------------
LaneState == <<lane, pc, closing, downgraded, effect, breached>>

\* Slip: only FAILED is excluded from what is measured.
NextUnlessFailed(r) ==
    IF r.obs # "PENDING_OBSERVATION" THEN {}
    ELSE IF r.status = "FAILED" THEN {"NOT_APPLICABLE"} ELSE {"OBSERVED"}

\* nextObservationStatus
NextObservation(r) ==
    IF r.obs # "PENDING_OBSERVATION" THEN {}
    ELSE IF r.status \in Success THEN {"OBSERVED"} ELSE {"NOT_APPLICABLE"}

\* observeIntent reads the row and decides ...
ObserverReads(i) ==
    /\ notices[i] > 0
    /\ notices' = [notices EXCEPT ![i] = @ - 1]
    /\ decided' = [decided EXCEPT ![i] = @ \cup NextObservation(row[i])]
    /\ UNCHANGED <<LaneState, row, overage>>

\* ... and writes what it decided in a second statement.
ObserverWrites(i) ==
    \E next \in decided[i] :
        /\ row' = [row EXCEPT ![i].obs = next]
        /\ decided' = [decided EXCEPT ![i] = @ \ {next}]
        /\ UNCHANGED <<LaneState, notices, overage>>

\* observeTerminal swallows every exception.
ObserverFails(i) ==
    /\ decided[i] # {}
    /\ decided' = [decided EXCEPT ![i] = {}]
    /\ UNCHANGED <<LaneState, row, notices, overage>>

\* Slip: the row is cancelled by its id, whatever its status.
CancelById(i) ==
    /\ Stored(i)
    /\ row' = [row EXCEPT ![i].status = "VETOED"]
    /\ UNCHANGED <<LaneState, notices, decided, overage>>

\* DELETE /api/nsp
Cancel(i) ==
    /\ row[i].status \in {"PENDING", "QUEUED"}
    /\ row' = [row EXCEPT ![i].status = "VETOED"]
    /\ UNCHANGED <<LaneState, notices, decided, overage>>

\* Six hours pass since startedAt.
Age(i) ==
    /\ Stored(i) /\ ~ overage[i]
    /\ overage' = [overage EXCEPT ![i] = TRUE]
    /\ UNCHANGED <<LaneState, row, notices, decided>>

\* Slip: DOWNGRADED is not in the filter.
SweepUnobservedOk(i) ==
    /\ row[i].obs = "PENDING_OBSERVATION" /\ row[i].status = "OK" /\ overage[i]
    /\ row' = [row EXCEPT ![i].obs = "STALE_OBSERVATION"]
    /\ UNCHANGED <<LaneState, notices, decided, overage>>

\* ops-sweep, section 5 (a)
SweepUnobserved(i) ==
    /\ row[i].obs = "PENDING_OBSERVATION" /\ row[i].status \in Success /\ overage[i]
    /\ row' = [row EXCEPT ![i].obs = "STALE_OBSERVATION"]
    /\ UNCHANGED <<LaneState, notices, decided, overage>>

\* Slip: gte instead of lt; the rows older than the cutoff are left alone.
SweepYoung(i) ==
    /\ row[i].status = "PENDING" /\ ~ row[i].completed /\ ~ overage[i]
    /\ row' = [row EXCEPT ![i].status = "FAILED"]
    /\ UNCHANGED <<LaneState, notices, decided, overage>>

\* ops-sweep, section 5 (b)
SweepOrphan(i) ==
    /\ row[i].status = "PENDING" /\ ~ row[i].completed /\ overage[i]
    /\ row' = [row EXCEPT ![i].status = "FAILED"]
    /\ UNCHANGED <<LaneState, notices, decided, overage>>

Observe(i) == ObserverReads(i) \/ ObserverWrites(i) \/ ObserverFails(i)
Sweep(i) == SweepUnobserved(i) \/ SweepOrphan(i)

Next == \E i \in Emissions : LaneStep(i) \/ Crash(i) \/ Observe(i) \/ Cancel(i) \/ Age(i) \/ Sweep(i)

\* A lane runs to its end or dies; the bus delivers; time passes; the cron
\* route that sweeps is called again and again.
Fairness ==
    \A i \in Emissions :
        /\ WF_vars(LaneStep(i))
        /\ WF_vars(ObserverReads(i)) /\ WF_vars(ObserverWrites(i))
        /\ WF_vars(Age(i))
        /\ WF_vars(SweepUnobserved(i)) /\ WF_vars(SweepOrphan(i))

Spec == Init /\ [][Next]_vars
FairSpec == Spec /\ Fairness

-----------------------------------------------------------------------------
\* Every variable has its type; a lane publishes at most MaxNotices events.
TypeOK ==
    /\ lane \in [Emissions -> Lanes]
    /\ pc \in [Emissions -> {"idle", "dead"} \cup InFlight \cup Answers]
    /\ row \in [Emissions -> Row]
    /\ closing \in [Emissions -> Closing]
    /\ downgraded \in [Emissions -> BOOLEAN]
    /\ effect \in [Emissions -> {"none", "partial", "whole"}]
    /\ notices \in [Emissions -> 0..MaxNotices]
    /\ decided \in [Emissions -> SUBSET {"OBSERVED", "NOT_APPLICABLE"}]
    /\ overage \in [Emissions -> BOOLEAN]
    /\ breached \in SUBSET Emissions

\* No trace, no mutation: whatever a handler has committed has a row, even
\* when the answer of the opening transaction was lost (policy Q1).
EffectIsTraced == \A i \in Emissions : effect[i] # "none" => Stored(i)

\* The journal never claims a success that did not happen: a row is OK or
\* DOWNGRADED only if the handler finished and its output passed the
\* post-conditions, whoever else writes the row.
SuccessIsReal ==
    \A i \in Emissions :
        row[i].status \in Success => effect[i] = "whole" /\ i \notin breached

\* On the two tRPC lanes the caller is told "succeeded" only when the journal
\* says so too, for good: neither a sweep nor a cancellation takes it back.
AnswerIsTraced ==
    \A i \in Emissions :
        pc[i] = "succeeded" /\ lane[i] # "bus" => row[i].status \in Success

\* Seshat's verdict agrees with the outcome although it is decided on a read
\* that is old when it is written, and although a readiness veto is announced
\* before the row is closed.
ObservationAgrees ==
    \A i \in Emissions :
        /\ row[i].obs = "OBSERVED" => row[i].status \in Success
        /\ row[i].obs = "NOT_APPLICABLE" => row[i].status \notin Success

\* Once a lane has written its outcome, only the second close of the same lane
\* changes it: a sweep or a cancellation that read the row earlier does not.
OutcomeIsFinal ==
    [][\A i \in Emissions :
          row[i].completed /\ row[i].status # "QUEUED" /\ pc[i] # "closing"
             => row'[i].status = row[i].status]_vars

\* Whatever dies, every emission leaves PENDING (ops-sweep, section 5).
EmissionSettles ==
    \A i \in Emissions : row[i].status = "PENDING" ~> row[i].status # "PENDING"

\* No success stays unmeasured: Seshat observes it or the sweep marks it stale.
SuccessIsMeasured ==
    \A i \in Emissions :
        row[i].status \in Success
            ~> row[i].obs # "PENDING_OBSERVATION" \/ row[i].status \notin Success
=============================================================================
