---------------------- MODULE EmissionLifecycleProofs ----------------------
(***************************************************************************)
(* Theorems about EmissionLifecycle, for any number of emissions, and      *)
(* about the queue of sentinels that executes some of them.                *)
(***************************************************************************)
EXTENDS EmissionLifecycle, SentinelQueue, SequenceTheorems, FiniteSetTheorems, WellFoundedInduction, TLAPS

Succeeded(i) == row[i].status \in Success

\* Nobody writes a success before the lane is closing.
NotYetClosed(i) ==
    /\ pc[i] = "idle" => row[i] = Absent
    /\ pc[i] \in {"gates", "handler", "postconditions"} => Stored(i) /\ ~ Succeeded(i)
    /\ pc[i] \in {"idle", "gates", "handler", "postconditions"} => i \notin breached
    /\ pc[i] = "postconditions" => effect[i] = "whole"

\* A close that files a success comes after a whole handler, and the close
\* that will throw comes after a breach.
ClosingIsHonest(i) ==
    pc[i] = "closing" =>
        /\ Stored(i)
        /\ closing[i].status \in Success => effect[i] = "whole" /\ i \notin breached
        /\ closing[i].throws => closing[i].status = "FAILED" /\ notices[i] = 0 /\ ~ Succeeded(i)

\* What is announced while the lane still runs is no success, and it stays none.
AnnouncedEarly(i) ==
    pc[i] \in InFlight \cup {"idle"} =>
        /\ notices[i] <= 1
        /\ notices[i] # 0 \/ decided[i] # {} \/ row[i].obs \in {"OBSERVED", "NOT_APPLICABLE"}
             => pc[i] = "closing" /\ closing[i].status \notin Success /\ ~ Succeeded(i)

\* What Seshat has decided, and what it has written, is true of the row.
DecidedAgrees(i) ==
    /\ "OBSERVED" \in decided[i] \/ row[i].obs = "OBSERVED" => Succeeded(i)
    /\ "NOT_APPLICABLE" \in decided[i] \/ row[i].obs = "NOT_APPLICABLE" => ~ Succeeded(i)

Truthful(i) ==
    /\ NotYetClosed(i) /\ ClosingIsHonest(i) /\ AnnouncedEarly(i) /\ DecidedAgrees(i)
    /\ effect[i] # "none" => Stored(i)
    /\ Succeeded(i) => effect[i] = "whole" /\ i \notin breached
    /\ pc[i] = "succeeded" /\ lane[i] # "bus" => Succeeded(i)
    /\ row[i].completed => row[i].status # "PENDING"

\* The inductive invariant.
IInv == TypeOK /\ \A i \in Emissions : Truthful(i)

-----------------------------------------------------------------------------
\* Nothing of the emission j changes.
Same(j) ==
    /\ lane'[j] = lane[j] /\ pc'[j] = pc[j] /\ row'[j] = row[j] /\ closing'[j] = closing[j]
    /\ downgraded'[j] = downgraded[j] /\ effect'[j] = effect[j] /\ notices'[j] = notices[j]
    /\ decided'[j] = decided[j] /\ overage'[j] = overage[j] /\ (j \in breached' <=> j \in breached)

\* What each action of one emission preserves.
Kept(i) == TypeOK' /\ Truthful(i)' /\ \A j \in Emissions \ {i} : Same(j)

\* The row a close writes has the type of a row.
LEMMA ClosedIsRow == ASSUME TypeOK, NEW i \in Emissions PROVE Closed(i) \in Row
  BY DEF TypeOK, Closed, Row, Closing

\* The row an opening inserts has the type of a row.
LEMMA PendingIsRow == Pending \in Row
  BY DEF Pending, Absent, Row, Statuses, Observations

\* The close a lane prepares has the type of a close.
LEMMA CloseIsClosing ==
    ASSUME NEW final \in Statuses \ {"PENDING"}, NEW guarded \in BOOLEAN, NEW throws \in BOOLEAN
    PROVE  Close(final, guarded, throws) \in Closing
  BY DEF Close, Closing

\* A lane that moves on leaves the others where they are.
LEMMA GotoMovesOne ==
    ASSUME TypeOK, NEW i \in Emissions, NEW j \in Emissions \ {i}, NEW where, Goto(i, where)
    PROVE  pc'[j] = pc[j] /\ closing'[j] = closing[j]
  BY DEF TypeOK, Goto

\* So does a lane that prepares its close.
LEMMA GoCloseMovesOne ==
    ASSUME TypeOK, NEW i \in Emissions, NEW j \in Emissions \ {i},
           NEW final, NEW guarded, NEW throws, GoClose(i, final, guarded, throws)
    PROVE  pc'[j] = pc[j] /\ closing'[j] = closing[j]
  BY DEF TypeOK, GoClose

\* The opening of an emission, whether or not its acknowledgement arrives.
LEMMA OpenKeeps ==
    ASSUME TypeOK, NEW i \in Emissions, Truthful(i), Open(i)
    PROVE  Kept(i)
<1>1. TypeOK'
  BY PendingIsRow DEF TypeOK, Open, Goto, Surroundings, InFlight, Answers
<1>2. Truthful(i)'
  BY DEF TypeOK, Open, Goto, Surroundings, Success, Pending, Absent, Stored, Truthful,
         NotYetClosed, ClosingIsHonest, AnnouncedEarly, DecidedAgrees, Succeeded
<1>3. \A j \in Emissions \ {i} : Same(j)
  BY DEF Open, Goto, Surroundings, Same
<1> QED BY <1>1, <1>2, <1>3 DEF Kept

\* An opening that leaves no row.
LEMMA OpenFailsKeeps ==
    ASSUME TypeOK, NEW i \in Emissions, Truthful(i), OpenFails(i)
    PROVE  Kept(i)
<1>1. TypeOK'
  BY DEF TypeOK, OpenFails, Goto, Surroundings, Answers
<1>2. Truthful(i)'
  BY DEF OpenFails, Goto, Surroundings, Stored, Truthful, NotYetClosed, ClosingIsHonest,
         AnnouncedEarly, DecidedAgrees, Succeeded
<1>3. \A j \in Emissions \ {i} : Same(j)
  BY DEF OpenFails, Goto, Surroundings, Same
<1> QED BY <1>1, <1>2, <1>3 DEF Kept

\* A veto of a gate.
LEMMA GateVetoesKeeps ==
    ASSUME TypeOK, NEW i \in Emissions, Truthful(i), GateVetoes(i)
    PROVE  Kept(i)
<1>1. TypeOK'
  BY DEF TypeOK, GateVetoes, GoClose, Close, Surroundings, Closing, Statuses, InFlight
<1>2. Truthful(i)'
  BY DEF TypeOK, GateVetoes, GoClose, Close, Surroundings, Success, InFlight, Stored,
         Truthful, NotYetClosed, ClosingIsHonest, AnnouncedEarly, DecidedAgrees, Succeeded
<1>3. \A j \in Emissions \ {i} : Same(j)
  BY DEF GateVetoes, GoClose, Surroundings, Same
<1> QED BY <1>1, <1>2, <1>3 DEF Kept

\* A readiness veto, which announces itself before the close.
LEMMA ReadinessVetoesKeeps ==
    ASSUME TypeOK, NEW i \in Emissions, Truthful(i), ReadinessVetoes(i)
    PROVE  Kept(i)
<1>1. TypeOK'
  BY DEF TypeOK, ReadinessVetoes, GoClose, Close, Closing, Statuses, InFlight, MaxNotices,
         Truthful, AnnouncedEarly
<1>2. Truthful(i)'
  BY DEF TypeOK, ReadinessVetoes, GoClose, Close, Success, InFlight, Stored, Truthful,
         NotYetClosed, ClosingIsHonest, AnnouncedEarly, DecidedAgrees, Succeeded
<1>3. \A j \in Emissions \ {i} : Same(j)
  BY DEF ReadinessVetoes, GoClose, Same
<1> QED BY <1>1, <1>2, <1>3 DEF Kept

\* An input without a strategy where preconditions need one.
LEMMA InputRejectedKeeps ==
    ASSUME TypeOK, NEW i \in Emissions, Truthful(i), InputRejected(i)
    PROVE  Kept(i)
<1>1. TypeOK'
  BY DEF TypeOK, InputRejected, GoClose, Close, Surroundings, Closing, Statuses, InFlight
<1>2. Truthful(i)'
  BY DEF TypeOK, InputRejected, GoClose, Close, Surroundings, Success, InFlight, Stored,
         Truthful, NotYetClosed, ClosingIsHonest, AnnouncedEarly, DecidedAgrees, Succeeded
<1>3. \A j \in Emissions \ {i} : Same(j)
  BY DEF InputRejected, GoClose, Surroundings, Same
<1> QED BY <1>1, <1>2, <1>3 DEF Kept

\* A gate that throws, the row left open.
LEMMA GateThrowsKeeps ==
    ASSUME TypeOK, NEW i \in Emissions, Truthful(i), GateThrows(i)
    PROVE  Kept(i)
<1>1. TypeOK'
  BY DEF TypeOK, GateThrows, Goto, Surroundings, Answers
<1>2. Truthful(i)'
  BY DEF GateThrows, Goto, Surroundings, InFlight, Stored, Truthful, NotYetClosed,
         ClosingIsHonest, AnnouncedEarly, DecidedAgrees, Succeeded
<1>3. \A j \in Emissions \ {i} : Same(j)
  BY DEF GateThrows, Goto, Surroundings, Same
<1> QED BY <1>1, <1>2, <1>3 DEF Kept

\* The gates let the emission through.
LEMMA GatePassesKeeps ==
    ASSUME TypeOK, NEW i \in Emissions, Truthful(i), GatePasses(i)
    PROVE  Kept(i)
<1>1. TypeOK'
  BY DEF TypeOK, GatePasses, Goto, Surroundings, InFlight
<1>2. Truthful(i)'
  BY DEF GatePasses, Goto, Surroundings, InFlight, Stored, Truthful, NotYetClosed,
         ClosingIsHonest, AnnouncedEarly, DecidedAgrees, Succeeded
<1>3. \A j \in Emissions \ {i} : Same(j)
  BY DEF GatePasses, Goto, Surroundings, Same
<1> QED BY <1>1, <1>2, <1>3 DEF Kept

\* The handler finishes: only now may a close file a success.
LEMMA HandlerSucceedsKeeps ==
    ASSUME TypeOK, NEW i \in Emissions, Truthful(i), HandlerSucceeds(i)
    PROVE  Kept(i)
<1>1. TypeOK'
  <2>1. FinalStatus(i) \in Statuses \ {"PENDING"}
    BY DEF FinalStatus, Statuses, Success
  <2>2. Close(FinalStatus(i), lane[i] = "strangler", FALSE) \in Closing
    BY <2>1, CloseIsClosing
  <2>3. closing' \in [Emissions -> Closing]
    BY <2>2 DEF TypeOK, HandlerSucceeds, Goto, GoClose
  <2>4. pc' \in [Emissions -> {"idle", "dead"} \cup InFlight \cup Answers]
    BY DEF TypeOK, HandlerSucceeds, Goto, GoClose, InFlight
  <2> QED BY <2>3, <2>4 DEF TypeOK, HandlerSucceeds, Surroundings
<1>2. Truthful(i)'
  BY DEF TypeOK, HandlerSucceeds, Goto, GoClose, Close, Surroundings, InFlight, Stored,
         Truthful, NotYetClosed, ClosingIsHonest, AnnouncedEarly, DecidedAgrees, Succeeded
<1>3. \A j \in Emissions \ {i} : Same(j)
  <2> SUFFICES ASSUME NEW j \in Emissions \ {i} PROVE Same(j)
    OBVIOUS
  <2>1. pc'[j] = pc[j] /\ closing'[j] = closing[j]
    BY GotoMovesOne, GoCloseMovesOne DEF HandlerSucceeds
  <2> QED BY <2>1 DEF HandlerSucceeds, Surroundings, Same
<1> QED BY <1>1, <1>2, <1>3 DEF Kept

\* The handler fails, with part of its work committed or none.
LEMMA HandlerFailsKeeps ==
    ASSUME TypeOK, NEW i \in Emissions, Truthful(i), HandlerFails(i)
    PROVE  Kept(i)
<1>1. TypeOK'
  BY DEF TypeOK, HandlerFails, GoClose, Close, Surroundings, Closing, Statuses, Lanes,
         InFlight, FailureStatuses
<1>2. Truthful(i)'
  BY DEF TypeOK, HandlerFails, GoClose, Close, Surroundings, Success, Lanes, InFlight,
         Stored, FailureStatuses, Truthful, NotYetClosed, ClosingIsHonest, AnnouncedEarly,
         DecidedAgrees, Succeeded
<1>3. \A j \in Emissions \ {i} : Same(j)
  BY DEF HandlerFails, GoClose, Surroundings, Same
<1> QED BY <1>1, <1>2, <1>3 DEF Kept

\* The post-conditions hold.
LEMMA PostconditionsHoldKeeps ==
    ASSUME TypeOK, NEW i \in Emissions, Truthful(i), PostconditionsHold(i)
    PROVE  Kept(i)
<1>1. TypeOK'
  BY DEF TypeOK, PostconditionsHold, GoClose, Close, Surroundings, Closing, Statuses,
         Success, InFlight, FinalStatus
<1>2. Truthful(i)'
  BY DEF TypeOK, PostconditionsHold, GoClose, Close, Surroundings, InFlight, Stored,
         Truthful, NotYetClosed, ClosingIsHonest, AnnouncedEarly, DecidedAgrees
<1>3. \A j \in Emissions \ {i} : Same(j)
  BY DEF PostconditionsHold, GoClose, Surroundings, Same
<1> QED BY <1>1, <1>2, <1>3 DEF Kept

\* A post-condition fails after the handler committed.
LEMMA PostconditionFailsKeeps ==
    ASSUME TypeOK, NEW i \in Emissions, Truthful(i), PostconditionFails(i)
    PROVE  Kept(i)
<1>1. TypeOK'
  BY DEF TypeOK, PostconditionFails, GoClose, Close, Surroundings, Closing, Statuses,
         InFlight
<1>2. Truthful(i)'
  BY DEF TypeOK, PostconditionFails, GoClose, Close, Surroundings, Success, InFlight,
         Stored, Truthful, NotYetClosed, ClosingIsHonest, AnnouncedEarly, DecidedAgrees,
         Succeeded
<1>3. \A j \in Emissions \ {i} : Same(j)
  BY DEF PostconditionFails, GoClose, Surroundings, Same
<1> QED BY <1>1, <1>2, <1>3 DEF Kept

\* The close is written; the lane answers, or closes again after a breach.
LEMMA CloseWritesKeeps ==
    ASSUME TypeOK, NEW i \in Emissions, Truthful(i), CloseWrites(i)
    PROVE  Kept(i)
<1>1. TypeOK'
  <2>0. Close("FAILED", FALSE, FALSE) \in Closing
    BY CloseIsClosing DEF Statuses
  <2>1. closing' = closing \/ closing' = [closing EXCEPT ![i] = Close("FAILED", FALSE, FALSE)]
    BY DEF CloseWrites, Goto, GoClose
  <2>5. closing' \in [Emissions -> Closing]
    BY <2>0, <2>1 DEF TypeOK
  <2>2. pc' \in [Emissions -> {"idle", "dead"} \cup InFlight \cup Answers]
    BY DEF TypeOK, CloseWrites, Goto, GoClose, InFlight, Answers, Answer
  <2>3. row' \in [Emissions -> Row]
    BY ClosedIsRow DEF TypeOK, CloseWrites
  <2>4. notices' \in [Emissions -> 0..MaxNotices]
    BY DEF TypeOK, CloseWrites, Surroundings, Truthful, AnnouncedEarly, InFlight, MaxNotices
  <2> QED BY <2>2, <2>3, <2>4, <2>5 DEF TypeOK, CloseWrites
<1>2. Truthful(i)'
  BY DEF TypeOK, CloseWrites, Goto, GoClose, Close, Closing, Statuses, Success, InFlight,
         Stored, Closed, Answer, Truthful, NotYetClosed, ClosingIsHonest, AnnouncedEarly,
         DecidedAgrees, Succeeded
<1>3. \A j \in Emissions \ {i} : Same(j)
  <2> SUFFICES ASSUME NEW j \in Emissions \ {i} PROVE Same(j)
    OBVIOUS
  <2>1. pc'[j] = pc[j] /\ closing'[j] = closing[j]
    BY GotoMovesOne, GoCloseMovesOne DEF CloseWrites
  <2> QED BY <2>1 DEF CloseWrites, Surroundings, Same
<1> QED BY <1>1, <1>2, <1>3 DEF Kept

\* The close throws, before or after it reached the row.
LEMMA CloseFailsKeeps ==
    ASSUME TypeOK, NEW i \in Emissions, Truthful(i), CloseFails(i)
    PROVE  Kept(i)
<1>1. TypeOK'
  <2>0. Close("FAILED", FALSE, FALSE) \in Closing
    BY CloseIsClosing DEF Statuses
  <2>1. closing' \in [Emissions -> Closing]
    BY <2>0 DEF TypeOK, CloseFails, Goto, GoClose
  <2>2. pc' \in [Emissions -> {"idle", "dead"} \cup InFlight \cup Answers]
    BY DEF TypeOK, CloseFails, Goto, GoClose, InFlight, Answers, Answer
  <2>3. row' \in [Emissions -> Row]
    BY ClosedIsRow DEF TypeOK, CloseFails
  <2>4. notices' \in [Emissions -> 0..MaxNotices]
    BY DEF TypeOK, CloseFails, Surroundings, Truthful, AnnouncedEarly, InFlight, MaxNotices
  <2> QED BY <2>1, <2>2, <2>3, <2>4 DEF TypeOK, CloseFails, Surroundings
<1>2. Truthful(i)'
  BY SMTT(30) DEF TypeOK, CloseFails, Goto, GoClose, Close, NoClose, Surroundings,
         LaneState, Row, Closing, Statuses, Observations, Success, Lanes, InFlight, Answers,
         MaxNotices, Pending, Absent, Stored, Closed, Answer, FinalStatus, FailureStatuses,
         NextObservation, Truthful, NotYetClosed, ClosingIsHonest, AnnouncedEarly,
         DecidedAgrees, Succeeded
<1>3. \A j \in Emissions \ {i} : Same(j)
  <2> SUFFICES ASSUME NEW j \in Emissions \ {i} PROVE Same(j)
    OBVIOUS
  <2>1. pc'[j] = pc[j] /\ closing'[j] = closing[j]
    BY GotoMovesOne, GoCloseMovesOne DEF CloseFails
  <2> QED BY <2>1 DEF CloseFails, Surroundings, Same
<1> QED BY <1>1, <1>2, <1>3 DEF Kept

\* The process dies.
LEMMA CrashKeeps ==
    ASSUME TypeOK, NEW i \in Emissions, Truthful(i), Crash(i)
    PROVE  Kept(i)
<1>1. TypeOK'
  BY DEF TypeOK, Crash, Goto, MaxNotices
<1>2. Truthful(i)'
  BY DEF Crash, Goto, InFlight, Stored, Truthful, NotYetClosed, ClosingIsHonest,
         AnnouncedEarly, DecidedAgrees, Succeeded
<1>3. \A j \in Emissions \ {i} : Same(j)
  BY DEF Crash, Goto, Same
<1> QED BY <1>1, <1>2, <1>3 DEF Kept

\* Seshat reads the row and decides.
LEMMA ObserverReadsKeeps ==
    ASSUME TypeOK, NEW i \in Emissions, Truthful(i), ObserverReads(i)
    PROVE  Kept(i)
<1>1. TypeOK'
  BY DEF TypeOK, ObserverReads, LaneState, MaxNotices, NextObservation
<1>2. Truthful(i)'
  BY DEF TypeOK, ObserverReads, LaneState, Stored, NextObservation, Truthful, NotYetClosed,
         ClosingIsHonest, AnnouncedEarly, DecidedAgrees, Succeeded
<1>3. \A j \in Emissions \ {i} : Same(j)
  BY DEF ObserverReads, LaneState, Same
<1> QED BY <1>1, <1>2, <1>3 DEF Kept

\* Seshat writes what it decided on an older row.
LEMMA ObserverWritesKeeps ==
    ASSUME TypeOK, NEW i \in Emissions, Truthful(i), ObserverWrites(i)
    PROVE  Kept(i)
<1>1. TypeOK'
  BY DEF TypeOK, ObserverWrites, LaneState, Row, Observations, Truthful
<1>2. Truthful(i)'
  BY DEF ObserverWrites, LaneState, Stored, Truthful, NotYetClosed, ClosingIsHonest,
         AnnouncedEarly, DecidedAgrees, Succeeded
<1>3. \A j \in Emissions \ {i} : Same(j)
  BY DEF ObserverWrites, LaneState, Same
<1> QED BY <1>1, <1>2, <1>3 DEF Kept

\* Seshat gives up.
LEMMA ObserverFailsKeeps ==
    ASSUME TypeOK, NEW i \in Emissions, Truthful(i), ObserverFails(i)
    PROVE  Kept(i)
<1>1. TypeOK'
  BY DEF TypeOK, ObserverFails, LaneState
<1>2. Truthful(i)'
  BY DEF ObserverFails, LaneState, Stored, Truthful, NotYetClosed, ClosingIsHonest,
         AnnouncedEarly, DecidedAgrees, Succeeded
<1>3. \A j \in Emissions \ {i} : Same(j)
  BY DEF ObserverFails, LaneState, Same
<1> QED BY <1>1, <1>2, <1>3 DEF Kept

\* The cancellation of an open or queued row.
LEMMA CancelKeeps ==
    ASSUME TypeOK, NEW i \in Emissions, Truthful(i), Cancel(i)
    PROVE  Kept(i)
<1>1. TypeOK'
  BY SMTT(30) DEF TypeOK, Cancel, Goto, GoClose, Close, NoClose, Surroundings, LaneState,
         Row, Closing, Statuses, Observations, Success, Lanes, InFlight, Answers,
         MaxNotices, Pending, Absent, Stored, Closed, Answer, FinalStatus, FailureStatuses,
         NextObservation, Truthful, NotYetClosed, ClosingIsHonest, AnnouncedEarly,
         DecidedAgrees, Succeeded
<1>2. Truthful(i)'
  BY DEF Cancel, LaneState, Success, Absent, Stored, Truthful, NotYetClosed,
         ClosingIsHonest, AnnouncedEarly, DecidedAgrees, Succeeded
<1>3. \A j \in Emissions \ {i} : Same(j)
  BY DEF Cancel, LaneState, Same
<1> QED BY <1>1, <1>2, <1>3 DEF Kept

\* The row passes the cutoff of the sweep.
LEMMA AgeKeeps ==
    ASSUME TypeOK, NEW i \in Emissions, Truthful(i), Age(i)
    PROVE  Kept(i)
<1>1. TypeOK'
  BY DEF TypeOK, Age, LaneState
<1>2. Truthful(i)'
  BY DEF Age, LaneState, Stored, Truthful, NotYetClosed, ClosingIsHonest, AnnouncedEarly,
         DecidedAgrees, Succeeded
<1>3. \A j \in Emissions \ {i} : Same(j)
  BY DEF Age, LaneState, Same
<1> QED BY <1>1, <1>2, <1>3 DEF Kept

\* The sweep of unobserved successes.
LEMMA SweepUnobservedKeeps ==
    ASSUME TypeOK, NEW i \in Emissions, Truthful(i), SweepUnobserved(i)
    PROVE  Kept(i)
<1>1. TypeOK'
  BY DEF TypeOK, SweepUnobserved, LaneState, Row, Observations, Success, Lanes, InFlight
<1>2. Truthful(i)'
  BY DEF SweepUnobserved, LaneState, Absent, Stored, Truthful, NotYetClosed,
         ClosingIsHonest, AnnouncedEarly, DecidedAgrees, Succeeded
<1>3. \A j \in Emissions \ {i} : Same(j)
  BY DEF SweepUnobserved, LaneState, Same
<1> QED BY <1>1, <1>2, <1>3 DEF Kept

\* The sweep of orphaned emissions.
LEMMA SweepOrphanKeeps ==
    ASSUME TypeOK, NEW i \in Emissions, Truthful(i), SweepOrphan(i)
    PROVE  Kept(i)
<1>1. TypeOK'
  BY DEF TypeOK, SweepOrphan, LaneState, Row, Statuses, Lanes, InFlight, Answers,
         MaxNotices, NotYetClosed, AnnouncedEarly
<1>2. Truthful(i)'
  BY DEF SweepOrphan, LaneState, Success, Absent, Stored, Truthful, NotYetClosed,
         ClosingIsHonest, AnnouncedEarly, DecidedAgrees, Succeeded
<1>3. \A j \in Emissions \ {i} : Same(j)
  BY DEF SweepOrphan, LaneState, Same
<1> QED BY <1>1, <1>2, <1>3 DEF Kept

-----------------------------------------------------------------------------
\* What holds of an emission still does when another one moves.
LEMMA SameKeepsTruthful ==
    ASSUME NEW j \in Emissions, Truthful(j), Same(j)
    PROVE  Truthful(j)'
  BY DEF Same, Truthful, NotYetClosed, ClosingIsHonest, AnnouncedEarly, DecidedAgrees,
         Succeeded, Stored

\* A journal without emissions satisfies the invariant.
LEMMA InitEstablishes == Init => IInv
  BY DEF Init, IInv, TypeOK, Truthful, NotYetClosed, ClosingIsHonest, AnnouncedEarly,
         DecidedAgrees, Succeeded, Stored, Absent, NoClose, Close, Row, Closing, Statuses,
         Observations, Success, InFlight, Answers, MaxNotices

\* A step of one emission preserves the invariant of all.
LEMMA KeptIsEnough ==
    ASSUME IInv, NEW i \in Emissions, Kept(i)
    PROVE  IInv'
<1>1. ASSUME NEW j \in Emissions \ {i} PROVE Truthful(j)'
  BY SameKeepsTruthful DEF IInv, Kept
<1> QED BY <1>1 DEF IInv, Kept

\* Every step preserves the invariant.
LEMMA NextPreserves == IInv /\ [Next]_vars => IInv'
<1> SUFFICES ASSUME IInv, [Next]_vars PROVE IInv'
  OBVIOUS
<1>1. ASSUME NEW i \in Emissions,
             LaneStep(i) \/ Crash(i) \/ Observe(i) \/ Cancel(i) \/ Age(i) \/ Sweep(i)
      PROVE  Kept(i)
  <2> USE DEF IInv
  <2>1. CASE LaneStep(i)
    <3>1. CASE Open(i)
      BY <3>1, OpenKeeps
    <3>2. CASE OpenFails(i)
      BY <3>2, OpenFailsKeeps
    <3>3. CASE GateVetoes(i)
      BY <3>3, GateVetoesKeeps
    <3>4. CASE ReadinessVetoes(i)
      BY <3>4, ReadinessVetoesKeeps
    <3>5. CASE InputRejected(i)
      BY <3>5, InputRejectedKeeps
    <3>6. CASE GateThrows(i)
      BY <3>6, GateThrowsKeeps
    <3>7. CASE GatePasses(i)
      BY <3>7, GatePassesKeeps
    <3>8. CASE HandlerSucceeds(i)
      BY <3>8, HandlerSucceedsKeeps
    <3>9. CASE HandlerFails(i)
      BY <3>9, HandlerFailsKeeps
    <3>10. CASE PostconditionsHold(i)
      BY <3>10, PostconditionsHoldKeeps
    <3>11. CASE PostconditionFails(i)
      BY <3>11, PostconditionFailsKeeps
    <3>12. CASE CloseWrites(i)
      BY <3>12, CloseWritesKeeps
    <3>13. CASE CloseFails(i)
      BY <3>13, CloseFailsKeeps
    <3> QED BY <2>1, <3>1, <3>2, <3>3, <3>4, <3>5, <3>6, <3>7, <3>8, <3>9, <3>10, <3>11,
             <3>12, <3>13 DEF LaneStep
  <2>2. CASE Crash(i)
    BY <2>2, CrashKeeps
  <2>3. CASE Observe(i)
    <3>1. CASE ObserverReads(i)
      BY <3>1, ObserverReadsKeeps
    <3>2. CASE ObserverWrites(i)
      BY <3>2, ObserverWritesKeeps
    <3>3. CASE ObserverFails(i)
      BY <3>3, ObserverFailsKeeps
    <3> QED BY <2>3, <3>1, <3>2, <3>3 DEF Observe
  <2>4. CASE Cancel(i)
    BY <2>4, CancelKeeps
  <2>5. CASE Age(i)
    BY <2>5, AgeKeeps
  <2>6. CASE Sweep(i)
    <3>1. CASE SweepUnobserved(i)
      BY <3>1, SweepUnobservedKeeps
    <3>2. CASE SweepOrphan(i)
      BY <3>2, SweepOrphanKeeps
    <3> QED BY <2>6, <3>1, <3>2 DEF Sweep
  <2> QED BY <1>1, <2>1, <2>2, <2>3, <2>4, <2>5, <2>6
<1>2. CASE Next
  BY <1>1, <1>2, KeptIsEnough DEF Next
<1>3. CASE UNCHANGED vars
  <2>1. TypeOK'
    BY <1>3 DEF IInv, TypeOK, vars
  <2>2. \A j \in Emissions : Same(j)
    BY <1>3 DEF vars, Same
  <2> QED BY <2>1, <2>2, SameKeepsTruthful DEF IInv
<1> QED BY <1>2, <1>3

\* The invariant holds in every behaviour.
THEOREM Invariance == Spec => []IInv
  BY InitEstablishes, NextPreserves, PTL DEF Spec

\* Every variable keeps its type; a lane never announces more than two events.
THEOREM TypeCorrect == Spec => []TypeOK
<1>1. IInv => TypeOK
  BY DEF IInv
<1> QED BY <1>1, Invariance, PTL

\* No trace, no mutation: what a handler has committed has a row.
THEOREM EffectAlwaysTraced == Spec => []EffectIsTraced
<1>1. IInv => EffectIsTraced
  BY DEF IInv, Truthful, EffectIsTraced
<1> QED BY <1>1, Invariance, PTL

\* A row says OK or DOWNGRADED only for a handler that finished and whose
\* post-conditions did not fail.
THEOREM SuccessAlwaysReal == Spec => []SuccessIsReal
<1>1. IInv => SuccessIsReal
  BY DEF IInv, Truthful, Succeeded, SuccessIsReal
<1> QED BY <1>1, Invariance, PTL

\* A caller of the two tRPC lanes who is told "succeeded" can rely on the row.
THEOREM AnswerAlwaysTraced == Spec => []AnswerIsTraced
<1>1. IInv => AnswerIsTraced
  BY DEF IInv, Truthful, Succeeded, AnswerIsTraced
<1> QED BY <1>1, Invariance, PTL

\* Seshat's verdict agrees with the outcome of the row.
THEOREM ObservationAlwaysAgrees == Spec => []ObservationAgrees
<1>1. IInv => ObservationAgrees
  BY DEF IInv, Truthful, DecidedAgrees, Succeeded, ObservationAgrees
<1> QED BY <1>1, Invariance, PTL

\* An outcome that a lane wrote is rewritten by that lane alone.
THEOREM OutcomeStaysFinal == Spec => OutcomeIsFinal
<1> DEFINE Final(i) == row[i].completed /\ row[i].status # "QUEUED" /\ pc[i] # "closing"
<1>1. ASSUME IInv, [Next]_vars, NEW i \in Emissions, Final(i)
      PROVE  row'[i].status = row[i].status
  <2>1. row[i].status # "PENDING"
    BY <1>1 DEF IInv, Truthful
  <2>2. pc[i] # "idle"
    BY <1>1 DEF IInv, Truthful, NotYetClosed, Absent
  <2>3. row \in [Emissions -> Row]
    BY <1>1 DEF IInv, TypeOK
  <2>4. CASE UNCHANGED vars
    BY <2>4 DEF vars
  <2>5. ASSUME NEW j \in Emissions,
               LaneStep(j) \/ Crash(j) \/ Observe(j) \/ Cancel(j) \/ Age(j) \/ Sweep(j)
        PROVE  row'[i].status = row[i].status
    <3>1. CASE LaneStep(j)
      <4>1. CASE Open(j)
        BY <2>2, <2>3, <4>1 DEF Open
      <4>2. CASE CloseWrites(j)
        BY <1>1, <2>3, <4>2 DEF CloseWrites
      <4>3. CASE CloseFails(j)
        BY <1>1, <2>3, <4>3 DEF CloseFails
      <4>4. CASE row' = row
        BY <4>4
      <4> QED BY <3>1, <4>1, <4>2, <4>3, <4>4
              DEF LaneStep, OpenFails, GateVetoes, ReadinessVetoes, InputRejected, GateThrows,
                  GatePasses, HandlerSucceeds, HandlerFails, PostconditionsHold,
                  PostconditionFails
    <3>2. CASE Crash(j)
      BY <3>2 DEF Crash
    <3>3. CASE Observe(j)
      BY <2>3, <3>3 DEF Observe, ObserverReads, ObserverWrites, ObserverFails, Row
    <3>4. CASE Cancel(j)
      BY <1>1, <2>1, <2>3, <3>4 DEF Cancel, Row
    <3>5. CASE Age(j)
      BY <3>5 DEF Age
    <3>6. CASE Sweep(j)
      BY <2>1, <2>3, <3>6 DEF Sweep, SweepUnobserved, SweepOrphan, Row
    <3> QED BY <2>5, <3>1, <3>2, <3>3, <3>4, <3>5, <3>6
  <2> QED BY <1>1, <2>4, <2>5 DEF Next
<1>2. IInv /\ [Next]_vars => [\A i \in Emissions : Final(i) => row'[i].status = row[i].status]_vars
  BY <1>1
<1> QED BY <1>2, Invariance, PTL DEF Spec, OutcomeIsFinal

-----------------------------------------------------------------------------
(***************************************************************************)
(* The batches of the sentinel handlers: SentinelQueue, for any number of  *)
(* rows, any size of the batch and any number of runs that overlap.        *)
(***************************************************************************)
\* The runs that have read the row r and have not begun its work.
Holders(r) == {c \in Runs : \E i \in 1..Len(batch[c]) :
                               batch[c][i] = r /\ (i # 1 \/ outcome[c] = "none")}

NoRowTwice(c) == \A i, j \in 1..Len(batch[c]) : i # j => batch[c][i] # batch[c][j]

\* Whoever has filed r as OK, or repeated it since, has no more of it to do, and
\* they are one more than the repetitions.
Counted(r) ==
    /\ status[r] \in {"absent", "PENDING"} => repeated[r] = 0
    /\ status[r] = "OK" \/ repeated[r] > 0 =>
          \E D \in SUBSET Runs : D \cap Holders(r) = {} /\ Cardinality(D) = repeated[r] + 1

QueueInv ==
    /\ status \in [Rows -> {"absent", "PENDING", "OK", "FAILED"}]
    /\ batch \in [Runs -> Seq(Rows)]
    /\ outcome \in [Runs -> {"none", "done", "failed"}]
    /\ repeated \in [Rows -> Nat]
    /\ \A c \in Runs : NoRowTwice(c)
    /\ \A r \in Rows : Counted(r)

LEMMA LeastOfSet ==
    ASSUME NEW S \in SUBSET Nat, S # {}
    PROVE  \E m \in S : \A k \in S : m <= k
<1>1. IsWellFoundedOn(OpToRel(<, Nat), Nat)
  BY NatLessThanWellFounded
<1>2. \E m \in S : \A k \in S : <<k, m>> \notin OpToRel(<, Nat)
  BY <1>1, WFMin
<1>3. \A k, m \in Nat : <<k, m>> \in OpToRel(<, Nat) <=> k < m
  BY DEF OpToRel
<1>4. \E m \in S : \A k \in S : ~ (k < m)
  BY <1>2, <1>3, Zenon
<1> QED BY <1>4

IsOrderOf(s, T) ==
    /\ s \in [1..Cardinality(T) -> T]
    /\ \A i, j \in 1..Cardinality(T) : i < j => s[i] < s[j]

\* Every finite set of numbers can be put in order: take its least member first.
LEMMA OrderExists ==
    ASSUME NEW S \in SUBSET Nat, IsFiniteSet(S)
    PROVE  \E s : IsOrderOf(s, S)
<1> DEFINE Unordered(T) == IsFiniteSet(T) /\ ~ \E s : IsOrderOf(s, T)
           Sizes == {n \in Nat : \E T \in SUBSET Nat : Unordered(T) /\ Cardinality(T) = n}
<1>1. SUFFICES ASSUME Sizes # {} PROVE FALSE
  BY FS_CardinalityType
<1>2. PICK n \in Sizes : \A k \in Sizes : n <= k
  <2>1. Sizes \in SUBSET Nat
    OBVIOUS
  <2> HIDE DEF Sizes
  <2> QED BY <1>1, <2>1, LeastOfSet
<1>3. PICK T \in SUBSET Nat : Unordered(T) /\ Cardinality(T) = n
  OBVIOUS
<1>4. n \in Nat
  OBVIOUS
<1>5. CASE T = {}
  <2>1. Cardinality(T) = 0
    BY <1>5, FS_EmptySet
  <2>2. IsOrderOf([i \in 1..0 |-> 0], T)
    BY <1>5, <2>1 DEF IsOrderOf
  <2> QED BY <1>3, <2>2
<1>6. CASE T # {}
  <2>1. PICK m \in T : \A k \in T : m <= k
    BY <1>6, LeastOfSet
  <2> DEFINE U == T \ {m}
  <2>2. IsFiniteSet(U) /\ Cardinality(U) = n - 1 /\ Cardinality(U) \in Nat
    BY <1>3, <2>1, FS_RemoveElement, FS_CardinalityType
  <2>3. U \in SUBSET Nat /\ n - 1 \in Nat /\ n - 1 \notin Sizes
    <3> HIDE DEF Sizes, U
    <3>1. n - 1 \notin Sizes
      BY <1>2, <1>4
    <3> QED BY <2>2, <3>1 DEF U
  <2>4. PICK u : IsOrderOf(u, U)
    BY <2>2, <2>3
  <2>9. u \in [1..(n - 1) -> U] /\ \A i, j \in 1..(n - 1) : i < j => u[i] < u[j]
    BY <2>2, <2>4, Zenon DEF IsOrderOf
  <2>10. U \subseteq T /\ \A k \in U : k \in Nat /\ m < k
    BY <2>1
  <2> DEFINE s == [i \in 1..n |-> IF i = 1 THEN m ELSE u[i - 1]]
  <2> HIDE DEF U, Sizes, Unordered
  <2>5. \A i \in 2..n : s[i] = u[i - 1] /\ i - 1 \in 1..(n - 1) /\ u[i - 1] \in U
    BY <1>4, <2>9
  <2>6. s \in [1..n -> T]
    <3>1. \A i \in 1..n : s[i] \in T
      <4> SUFFICES ASSUME NEW i \in 1..n PROVE s[i] \in T
        OBVIOUS
      <4>1. CASE i = 1
        BY <2>1, <4>1
      <4>2. CASE i # 1
        <5>1. i \in 2..n
          BY <1>4, <4>2
        <5> QED BY <2>5, <2>10, <5>1
      <4> QED BY <4>1, <4>2
    <3> QED BY <3>1
  <2>7. ASSUME NEW i \in 1..n, NEW j \in 1..n, i < j PROVE s[i] < s[j]
    <3>1. j \in 2..n /\ s[j] = u[j - 1] /\ u[j - 1] \in U /\ j - 1 \in 1..(n - 1)
      <4>1. j \in 2..n
        BY <1>4, <2>7
      <4> HIDE DEF s
      <4> QED BY <2>5, <4>1
    <3>2. CASE i = 1
      BY <2>1, <2>10, <3>1, <3>2
    <3>3. CASE i # 1
      <4>1. i \in 2..n /\ s[i] = u[i - 1] /\ i - 1 \in 1..(n - 1) /\ i - 1 < j - 1
        BY <1>4, <2>5, <2>7, <3>3
      <4> QED BY <2>9, <3>1, <4>1
    <3> QED BY <3>2, <3>3
  <2>8. IsOrderOf(s, T)
    <3> HIDE DEF s
    <3> QED BY <1>3, <2>6, <2>7 DEF IsOrderOf
  <2> QED BY <1>3, <2>8 DEF Unordered
<1> QED BY <1>5, <1>6

\* What findMany returns is a list of different rows of the set it selects.
LEMMA OrderChosen ==
    ASSUME NEW S \in SUBSET Nat, IsFiniteSet(S)
    PROVE  /\ InOrder(S) \in Seq(S)
           /\ Len(InOrder(S)) = Cardinality(S)
           /\ \A i, j \in 1..Len(InOrder(S)) :
                 i # j => InOrder(S)[i] # InOrder(S)[j]
<1> DEFINE s == InOrder(S)
           n == Cardinality(S)
<1>1. n \in Nat
  BY FS_CardinalityType
<1>2. \E f \in [1..n -> S] : \A i, j \in 1..n : i < j => f[i] < f[j]
  BY OrderExists DEF IsOrderOf
<1>3. s \in [1..n -> S] /\ \A i, j \in 1..n : i < j => s[i] < s[j]
  BY <1>2, Zenon DEF InOrder
<1> HIDE DEF s, n
<1>4. s \in Seq(S) /\ Len(s) = n
  BY <1>1, <1>3, SeqDef, LenProperties
<1>5. ASSUME NEW i \in 1..n, NEW j \in 1..n, i # j PROVE s[i] # s[j]
  <2>1. s[i] \in Nat /\ s[j] \in Nat
    BY <1>3
  <2>2. i < j \/ j < i
    BY <1>1, <1>5
  <2> QED BY <1>3, <2>1, <2>2
<1> QED BY <1>4, <1>5 DEF s, n

\* A step that files r neither as OK nor as waiting, does not repeat it and gives it
\* to nobody keeps the count.
LEMMA CountKept ==
    ASSUME NEW r, Counted(r), repeated'[r] = repeated[r], Holders(r)' \subseteq Holders(r),
           status'[r] \in {"absent", "PENDING"} => status[r] \in {"absent", "PENDING"},
           status'[r] = "OK" => status[r] = "OK"
    PROVE  Counted(r)'
<1> DEFINE old == Holders(r)
           new == Holders(r)'
<1>1. \A D \in SUBSET Runs : D \cap old = {} => D \cap new = {}
  OBVIOUS
<1> HIDE DEF old, new
<1> QED BY <1>1 DEF Counted, old, new

\* One statement of the routes, of a run or of the sweep keeps the count: a run
\* begins the work of a row of its batch once, and reads only rows that wait.
LEMMA QueueStep == QueueInv /\ [QueueNext]_queueVars => QueueInv'
<1> SUFFICES ASSUME QueueInv, [QueueNext]_queueVars PROVE QueueInv'
  OBVIOUS
<1>1. Rows = 1..MaxRow /\ Rows \in SUBSET Nat /\ IsFiniteSet(Rows)
  BY BatchAssumption, FS_Interval DEF Rows
<1>2. \A c \in Runs : batch[c] \in Seq(Rows)
  BY DEF QueueInv
<1>3. ASSUME UNCHANGED <<batch, outcome, repeated>>,
             status' \in [Rows -> {"absent", "PENDING", "OK", "FAILED"}],
             \A r \in Rows : /\ status'[r] = "OK" => status[r] = "OK"
                             /\ status'[r] \in {"absent", "PENDING"}
                                  => status[r] \in {"absent", "PENDING"}
      PROVE  QueueInv'
  <2>1. \A r \in Rows : Holders(r)' = Holders(r)
    BY <1>3 DEF Holders
  <2>2. \A r \in Rows : Counted(r)'
    BY <1>3, <2>1, CountKept DEF QueueInv
  <2> QED BY <1>3, <2>2 DEF QueueInv, NoRowTwice
<1>4. ASSUME NEW r \in Rows, Emit(r) PROVE QueueInv'
  BY <1>3, <1>4 DEF Emit, QueueInv
<1>5. CASE EndEmit
  BY <1>3, <1>5 DEF EndEmit, QueueInv
<1>6. CASE EndHandle
  BY <1>3, <1>6 DEF EndHandle, QueueInv
<1>7. CASE SweepOrphans
  BY <1>3, <1>7 DEF SweepOrphans, QueueInv
<1>8. ASSUME NEW c \in Runs, StartRun(c) PROVE QueueInv'
  <2> DEFINE S == Oldest(Queue, BatchSize)
             s == InOrder(S)
  <2>1. S \in SUBSET Rows /\ \A r \in S : status[r] = "PENDING"
    BY DEF Oldest, Queue
  <2>2. S \in SUBSET Nat /\ IsFiniteSet(S)
    <3> HIDE DEF S
    <3> QED BY <1>1, <2>1, FS_Subset
  <2>3. /\ batch' = [batch EXCEPT ![c] = s] /\ UNCHANGED <<status, outcome, repeated>>
        /\ batch[c] = <<>>
    BY <1>8 DEF StartRun
  <2> HIDE DEF S
  <2>4. s \in Seq(S) /\ \A i, j \in 1..Len(s) : i # j => s[i] # s[j]
    BY <2>2, OrderChosen
  <2> HIDE DEF s
  <2>5. s \in Seq(Rows) /\ \A i \in 1..Len(s) : s[i] \in S
    BY <2>1, <2>4, SeqMonotonic, ElementOfSeq
  <2>6. batch' \in [Runs -> Seq(Rows)] /\ batch'[c] = s
        /\ \A d \in Runs : d # c => batch'[d] = batch[d]
    BY <2>3, <2>5 DEF QueueInv
  <2>7. ASSUME NEW d \in Runs PROVE NoRowTwice(d)'
    <3>1. CASE d = c
      BY <2>4, <2>6, <3>1 DEF NoRowTwice
    <3>2. CASE d # c
      BY <2>6, <3>2 DEF QueueInv, NoRowTwice
    <3> QED BY <3>1, <3>2
  <2>8. ASSUME NEW r \in Rows PROVE Counted(r)'
    <3>1. CASE r \in S
      <4>1. status'[r] = "PENDING" /\ repeated'[r] = 0
        BY <2>1, <2>3, <3>1 DEF QueueInv, Counted
      <4> QED BY <4>1 DEF Counted
    <3>2. CASE r \notin S
      <4>1. \A i \in 1..Len(s) : s[i] # r
        BY <2>5, <3>2
      <4>2. Holders(r)' \subseteq Holders(r)
        BY <2>3, <2>6, <4>1 DEF Holders
      <4> QED BY <2>3, <4>2, CountKept DEF QueueInv
    <3> QED BY <3>1, <3>2
  <2> QED BY <2>3, <2>6, <2>7, <2>8 DEF QueueInv
<1>9. ASSUME NEW c \in Runs, Dispatch(c) PROVE QueueInv'
  <2>1. PICK h \in Rows :
           /\ h = Head(batch[c]) /\ h = batch[c][1] /\ 1 \in 1..Len(batch[c])
           /\ Len(batch[c]) \in Nat /\ outcome[c] = "none" /\ UNCHANGED <<status, batch>>
    BY <1>2, <1>9, HeadTailProperties, EmptySeq, LenProperties DEF Dispatch
  <2>2. PICK result \in {"done", "failed"} : outcome' = [outcome EXCEPT ![c] = result]
    BY <1>9 DEF Dispatch
  <2>3. /\ outcome' \in [Runs -> {"none", "done", "failed"}] /\ outcome'[c] # "none"
        /\ \A d \in Runs : d # c => outcome'[d] = outcome[d]
    BY <2>2 DEF QueueInv
  <2>4. repeated' = IF status[h] = "OK" THEN [repeated EXCEPT ![h] = @ + 1] ELSE repeated
    BY <1>9, <2>1 DEF Dispatch
  <2>5. repeated' \in [Rows -> Nat] /\ \A r \in Rows : r # h => repeated'[r] = repeated[r]
    BY <2>1, <2>4 DEF QueueInv
  <2>6. \A d \in Runs : NoRowTwice(d)'
    BY <2>1 DEF QueueInv, NoRowTwice
  <2>7. \A r \in Rows : Holders(r)' \subseteq Holders(r)
    BY <2>1, <2>3 DEF Holders
  <2>8. c \in Holders(h) /\ c \notin Holders(h)'
    <3>1. c \in Holders(h)
      BY <2>1 DEF Holders
    <3>2. \A i \in 1..Len(batch[c]) : batch[c][i] = h => i = 1
      BY <2>1 DEF QueueInv, NoRowTwice
    <3> QED BY <2>1, <2>3, <3>1, <3>2 DEF Holders
  <2>9. CASE status[h] = "OK"
    <3>1. repeated'[h] = repeated[h] + 1 /\ repeated[h] \in Nat
      BY <2>1, <2>4, <2>9 DEF QueueInv
    <3>2. PICK D \in SUBSET Runs : D \cap Holders(h) = {} /\ Cardinality(D) = repeated[h] + 1
      BY <2>1, <2>9 DEF QueueInv, Counted
    <3>3. D \cup {c} \in SUBSET Runs /\ (D \cup {c}) \cap Holders(h)' = {} /\ c \notin D
      <4> DEFINE old == Holders(h)
                 new == Holders(h)'
      <4>1. new \subseteq old /\ c \in old /\ c \notin new
        BY <2>1, <2>7, <2>8
      <4> HIDE DEF old, new
      <4>2. D \cap old = {}
        BY <3>2 DEF old
      <4>3. D \cup {c} \in SUBSET Runs /\ (D \cup {c}) \cap new = {} /\ c \notin D
        BY <4>1, <4>2
      <4> QED BY <4>3 DEF new
    <3>4. Cardinality(D \cup {c}) = repeated'[h] + 1
      <4>1. IsFiniteSet(D)
        BY BatchAssumption, FS_Subset
      <4>2. Cardinality(D \cup {c}) = Cardinality(D) + 1
        BY <3>3, <4>1, FS_AddElement
      <4> QED BY <3>1, <3>2, <4>2
    <3>5. Counted(h)'
      BY <2>1, <2>9, <3>3, <3>4 DEF Counted
    <3>6. ASSUME NEW r \in Rows, r # h PROVE Counted(r)'
      BY <2>1, <2>5, <2>7, <3>6, CountKept DEF QueueInv
    <3>7. \A r \in Rows : Counted(r)'
      BY <3>5, <3>6
    <3> QED BY <2>1, <2>3, <2>5, <2>6, <3>7 DEF QueueInv
  <2>10. CASE status[h] # "OK"
    <3>1. ASSUME NEW r \in Rows PROVE Counted(r)'
      BY <2>1, <2>4, <2>7, <2>10, CountKept DEF QueueInv
    <3> QED BY <2>1, <2>3, <2>5, <2>6, <3>1 DEF QueueInv
  <2> QED BY <2>9, <2>10
<1>10. ASSUME NEW c \in Runs, Record(c) PROVE QueueInv'
  <2>0. PICK b \in Seq(Rows) : b = batch[c]
    BY <1>2
  <2>1. /\ b # <<>> /\ Len(b) \in Nat /\ Head(b) = b[1] /\ Head(b) \in Rows
        /\ Tail(b) \in Seq(Rows) /\ Len(Tail(b)) = Len(b) - 1 /\ 1 \in 1..Len(b)
        /\ \A i \in 1..Len(Tail(b)) : Tail(b)[i] = b[i + 1]
    BY <1>10, <2>0, HeadTailProperties, LenProperties, EmptySeq DEF Record
  <2> DEFINE h == Head(b)
  <2>2. PICK new \in {"OK", "FAILED", status[h]} : status' = [status EXCEPT ![h] = new]
    BY <1>10, <2>0 DEF Record
  <2>3. /\ batch' = [batch EXCEPT ![c] = Tail(b)] /\ repeated' = repeated
        /\ outcome[c] # "none" /\ outcome' = [outcome EXCEPT ![c] = "none"]
    BY <1>10, <2>0 DEF Record
  <2>4. /\ status' \in [Rows -> {"absent", "PENDING", "OK", "FAILED"}] /\ status'[h] = new
        /\ \A r \in Rows : r # h => status'[r] = status[r]
    BY <2>1, <2>2 DEF QueueInv
  <2>5. /\ batch' \in [Runs -> Seq(Rows)] /\ batch'[c] = Tail(b)
        /\ outcome' \in [Runs -> {"none", "done", "failed"}] /\ outcome'[c] = "none"
        /\ \A d \in Runs : d # c => batch'[d] = batch[d] /\ outcome'[d] = outcome[d]
    BY <2>1, <2>3 DEF QueueInv
  <2>6. /\ \A i, j \in 1..Len(b) : i # j => b[i] # b[j]
        /\ \A i \in 1..Len(Tail(b)) : i + 1 \in 1..Len(b) /\ i + 1 # 1
    BY <2>0, <2>1 DEF QueueInv, NoRowTwice
  <2>7. \A d \in Runs : NoRowTwice(d)'
    <3>1. ASSUME NEW i \in 1..Len(Tail(b)), NEW j \in 1..Len(Tail(b)), i # j
          PROVE  Tail(b)[i] # Tail(b)[j]
      <4>1. i + 1 \in 1..Len(b) /\ j + 1 \in 1..Len(b) /\ i + 1 # j + 1
        BY <2>1, <2>6, <3>1
      <4> QED BY <2>1, <2>6, <4>1
    <3>2. ASSUME NEW d \in Runs PROVE NoRowTwice(d)'
      <4>1. CASE d = c
        <5>1. \A i, j \in 1..Len(Tail(b)) : i # j => Tail(b)[i] # Tail(b)[j]
          BY <3>1
        <5>2. batch'[d] = Tail(b)
          BY <2>5, <4>1
        <5> QED BY <5>1, <5>2 DEF NoRowTwice
      <4>2. CASE d # c
        BY <2>5, <4>2 DEF QueueInv, NoRowTwice
      <4> QED BY <4>1, <4>2
    <3> QED BY <3>2
  <2>8. \A r \in Rows : Holders(r)' \subseteq Holders(r)
    <3> SUFFICES ASSUME NEW r \in Rows, NEW d \in Holders(r)' PROVE d \in Holders(r)
      OBVIOUS
    <3>1. d \in Runs
      BY DEF Holders
    <3>2. CASE d = c
      <4>1. PICK i \in 1..Len(Tail(b)) : Tail(b)[i] = r
        BY <2>5, <3>2 DEF Holders
      <4>2. i + 1 \in 1..Len(b) /\ i + 1 # 1 /\ b[i + 1] = r
        BY <2>1, <2>6, <4>1
      <4> QED BY <2>0, <3>1, <3>2, <4>2 DEF Holders
    <3>3. CASE d # c
      BY <2>5, <3>1, <3>3 DEF Holders
    <3> QED BY <3>2, <3>3
  <2>9. c \notin Holders(h)'
    <3>1. \A i \in 1..Len(Tail(b)) : Tail(b)[i] # h
      BY <2>1, <2>6
    <3> QED BY <2>5, <3>1 DEF Holders
  <2>10. Counted(h)'
    <3>1. Counted(h) /\ repeated[h] \in Nat
      BY <2>1 DEF QueueInv
    <3>2. CASE new = "OK" /\ repeated[h] = 0
      <4>1. {c} \in SUBSET Runs /\ {c} \cap Holders(h)' = {}
        BY <2>9
      <4>2. Cardinality({c}) = 1
        BY FS_Singleton, Zenon
      <4>3. status'[h] = "OK" /\ repeated'[h] = 0
        BY <2>3, <2>4, <3>2
      <4> QED BY <4>1, <4>2, <4>3 DEF Counted
    <3>3. CASE new = "OK" /\ repeated[h] > 0
      <4>1. PICK D \in SUBSET Runs : D \cap Holders(h) = {} /\ Cardinality(D) = repeated[h] + 1
        BY <3>1, <3>3 DEF Counted
      <4>2. D \cap Holders(h)' = {}
        BY <2>1, <2>8, <4>1
      <4> QED BY <2>3, <2>4, <3>3, <4>1, <4>2 DEF Counted
    <3>4. CASE new # "OK"
      <4>1. status'[h] = "FAILED" \/ status'[h] = status[h]
        BY <2>2, <2>4, <3>4
      <4> QED BY <2>1, <2>3, <2>4, <2>8, <3>1, <3>4, <4>1, CountKept
    <3> QED BY <3>1, <3>2, <3>3, <3>4
  <2>11. ASSUME NEW r \in Rows, r # h PROVE Counted(r)'
    BY <2>3, <2>4, <2>8, <2>11, CountKept DEF QueueInv
  <2>12. \A r \in Rows : Counted(r)'
    BY <2>10, <2>11
  <2> QED BY <2>3, <2>4, <2>5, <2>7, <2>12 DEF QueueInv
<1>11. ASSUME NEW c \in Runs, RunDies(c) PROVE QueueInv'
  <2>1. /\ batch' = [batch EXCEPT ![c] = <<>>] /\ outcome' = [outcome EXCEPT ![c] = "none"]
        /\ UNCHANGED <<status, repeated>>
    BY <1>11 DEF RunDies
  <2>2. /\ batch' \in [Runs -> Seq(Rows)] /\ batch'[c] = <<>>
        /\ outcome' \in [Runs -> {"none", "done", "failed"}]
        /\ \A d \in Runs : d # c => batch'[d] = batch[d] /\ outcome'[d] = outcome[d]
    BY <2>1, EmptySeq DEF QueueInv
  <2>6. 1..Len(batch'[c]) = {}
    BY <2>2, EmptySeq
  <2>3. ASSUME NEW d \in Runs PROVE NoRowTwice(d)'
    <3>1. CASE d = c
      BY <2>6, <3>1 DEF NoRowTwice
    <3>2. CASE d # c
      BY <2>2, <3>2 DEF QueueInv, NoRowTwice
    <3> QED BY <3>1, <3>2
  <2>4. ASSUME NEW r \in Rows, NEW d \in Holders(r)' PROVE d \in Holders(r)
    <3>1. d \in Runs /\ d # c
      BY <2>6 DEF Holders
    <3> QED BY <2>2, <3>1 DEF Holders
  <2>5. \A r \in Rows : Counted(r)'
    BY <2>1, <2>4, CountKept DEF QueueInv
  <2> QED BY <2>1, <2>2, <2>3, <2>5 DEF QueueInv
<1>12. CASE UNCHANGED queueVars
  BY <1>3, <1>12 DEF queueVars, QueueInv
<1> QED BY <1>4, <1>5, <1>6, <1>7, <1>8, <1>9, <1>10, <1>11, <1>12
        DEF QueueNext, Daemon, Work

\* However many runs of processPendingSentinels overlap, die or are swept under, a
\* row that one of them has filed as OK is done again by each of the others once at
\* most; with a single run it is never done again.
THEOREM SentinelRepeatsBounded == QueueSpec => []RepeatsAreBounded
<1>1. QueueInit => QueueInv
  <2> SUFFICES ASSUME QueueInit PROVE QueueInv
    OBVIOUS
  <2>1. batch \in [Runs -> Seq(Rows)] /\ \A c \in Runs : batch[c] = <<>>
    BY EmptySeq DEF QueueInit
  <2>2. \A c \in Runs : NoRowTwice(c)
    BY <2>1, EmptySeq DEF NoRowTwice
  <2>3. \A r \in Rows : Counted(r)
    BY DEF QueueInit, Counted
  <2> QED BY <2>1, <2>2, <2>3 DEF QueueInit, QueueInv
<1>2. QueueInv => RepeatsAreBounded
  <2> SUFFICES ASSUME QueueInv, NEW r \in Rows PROVE repeated[r] < Cardinality(Runs)
    BY DEF RepeatsAreBounded
  <2>1. repeated[r] \in Nat /\ Counted(r)
    BY DEF QueueInv
  <2>2. Cardinality(Runs) \in Nat /\ Cardinality(Runs) # 0
    BY BatchAssumption, FS_CardinalityType, FS_EmptySet
  <2>3. CASE repeated[r] > 0
    <3>1. PICK D \in SUBSET Runs : Cardinality(D) = repeated[r] + 1
      BY <2>1, <2>3 DEF Counted
    <3>2. Cardinality(D) <= Cardinality(Runs)
      BY BatchAssumption, FS_Subset
    <3> QED BY <2>1, <2>2, <3>1, <3>2
  <2> QED BY <2>1, <2>2, <2>3
<1> QED BY <1>1, <1>2, QueueStep, PTL DEF QueueSpec

LEMMA GreatestOfSet ==
    ASSUME NEW n \in Nat, NEW T \in SUBSET (0..n), T # {}
    PROVE  \E m \in T : \A k \in T : k <= m
<1> DEFINE U == {u \in Nat : \A k \in T : k <= u}
<1>1. U \in SUBSET Nat /\ n \in U
  OBVIOUS
<1>2. PICK m \in U : \A u \in U : m <= u
  BY <1>1, LeastOfSet
<1>3. m \in T
  <2> SUFFICES ASSUME m \notin T PROVE FALSE
    OBVIOUS
  <2>1. PICK k \in T : TRUE
    OBVIOUS
  <2>2. m - 1 \in Nat /\ \A j \in T : j <= m - 1
    BY <1>2, <2>1
  <2> QED BY <1>2, <2>2
<1> QED BY <1>2, <1>3

\* take: BATCH_SIZE.  At most n rows have fewer than n rows of the set before them:
\* the last of them has all the others before it.
LEMMA OldestAreFew ==
    ASSUME NEW S \in SUBSET Rows, NEW n \in Nat
    PROVE  /\ Oldest(S, n) \in SUBSET S
           /\ Cardinality(Oldest(S, n)) <= n
<1> DEFINE T == Oldest(S, n)
           Before(m) == {q \in S : q < m}
<1>1. S \in SUBSET (0..MaxRow) /\ T \in SUBSET S
  BY BatchAssumption DEF Rows, Oldest
<1>2. IsFiniteSet(S)
  <2>1. IsFiniteSet(0..MaxRow)
    BY BatchAssumption, FS_Interval
  <2> QED BY <1>1, <2>1, FS_Subset
<1>3. \A m \in T : Cardinality(Before(m)) < n
  BY DEF Oldest
<1> HIDE DEF T
<1>4. IsFiniteSet(T) /\ Cardinality(T) \in Nat
  BY <1>1, <1>2, FS_Subset, FS_CardinalityType
<1>5. ASSUME T = {} PROVE Cardinality(T) <= n
  BY <1>5, FS_EmptySet
<1>6. ASSUME T # {} PROVE Cardinality(T) <= n
  <2>1. PICK m \in T : \A k \in T : k <= m
    <3>1. T \in SUBSET (0..MaxRow) /\ MaxRow \in Nat
      BY BatchAssumption, <1>1
    <3> QED BY <1>6, <3>1, GreatestOfSet
  <2>2. T \ {m} \in SUBSET Before(m)
    BY <1>1, <2>1
  <2>3. IsFiniteSet(Before(m))
    BY <1>2, FS_Subset
  <2>4. Cardinality(T \ {m}) <= Cardinality(Before(m))
    <3> HIDE DEF Before
    <3> QED BY <2>2, <2>3, FS_Subset
  <2>5. Cardinality(T \ {m}) = Cardinality(T) - 1
    BY <1>4, <2>1, FS_RemoveElement
  <2>6. Cardinality(Before(m)) < n /\ Cardinality(Before(m)) \in Nat
    BY <1>3, <2>1, <2>3, FS_CardinalityType
  <2> HIDE DEF Before
  <2>7. Cardinality(T) <= n
    BY <1>4, <2>4, <2>5, <2>6
  <2> QED BY <2>7
<1> QED BY <1>1, <1>5, <1>6 DEF T

\* Every variable of the sentinels keeps its type, however many runs overlap; in
\* particular a run takes BATCH_SIZE rows at most, and no row ages past two rounds.
THEOREM SentinelTypeCorrect == QueueSpec => []QueueTypeOK
<1> DEFINE States == {"absent", "PENDING", "OK", "FAILED"}
           TInv == QueueTypeOK /\ batch \in [Runs -> Seq(Rows)]
<1>1. QueueInit => TInv
  <2> SUFFICES ASSUME QueueInit PROVE TInv
    OBVIOUS
  <2>1. batch \in [Runs -> Seq(Rows)] /\ \A c \in Runs : batch[c] = <<>> /\ Len(batch[c]) = 0
    BY EmptySeq DEF QueueInit
  <2>2. fired \in BOOLEAN
    BY Zenon DEF QueueInit
  <2> QED BY BatchAssumption, <2>1, <2>2 DEF QueueInit, QueueTypeOK
<1>2. ASSUME TInv, [QueueNext]_queueVars PROVE TInv'
  <2>1. \A c \in Runs : batch[c] \in Seq(Rows) /\ Len(batch[c]) <= BatchSize /\ Len(batch[c]) \in Nat
    BY <1>2, LenProperties DEF QueueTypeOK
  <2>2. ASSUME NEW r \in Rows, Emit(r) PROVE TInv'
    BY <1>2, <2>2 DEF Emit, QueueTypeOK
  <2>3. CASE EndEmit
    BY <1>2, <2>3 DEF EndEmit, QueueTypeOK
  <2>4. CASE EndHandle
    BY <1>2, <2>4 DEF EndHandle, QueueTypeOK
  <2>5. CASE SweepOrphans
    <3>1. status' \in [Rows -> States]
      BY <1>2, <2>5 DEF SweepOrphans, QueueTypeOK
    <3>2. age' \in [Rows -> 0..2]
      BY <1>2, <2>5 DEF SweepOrphans, QueueTypeOK
    <3> QED BY <1>2, <2>5, <3>1, <3>2 DEF SweepOrphans, QueueTypeOK
  <2>6. ASSUME NEW c \in Runs, StartRun(c) PROVE TInv'
    <3> DEFINE T == Oldest(Queue, BatchSize)
               s == InOrder(T)
    <3>1. Queue \in SUBSET Rows
      BY DEF Queue
    <3>2. T \in SUBSET Rows /\ Cardinality(T) <= BatchSize
      BY BatchAssumption, <3>1, OldestAreFew
    <3>3. Rows \in SUBSET Nat /\ IsFiniteSet(Rows)
      BY BatchAssumption, FS_Interval DEF Rows
    <3>4. /\ batch' = [batch EXCEPT ![c] = s] /\ taken' = taken \cup T
          /\ UNCHANGED <<phase, status, age, outcome, repeated>>
          /\ fired' = (fired \/ phase = "handle")
      BY <2>6 DEF StartRun
    <3> HIDE DEF T
    <3>5. s \in Seq(T) /\ Len(s) <= BatchSize
      <4>1. T \in SUBSET Nat /\ IsFiniteSet(T)
        BY <3>2, <3>3, FS_Subset
      <4> QED BY <3>2, <4>1, OrderChosen
    <3> HIDE DEF s
    <3>6. s \in Seq(Rows)
      BY <3>2, <3>5, SeqMonotonic
    <3>7. /\ batch' \in [Runs -> Seq(Rows)]
          /\ \A d \in Runs : batch'[d] \in Seq(Rows) /\ Len(batch'[d]) <= BatchSize
      BY <1>2, <2>1, <3>4, <3>5, <3>6
    <3>8. taken' \subseteq Rows
      BY <1>2, <3>2, <3>4 DEF QueueTypeOK
    <3>9. fired' \in BOOLEAN
      BY <1>2, <3>4, Zenon DEF QueueTypeOK
    <3> QED BY <1>2, <3>4, <3>7, <3>8, <3>9 DEF QueueTypeOK
  <2>7. ASSUME NEW c \in Runs, Dispatch(c) PROVE TInv'
    <3>1. Head(batch[c]) \in Rows
      BY <2>1, <2>7, HeadTailProperties DEF Dispatch
    <3>2. repeated' \in [Rows -> Nat]
      BY <1>2, <2>7, <3>1 DEF Dispatch, QueueTypeOK
    <3>3. outcome' \in [Runs -> {"none", "done", "failed"}]
      BY <1>2, <2>7 DEF Dispatch, QueueTypeOK
    <3> QED BY <1>2, <2>7, <3>2, <3>3 DEF Dispatch, QueueTypeOK
  <2>8. ASSUME NEW c \in Runs, Record(c) PROVE TInv'
    <3>1. /\ Head(batch[c]) \in Rows /\ Tail(batch[c]) \in Seq(Rows)
          /\ Len(Tail(batch[c])) <= BatchSize
      BY BatchAssumption, <2>1, <2>8, HeadTailProperties DEF Record
    <3>2. PICK new \in {"OK", "FAILED", status[Head(batch[c])]} :
             status' = [status EXCEPT ![Head(batch[c])] = new]
      BY <2>8 DEF Record
    <3>3. new \in States
      BY <1>2, <3>1, <3>2 DEF QueueTypeOK
    <3>4. status' \in [Rows -> States]
      BY <1>2, <3>2, <3>3 DEF QueueTypeOK
    <3>5. /\ batch' \in [Runs -> Seq(Rows)]
          /\ \A d \in Runs : batch'[d] \in Seq(Rows) /\ Len(batch'[d]) <= BatchSize
      BY <1>2, <2>1, <2>8, <3>1 DEF Record
    <3>6. outcome' \in [Runs -> {"none", "done", "failed"}]
      BY <1>2, <2>8 DEF Record, QueueTypeOK
    <3> QED BY <1>2, <2>8, <3>4, <3>5, <3>6 DEF Record, QueueTypeOK
  <2>9. ASSUME NEW c \in Runs, RunDies(c) PROVE TInv'
    <3>1. /\ batch' \in [Runs -> Seq(Rows)]
          /\ \A d \in Runs : batch'[d] \in Seq(Rows) /\ Len(batch'[d]) <= BatchSize
      BY BatchAssumption, <1>2, <2>1, <2>9, EmptySeq DEF RunDies
    <3>2. outcome' \in [Runs -> {"none", "done", "failed"}]
      BY <1>2, <2>9 DEF RunDies, QueueTypeOK
    <3> QED BY <1>2, <2>9, <3>1, <3>2 DEF RunDies, QueueTypeOK
  <2>10. CASE UNCHANGED queueVars
    BY <1>2, <2>10 DEF queueVars, QueueTypeOK
  <2> QED BY <1>2, <2>2, <2>3, <2>4, <2>5, <2>6, <2>7, <2>8, <2>9, <2>10
          DEF QueueNext, Daemon, Work
<1>3. TInv => QueueTypeOK
  OBVIOUS
<1> HIDE DEF TInv
<1> QED BY <1>1, <1>2, <1>3, PTL DEF QueueSpec
=============================================================================
