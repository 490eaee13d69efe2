--------------------------- MODULE SentinelQueue ---------------------------
(***************************************************************************)
(* The sentinel emissions: opened by /api/cron/sentinels, executed by      *)
(* /api/cron/sentinel-handlers (processPendingSentinels), and swept with   *)
(* every other emission by /api/cron/ops-sweep.                            *)
(*                                                                         *)
(* The six-hourly cadence of the ops daemon calls the three routes in this *)
(* order, each for at most two minutes; the GitHub workflow may call them  *)
(* as well.  A run of the handlers reads a batch of PENDING rows and then  *)
(* works through it without looking at the rows again.                     *)
(***************************************************************************)
EXTENDS Naturals, Sequences, FiniteSets

CONSTANTS MaxRow,     \* the sentinel rows are 1..MaxRow, in order of emittedAt
          Runs,       \* runs of the handlers that may overlap
          BatchSize   \* 50 in the code

ASSUME BatchAssumption ==
    MaxRow \in Nat /\ BatchSize \in Nat \ {0} /\ IsFiniteSet(Runs) /\ Runs # {}

Rows == 1..MaxRow

VARIABLES phase,    \* the route the daemon is at
          fired,    \* whether the daemon has called the handlers this round
          status,   \* status[r]; completedAt is set together with it
          age,      \* age[r]: whole rounds since startedAt, up to 2
          batch,    \* batch[c]: the rows the run c still has to do
          outcome,  \* outcome[c]: what dispatchHandler of the first of them gave
          repeated, \* history: how often the work of r was begun while r was on record as OK
          taken     \* the rows some run has read into a batch

queueVars == <<phase, fired, status, age, batch, outcome, repeated, taken>>

QueueInit ==
    /\ phase = "emit" /\ fired = FALSE
    /\ status = [r \in Rows |-> "absent"]
    /\ age = [r \in Rows |-> 0]
    /\ batch = [c \in Runs |-> <<>>]
    /\ outcome = [c \in Runs |-> "none"]
    /\ repeated = [r \in Rows |-> 0]
    /\ taken = {}

\* /api/cron/sentinels: openEmission, one row after the other
Emit(r) ==
    /\ phase = "emit" /\ status[r] = "absent"
    /\ \A q \in Rows : q < r => status[q] # "absent"
    /\ status' = [status EXCEPT ![r] = "PENDING"]
    /\ UNCHANGED <<phase, fired, age, batch, outcome, repeated, taken>>

EndEmit ==
    /\ phase = "emit"
    /\ phase' = "handle"
    /\ UNCHANGED <<fired, status, age, batch, outcome, repeated, taken>>

\* Slip: the status is not in the filter.
QueueOfAllRows == {r \in Rows : status[r] # "absent"}

Queue == {r \in Rows : status[r] = "PENDING"}

\* findMany PENDING, orderBy emittedAt asc, take BATCH_SIZE
Oldest(S, n) == {r \in S : Cardinality({q \in S : q < r}) < n}
InOrder(S) == CHOOSE s \in [1..Cardinality(S) -> S] :
                  \A i, j \in 1..Cardinality(S) : i < j => s[i] < s[j]

StartRun(c) ==
    /\ batch[c] = <<>>
    /\ LET rows == Oldest(Queue, BatchSize)
       IN  /\ batch' = [batch EXCEPT ![c] = InOrder(rows)]
           /\ taken' = taken \cup rows
    /\ fired' = (fired \/ phase = "handle")
    /\ UNCHANGED <<phase, status, age, outcome, repeated>>

\* dispatchHandler: signals and knowledge entries are written, or it throws.
Dispatch(c) ==
    /\ batch[c] # <<>> /\ outcome[c] = "none"
    /\ \E result \in {"done", "failed"} : outcome' = [outcome EXCEPT ![c] = result]
    /\ repeated' = IF status[Head(batch[c])] = "OK"
                   THEN [repeated EXCEPT ![Head(batch[c])] = @ + 1] ELSE repeated
    /\ UNCHANGED <<phase, fired, status, age, batch, taken>>

\* update by id.  An update to OK that throws is followed by an update to
\* FAILED; an update to FAILED that throws is swallowed.
Record(c) ==
    /\ batch[c] # <<>> /\ outcome[c] # "none"
    /\ \E new \in (IF outcome[c] = "done" THEN {"OK"} ELSE {})
                    \cup {"FAILED", status[Head(batch[c])]} :
          status' = [status EXCEPT ![Head(batch[c])] = new]
    /\ batch' = [batch EXCEPT ![c] = Tail(@)]
    /\ outcome' = [outcome EXCEPT ![c] = "none"]
    /\ UNCHANGED <<phase, fired, age, repeated, taken>>

\* The process of a run dies.
RunDies(c) ==
    /\ batch[c] # <<>>
    /\ batch' = [batch EXCEPT ![c] = <<>>]
    /\ outcome' = [outcome EXCEPT ![c] = "none"]
    /\ UNCHANGED <<phase, fired, status, age, repeated, taken>>

\* The answer of the route, or the two minutes of fireCadence.
EndHandle ==
    /\ phase = "handle" /\ fired
    /\ phase' = "sweep"
    /\ UNCHANGED <<fired, status, age, batch, outcome, repeated, taken>>

\* Slip: rows that a run has taken are trusted to be finished by it.
SweepUntaken ==
    /\ phase = "sweep"
    /\ status' = [r \in Rows |-> IF r \in Queue \ taken /\ age[r] >= 1 THEN "FAILED" ELSE status[r]]
    /\ age' = [r \in Rows |-> IF status[r] = "absent" \/ age[r] = 2 THEN age[r] ELSE age[r] + 1]
    /\ phase' = "emit" /\ fired' = FALSE
    /\ UNCHANGED <<batch, outcome, repeated, taken>>

\* ops-sweep, section 5 (b): one updateMany over the rows startedAt more than
\* six hours ago.  A row of the previous round is just above or just below.
SweepOrphans ==
    /\ phase = "sweep"
    /\ \E S \in SUBSET {r \in Queue : age[r] >= 1} :
          /\ {r \in Queue : age[r] >= 2} \subseteq S
          /\ status' = [r \in Rows |-> IF r \in S THEN "FAILED" ELSE status[r]]
    /\ age' = [r \in Rows |-> IF status[r] = "absent" \/ age[r] = 2 THEN age[r] ELSE age[r] + 1]
    /\ phase' = "emit" /\ fired' = FALSE
    /\ UNCHANGED <<batch, outcome, repeated, taken>>

Daemon == (\E r \in Rows : Emit(r)) \/ EndEmit \/ EndHandle \/ SweepOrphans
Work(c) == StartRun(c) \/ Dispatch(c) \/ Record(c)
QueueNext == Daemon \/ \E c \in Runs : Work(c) \/ RunDies(c)

\* The daemon keeps calling the routes and a run it starts keeps working.
QueueFairness ==
    /\ WF_queueVars(EndEmit) /\ WF_queueVars(EndHandle) /\ WF_queueVars(SweepOrphans)
    /\ \A c \in Runs : /\ WF_queueVars(StartRun(c) /\ phase = "handle")
                       /\ WF_queueVars(Dispatch(c)) /\ WF_queueVars(Record(c))

QueueSpec == QueueInit /\ [][QueueNext]_queueVars
FairQueueSpec == QueueSpec /\ QueueFairness

-----------------------------------------------------------------------------
QueueTypeOK ==
    /\ phase \in {"emit", "handle", "sweep"} /\ fired \in BOOLEAN
    /\ status \in [Rows -> {"absent", "PENDING", "OK", "FAILED"}]
    /\ age \in [Rows -> 0..2]
    /\ \A c \in Runs : batch[c] \in Seq(Rows) /\ Len(batch[c]) <= BatchSize
    /\ outcome \in [Runs -> {"none", "done", "failed"}]
    /\ repeated \in [Rows -> Nat]
    /\ taken \subseteq Rows

\* No sentinel waits for ever: it is executed or flagged.
SentinelSettles == \A r \in Rows : status[r] = "PENDING" ~> status[r] # "PENDING"

\* Runs that overlap have read the same rows.  Each of them does the work of a row
\* that another has filed as OK once at most, and no later run does it again,
\* whatever dies, throws or is swept meanwhile.
RepeatsAreBounded == \A r \in Rows : repeated[r] < Cardinality(Runs)

\* What the header of the service says: "Idempotent : ne re-traite que les rows en
\* `PENDING`" (index.ts:17).  It is so of the reading of a batch, not of the work.
NoRepeatAfterRecord == \A r \in Rows : repeated[r] = 0
=============================================================================
