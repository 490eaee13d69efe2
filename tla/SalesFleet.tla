------------------------------ MODULE SalesFleet ------------------------------
(***************************************************************************)
(* One AI seller and its tasks: claimRun, completeRun, resolveSalesRun and *)
(* what the owner changes meanwhile (crm-engine/fleet.ts).                 *)
(*                                                                         *)
(* Transactions are READ COMMITTED: each statement is a step and sees what *)
(* is committed; an update waits for the row; what it writes is seen at    *)
(* the commit, which is the last statement's step.  A transaction may be   *)
(* given up at any step, as PostgreSQL does with one of two that wait for  *)
(* each other.  The revision of the profile is only ever compared with one *)
(* that was read: a claim for which it has moved since is "outdated".      *)
(***************************************************************************)
EXTENDS Integers, FiniteSets

CONSTANTS Runs,      \* SalesRun rows that may be queued
          Claims,    \* claimRequestIds; a worker repeats one until it is answered
          Reports,   \* results and reconciliations under way at the same time
          None,
          Settings,  \* what the owner may set: dailyTokenBudget, maxTokens, dailyRunLimit
          Usage,     \* consumptions that a worker may report
          MaxDay     \* bound: days

\* reserve: maxTokens, what a claim reserves
Terms == [budget : Nat, reserve : Nat, limit : Nat]

ASSUME FleetAssumption ==
    /\ IsFiniteSet(Runs) /\ None \notin Claims \cup Runs
    /\ Settings \subseteq Terms /\ Usage \subseteq Nat
    /\ MaxDay \in Nat \ {0}

VARIABLES today,
          profile,  \* the SalesRepresentative row
          lock,     \* the claim whose open transaction has updated that row
          run,      \* run[r]: the SalesRun row; late: RUNNING for fifteen minutes
          claim,    \* claim[c]: the transaction of claimRun
          report,   \* report[f]: a call of completeRun or resolveSalesRun
          booked,   \* history: booked[r], the day on whose budget r was put
          charge,   \* history: charge[r], what r holds of that budget, or has used
          spent,    \* history: the sum of these for the day of the profile
          unbooked  \* history: the part of it that came with a result that is not booked

history == <<booked, charge, spent, unbooked>>
vars == <<today, profile, lock, run, claim, report, history>>

Absent == [status |-> "absent", lease |-> None, day |-> 0, late |-> FALSE,
           reserved |-> 0, completed |-> FALSE, used |-> 0]
NewProfile(terms) == [active |-> FALSE, day |-> 0, tokens |-> 0, count |-> 0, terms |-> terms]
NotRead == NewProfile([budget |-> 0, reserve |-> 0, limit |-> 0])
NotClaiming == [at |-> "idle", seen |-> NotRead, day |-> 0, expired |-> {}]
Silent == [at |-> "idle", id |-> None, was |-> "absent", books |-> FALSE, status |-> "DONE", used |-> 0]

Init ==
    /\ today = 1
    /\ profile \in {NewProfile(terms) : terms \in Settings}
    /\ lock = None
    /\ run = [r \in Runs |-> Absent]
    /\ claim = [c \in Claims |-> NotClaiming]
    /\ report = [f \in Reports |-> Silent]
    /\ booked = [r \in Runs |-> 0]
    /\ charge = [r \in Runs |-> 0]
    /\ spent = 0
    /\ unbooked = 0

Open == {r \in Runs : run[r].status \in {"RUNNING", "AMBIGUOUS"}}
Queued == {r \in Runs : run[r].status = "QUEUED"}

\* Slip: the adjusted counter leaves the revision alone.
NotRevised == UNCHANGED claim

\* revision: { increment: 1 }, at the commit: what claims have read is outdated.
Outdated(claims) ==
    [c \in Claims |-> IF claims[c].at = "read" THEN [NotClaiming EXCEPT !.at = "outdated"] ELSE claims[c]]
Revised == claim' = Outdated(claim)

-----------------------------------------------------------------------------
(* The owner, and time                                                       *)

\* queueSalesRunIn; the rows of another requestId are other members of Runs.
Queue(r) ==
    /\ profile.active /\ run[r] = Absent
    /\ run' = [run EXCEPT ![r].status = "QUEUED"]
    /\ UNCHANGED <<today, profile, lock, claim, report, history>>

\* setSalesRepresentativeStatus: ACTIVE or not
SetStatus ==
    /\ lock = None
    /\ profile' = [profile EXCEPT !.active = ~@]
    /\ Revised
    /\ UNCHANGED <<today, lock, run, report, history>>

\* saveSalesRepresentative: budget, reservation and limit are changed together,
\* below what the day already holds or not.
Save(terms) ==
    /\ lock = None
    /\ profile' = [profile EXCEPT !.terms = terms]
    /\ Revised
    /\ UNCHANGED <<today, lock, run, report, history>>

\* Fifteen minutes have passed since the claim.
Expire(r) ==
    /\ run[r].status = "RUNNING" /\ ~run[r].late
    /\ run' = [run EXCEPT ![r].late = TRUE]
    /\ UNCHANGED <<today, profile, lock, claim, report, history>>

Midnight ==
    /\ today < MaxDay
    /\ today' = today + 1
    /\ UNCHANGED <<profile, lock, run, claim, report, history>>

-----------------------------------------------------------------------------
(* claimRun                                                                  *)

To(c, at) == claim' = [claim EXCEPT ![c].at = at]

\* The profile is read, and must be ACTIVE.
ReadProfile(c) ==
    /\ claim[c].at = "idle" /\ profile.active
    /\ claim' = [claim EXCEPT ![c] = [NotClaiming EXCEPT !.at = "read", !.seen = profile]]
    /\ UNCHANGED <<today, profile, lock, run, report, history>>

\* updateMany where id, revision and status are those that were read; it waits
\* for a transaction that has updated the row.
TakeLock(c) ==
    /\ claim[c].at \in {"read", "outdated"} /\ lock = None
    /\ IF claim[c].at = "read"
       THEN To(c, "locked") /\ lock' = c
       ELSE claim' = [claim EXCEPT ![c] = NotClaiming] /\ UNCHANGED lock
    /\ UNCHANGED <<today, profile, run, report, history>>

Written(r) == \E f \in Reports : report[f].at = "written" /\ report[f].id = r

\* RUNNING rows past their time are marked AMBIGUOUS.
MarkExpired(c) ==
    /\ claim[c].at = "locked"
    /\ LET expired == {r \in Open : run[r].status = "RUNNING" /\ run[r].late}
       IN  /\ \A r \in expired : ~Written(r)
           /\ claim' = [claim EXCEPT ![c] = [@ EXCEPT !.at = "marked", !.expired = expired]]
    /\ UNCHANGED <<today, profile, lock, run, report, history>>

\* The commit: the expired rows, the queued ones whose date is void, the revision.
Marked(c, void) ==
    [r \in Runs |-> CASE r \in claim[c].expired -> [run[r] EXCEPT !.status = "AMBIGUOUS", !.late = FALSE]
                      [] r \in void -> [run[r] EXCEPT !.status = "DONE", !.completed = TRUE]
                      [] OTHER -> run[r]]
Release(c) ==
    /\ lock' = None
    /\ claim' = Outdated([claim EXCEPT ![c] = NotClaiming])

\* The day and its counters, from the profile that was read.
Today(seen) == IF seen.day = today THEN seen ELSE [seen EXCEPT !.day = today, !.tokens = 0, !.count = 0]

Affordable(seen) ==
    /\ Today(seen).tokens + seen.terms.reserve <= seen.terms.budget
    /\ Today(seen).count < seen.terms.limit

\* Slip: a result that nobody has reconciled does not count.
NoneRunning(c) == \A r \in Runs : run[r].status = "RUNNING" => r \in claim[c].expired

\* Nothing of this seller is RUNNING or AMBIGUOUS.
NoneOpen(c) == Open = {}

Replayed(c) == \E r \in Runs : run[r].lease = c

\* The answer is a replay, or { run: null }: something is open, nothing is queued
\* that is still valid, or the day is spent.
AnswerNothingNew(c) ==
    /\ claim[c].at = "marked"
    /\ IF Replayed(c) \/ ~NoneOpen(c)
       THEN run' = Marked(c, {})
       ELSE \E void \in SUBSET Queued :
                /\ void = Queued \/ ~Affordable(claim[c].seen)
                /\ run' = Marked(c, void)
    /\ Release(c)
    /\ UNCHANGED <<today, profile, report, history>>

\* The day is computed, and the task found affordable on it ...
Choose(c) ==
    /\ claim[c].at = "marked"
    /\ ~Replayed(c) /\ NoneOpen(c) /\ Affordable(claim[c].seen)
    /\ claim' = [claim EXCEPT ![c] = [@ EXCEPT !.at = "chosen", !.day = today]]
    /\ UNCHANGED <<today, profile, lock, run, report, history>>

\* ... and the first valid row is taken, at a time that may be past midnight.
Take(c) ==
    /\ claim[c].at = "chosen"
    /\ LET seen == claim[c].seen
           same == seen.day = claim[c].day
           reserve == seen.terms.reserve
       IN  \E r \in Queued, void \in SUBSET Queued :
           /\ r \notin void
           /\ run' = [Marked(c, void) EXCEPT ![r] =
                  [@ EXCEPT !.status = "RUNNING", !.lease = c, !.day = today, !.reserved = reserve]]
           /\ profile' = [profile EXCEPT !.day = claim[c].day,
                  !.tokens = (IF same THEN seen.tokens ELSE 0) + reserve,
                  !.count = (IF same THEN seen.count ELSE 0) + 1]
           /\ booked' = [booked EXCEPT ![r] = claim[c].day]
           /\ charge' = [charge EXCEPT ![r] = reserve]
           /\ spent' = (IF profile.day = claim[c].day THEN spent ELSE 0) + reserve
           /\ unbooked' = IF profile.day = claim[c].day THEN unbooked ELSE 0
    /\ Release(c)
    /\ UNCHANGED <<today, report>>

\* An error, a deadlock, the end of the process: rolled back.
GiveUp(c) ==
    /\ claim[c].at # "idle"
    /\ claim' = [claim EXCEPT ![c] = NotClaiming]
    /\ lock' = IF lock = c THEN None ELSE lock
    /\ UNCHANGED <<today, profile, run, report, history>>

-----------------------------------------------------------------------------
(* completeRun and resolveSalesRun                                           *)

\* The first result puts the reservation right, if the day is still the day of the
\* claim: by the rows as they were read.
Books(r) == ~run[r].completed /\ run[r].day = profile.day

Begin(f, r, status, used) ==
    report' = [report EXCEPT ![f] = [at |-> "read", id |-> r, was |-> run[r].status,
                                     books |-> Books(r), status |-> status, used |-> used]]

AtLeast(used, bound) == IF used > bound THEN used ELSE bound

\* completeRun: whoever has the lease reports, late or again.  What has a result
\* is answered with it or refused, and so is a second uncertain result.  The two
\* reads are one step: while the row is open the profile keeps its day.
Complete(f, r) ==
    /\ report[f].at = "idle" /\ r \in Open
    /\ \E used \in Usage :
           \/ Begin(f, r, "DONE", used)
           \/ /\ ~run[r].completed
              /\ Begin(f, r, "AMBIGUOUS", AtLeast(used, run[r].reserved))
    /\ UNCHANGED <<today, profile, lock, run, claim, history>>

\* resolveSalesRun: a manager closes an uncertain run, with the consumption it
\* has or had reserved; both rows are read before the transaction.
Resolve(f, r) ==
    /\ report[f].at = "idle" /\ run[r].status = "AMBIGUOUS"
    /\ Begin(f, r, "DONE", IF run[r].completed THEN run[r].used ELSE run[r].reserved)
    /\ UNCHANGED <<today, profile, lock, run, claim, history>>

RowFree(f) ==
    /\ ~Written(report[f].id)
    /\ \A c \in Claims : report[f].id \notin claim[c].expired

\* Slip: the row is found by its id, whatever it holds by now.
StillAsRead(f) == TRUE

\* updateMany where status is the one that was read; it waits for the row.
Unchanged(f) == run[report[f].id].status = report[f].was

WriteResult(f) ==
    /\ report[f].at = "read" /\ RowFree(f)
    /\ report' = IF Unchanged(f) THEN [report EXCEPT ![f].at = "written"]
                 ELSE [report EXCEPT ![f] = Silent]
    /\ UNCHANGED <<today, profile, lock, run, claim, history>>

\* The counter, the message and the commit.  A result replaces the reservation in
\* the counter once; what a later one adds is on record and not booked.
CommitResult(f) ==
    /\ report[f].at = "written"
    /\ LET r == report[f].id
           used == report[f].used
           ofDay == booked[r] = profile.day
       IN  /\ run' = [run EXCEPT ![r] = [@ EXCEPT !.status = report[f].status,
                                                  !.used = used, !.completed = TRUE, !.late = FALSE]]
           /\ IF report[f].books
              THEN /\ lock = None
                   /\ profile' = [profile EXCEPT !.tokens = @ + used - run[r].reserved]
                   /\ Revised
              ELSE UNCHANGED <<profile, claim>>
           /\ charge' = [charge EXCEPT ![r] = used]
           /\ spent' = IF ofDay THEN spent + used - charge[r] ELSE spent
           /\ unbooked' = IF ofDay /\ ~report[f].books /\ used > charge[r]
                          THEN unbooked + used - charge[r] ELSE unbooked
    /\ report' = [report EXCEPT ![f] = Silent]
    /\ UNCHANGED <<today, lock, booked>>

DropReport(f) ==
    /\ report[f].at # "idle"
    /\ report' = [report EXCEPT ![f] = Silent]
    /\ UNCHANGED <<today, profile, lock, run, claim, history>>

ClaimStep(c) ==
    \/ ReadProfile(c) \/ TakeLock(c) \/ MarkExpired(c) \/ AnswerNothingNew(c)
    \/ Choose(c) \/ Take(c) \/ GiveUp(c)
ReportStep(f) ==
    \/ \E r \in Runs : Complete(f, r) \/ Resolve(f, r)
    \/ WriteResult(f) \/ CommitResult(f) \/ DropReport(f)

Next ==
    \/ \E r \in Runs : Queue(r) \/ Expire(r)
    \/ SetStatus \/ (\E terms \in Settings : Save(terms)) \/ Midnight
    \/ \E c \in Claims : ClaimStep(c)
    \/ \E f \in Reports : ReportStep(f)

Spec == Init /\ [][Next]_vars

-----------------------------------------------------------------------------
(* Properties                                                                *)

Profile == [active : BOOLEAN, day : 0..MaxDay, tokens : Int, count : Nat, terms : Terms]
Statuses == {"absent", "QUEUED", "RUNNING", "AMBIGUOUS", "DONE"}
Row == [status : Statuses,
        lease : Claims \cup {None}, day : 0..MaxDay, late : BOOLEAN,
        reserved : Nat, completed : BOOLEAN, used : Nat]

Claiming == [at : {"idle", "read", "outdated", "locked", "marked", "chosen"},
             seen : Profile, day : 0..MaxDay, expired : SUBSET Runs]
Reporting == [at : {"idle", "read", "written"}, id : Runs \cup {None}, was : Statuses,
              books : BOOLEAN, status : {"DONE", "AMBIGUOUS"}, used : Nat]

\* Every variable has its type.
TypeOK ==
    /\ today \in 1..MaxDay
    /\ profile \in Profile
    /\ lock \in Claims \cup {None}
    /\ run \in [Runs -> Row]
    /\ claim \in [Claims -> Claiming]
    /\ report \in [Reports -> Reporting]
    /\ booked \in [Runs -> 0..MaxDay]
    /\ charge \in [Runs -> Nat]
    /\ spent \in Int
    /\ unbooked \in Nat

\* A seller has one task at a time that is running or whose outcome is not known:
\* no interleaving of claims, late results and reconciliations starts a second.
OneAtATime == \A r, s \in Open : r = s

OnDay(day) == {r \in Runs : booked[r] = day}

\* A task starts only if the day can still bear its reservation, on top of what
\* the tasks of that day hold or have used, and only as one of the tasks that the
\* day may have, by the terms in force: no result that is booked and no terms that
\* are saved while a claim is under way make it overspend.  What a second, higher
\* report adds to an uncertain result is outside: finishIn records it and books
\* only while completedAt is null.
WithinTheDay ==
    [][\A r \in Queued : run'[r].status = "RUNNING" =>
          /\ spent' - unbooked' <= profile.terms.budget
          /\ Cardinality(OnDay(profile.day)') <= profile.terms.limit]_vars

\* A result that was recorded stays as it is, and a task that was given to a
\* claim is never given to another one.
ResultIsFinal ==
    [][\A r \in Runs : /\ run[r].status = "DONE" => run'[r] = run[r]
                       /\ run[r].lease # None => run'[r].lease = run[r].lease]_vars
=============================================================================
