--------------------------- MODULE SalesFleetProofs ---------------------------
(***************************************************************************)
(* Theorems about SalesFleet, for any tasks, claims, results, terms and    *)
(* number of days.                                                         *)
(***************************************************************************)
EXTENDS SalesFleet, FiniteSetTheorems, TLAPS

\* A claim whose transaction has updated the profile holds its row.
Holding == {"locked", "marked", "chosen"}
LockInv == \A c \in Claims : claim[c].at \in Holding <=> lock = c

\* What a claim works with is the profile as it is: whatever changes the profile
\* outdates the claims that have read it.
SeenInv == \A c \in Claims : claim[c].at \in Holding \cup {"read"} => claim[c].seen = profile

\* The rows a claim has marked are RUNNING, and wait for it.
ExpiredInv == \A c \in Claims :
    /\ \A r \in claim[c].expired : run[r].status = "RUNNING"
    /\ claim[c].expired # {} => claim[c].at \in {"marked", "chosen"}

\* A queued task is new.
FreshInv == \A r \in Runs :
    run[r].status \in {"absent", "QUEUED"} => run[r].lease = None /\ booked[r] = 0 /\ ~run[r].completed

IsOpen(r) == run[r].status \in {"RUNNING", "AMBIGUOUS"}

\* A result is of a task that was claimed; while it is written its row is kept.
ReportInv == \A f \in Reports : report[f].at # "idle" =>
    /\ report[f].id \in Runs
    /\ run[report[f].id].status \notin {"absent", "QUEUED"}
    /\ report[f].was \in {"RUNNING", "AMBIGUOUS"}
    /\ report[f].status = "AMBIGUOUS" => report[f].used >= run[report[f].id].reserved
    /\ report[f].at = "written" =>
          /\ run[report[f].id].status = report[f].was
          /\ \A g \in Reports : report[g].at = "written" /\ report[g].id = report[f].id => f = g
          /\ \A c \in Claims : report[f].id \notin claim[c].expired

\* What was found for a task that is about to start still holds.
ChosenInv == \A c \in Claims : claim[c].at = "chosen" =>
    /\ \A r \in Runs : ~IsOpen(r)
    /\ profile.day <= claim[c].day /\ claim[c].day \in 1..today
    /\ (IF profile.day = claim[c].day THEN profile.tokens ELSE 0) + profile.terms.reserve <= profile.terms.budget
    /\ (IF profile.day = claim[c].day THEN profile.count ELSE 0) < profile.terms.limit
    /\ profile.day = claim[c].day => spent - unbooked <= profile.tokens

\* An open task is booked on the day of the profile, in full until its first result.
BookedInv ==
    /\ profile.day <= today
    /\ \A r \in Runs : booked[r] <= profile.day
    /\ \A r \in Runs : IsOpen(r) =>
          /\ booked[r] = profile.day
          /\ booked[r] <= run[r].day /\ run[r].day <= today
          /\ ~run[r].completed => charge[r] = run[r].reserved
          /\ run[r].completed => charge[r] >= run[r].reserved /\ run[r].status = "AMBIGUOUS"
    /\ \A f \in Reports : report[f].at # "idle" /\ IsOpen(report[f].id)
                            /\ ~run[report[f].id].completed /\ ~report[f].books
                              => run[report[f].id].day # profile.day

\* The counters cover the tasks of the day, but for what a second report has added.
CountInv ==
    /\ profile.day = today => spent - unbooked <= profile.tokens
    /\ profile.count = IF profile.day = 0 THEN 0 ELSE Cardinality(OnDay(profile.day))

Control == TypeOK /\ LockInv /\ ExpiredInv /\ FreshInv /\ ReportInv /\ OneAtATime
Money == SeenInv /\ ChosenInv /\ BookedInv /\ CountInv
IInv == Control /\ Money

-----------------------------------------------------------------------------
LEMMA Blank ==
    /\ Absent \in Row
    /\ \A terms \in Settings : NewProfile(terms) \in Profile
    /\ NotClaiming \in Claiming
    /\ Silent \in Reporting
  BY FleetAssumption DEF Absent, NewProfile, NotRead, NotClaiming, Silent, Row, Statuses, Profile,
                         Terms, Claiming, Reporting

\* What the update of the profile does to the claims.
LEMMA OutdatedClaims ==
    ASSUME NEW claims \in [Claims -> Claiming]
    PROVE  /\ Outdated(claims) \in [Claims -> Claiming]
           /\ \A c \in Claims :
                /\ claims[c].at # "read" => Outdated(claims)[c] = claims[c]
                /\ claims[c].at = "read" => Outdated(claims)[c] = [NotClaiming EXCEPT !.at = "outdated"]
  BY Blank DEF Outdated, Claiming, NotClaiming

\* Nothing is claimed, reported or booked at the start.
LEMMA InitEstablishes == Init => IInv
<1> SUFFICES ASSUME Init PROVE IInv
  OBVIOUS
<1> USE FleetAssumption
<1>1. TypeOK
  <2>1. profile \in Profile
    BY Blank DEF Init
  <2>2. claim \in [Claims -> Claiming]
    BY Blank DEF Init
  <2>3. run \in [Runs -> Row]
    BY Blank DEF Init
  <2> QED BY <2>1, <2>2, <2>3, Blank DEF Init, TypeOK
<1>2. /\ profile.day = 0 /\ profile.count = 0 /\ profile.tokens = 0
      /\ \A c \in Claims : claim[c].at = "idle" /\ claim[c].expired = {}
      /\ \A f \in Reports : report[f].at = "idle"
      /\ \A r \in Runs : run[r].status = "absent" /\ run[r].lease = None /\ ~run[r].completed
  BY DEF Init, NewProfile, NotClaiming, Silent, Absent
<1>3. LockInv /\ SeenInv /\ ExpiredInv /\ FreshInv /\ ReportInv
  BY <1>2 DEF Init, LockInv, SeenInv, ExpiredInv, FreshInv, ReportInv, Holding
<1>4. OneAtATime /\ ChosenInv /\ BookedInv /\ CountInv
  BY <1>2 DEF Init, OneAtATime, Open, ChosenInv, BookedInv, CountInv, IsOpen
<1> QED BY <1>1, <1>3, <1>4 DEF IInv, Control, Money

-----------------------------------------------------------------------------
(* The owner, and time                                                       *)

\* A new task is queued.
LEMMA QueueKeeps ==
    ASSUME IInv, NEW r \in Runs, Queue(r)
    PROVE  IInv'
<1> USE FleetAssumption DEF IInv, Control, Money, history
<1>1. TypeOK'
  <2>1. run'[r] \in Row
    BY DEF TypeOK, Queue, Row, Statuses
  <2> QED BY <2>1 DEF TypeOK, Queue
<1>2. LockInv' /\ SeenInv' /\ ExpiredInv'
  BY DEF Queue, TypeOK, LockInv, SeenInv, ExpiredInv, Holding, Absent
<1>3. FreshInv' /\ OneAtATime'
  BY DEF Queue, TypeOK, FreshInv, OneAtATime, Open, Absent
<1>4. ReportInv'
  BY DEF Queue, TypeOK, ReportInv, Absent
<1>5. ChosenInv' /\ BookedInv'
  BY DEF Queue, TypeOK, ChosenInv, BookedInv, IsOpen, Absent
<1>6. CountInv'
  BY DEF Queue, TypeOK, CountInv, OnDay, Absent
<1> QED BY <1>1, <1>2, <1>3, <1>4, <1>5, <1>6

\* The profile changes while nobody holds its row: what claims have read of it is
\* outdated, and no task starts.
LEMMA ProfileChanges ==
    ASSUME IInv, lock = None, Revised, profile' \in Profile,
           profile'.day = profile.day, profile'.tokens = profile.tokens,
           profile'.count = profile.count, UNCHANGED <<today, lock, run, report, history>>
    PROVE  IInv'
<1> USE FleetAssumption DEF IInv, Control, Money, history
<1>1. /\ claim' \in [Claims -> Claiming]
      /\ \A c \in Claims : \/ claim[c].at # "read" /\ claim'[c] = claim[c]
                           \/ claim'[c] = [NotClaiming EXCEPT !.at = "outdated"]
  BY OutdatedClaims DEF TypeOK, Revised
<1>2. \A c \in Claims : claim[c].at \notin Holding
  BY DEF LockInv
<1>3. \A c \in Claims : /\ claim'[c].at \notin Holding \cup {"read"}
                        /\ claim'[c].expired = {}
  BY <1>1, <1>2 DEF NotClaiming, Holding, ExpiredInv
<1>4. TypeOK'
  BY <1>1 DEF TypeOK
<1>5. LockInv' /\ SeenInv' /\ ExpiredInv'
  BY <1>3 DEF LockInv, SeenInv, ExpiredInv
<1>6. FreshInv' /\ OneAtATime' /\ ReportInv'
  BY <1>3 DEF FreshInv, OneAtATime, Open, ReportInv
<1>7. ChosenInv'
  BY <1>3 DEF ChosenInv, Holding
<1>8. BookedInv' /\ CountInv'
  BY DEF BookedInv, CountInv, IsOpen, OnDay
<1> QED BY <1>4, <1>5, <1>6, <1>7, <1>8

LEMMA SetStatusKeeps ==
    ASSUME IInv, SetStatus
    PROVE  IInv'
<1>1. profile' \in Profile /\ profile' = [profile EXCEPT !.active = ~@]
  BY DEF SetStatus, IInv, Control, TypeOK, Profile
<1> QED BY <1>1, ProfileChanges DEF SetStatus, Profile

LEMMA SaveKeeps ==
    ASSUME IInv, NEW terms \in Settings, Save(terms)
    PROVE  IInv'
<1>1. profile' \in Profile /\ profile' = [profile EXCEPT !.terms = terms]
  BY FleetAssumption DEF Save, IInv, Control, TypeOK, Profile
<1>2. profile \in Profile
  BY DEF IInv, Control, TypeOK
<1> QED BY <1>1, <1>2, ProfileChanges DEF Save, Profile

\* A task runs out of its time.
LEMMA ExpireKeeps ==
    ASSUME IInv, NEW r \in Runs, Expire(r)
    PROVE  IInv'
<1> USE FleetAssumption DEF IInv, Control, Money, history
<1>1. TypeOK'
  <2>1. run'[r] \in Row
    BY DEF TypeOK, Expire, Row, Statuses
  <2> QED BY <2>1 DEF TypeOK, Expire
<1>2. LockInv' /\ SeenInv' /\ ExpiredInv'
  BY DEF Expire, TypeOK, LockInv, SeenInv, ExpiredInv, Holding
<1>3. FreshInv' /\ OneAtATime'
  BY DEF Expire, TypeOK, FreshInv, OneAtATime, Open
<1>4. ReportInv'
  BY DEF Expire, TypeOK, ReportInv
<1>5. ChosenInv' /\ BookedInv'
  BY DEF Expire, TypeOK, ChosenInv, BookedInv, IsOpen
<1>6. CountInv'
  BY DEF Expire, TypeOK, CountInv, OnDay
<1> QED BY <1>1, <1>2, <1>3, <1>4, <1>5, <1>6

\* A new day: the counters are those of the day before.
LEMMA MidnightKeeps ==
    ASSUME IInv, Midnight
    PROVE  IInv'
<1> USE FleetAssumption DEF IInv, Control, Money, history
<1>1. TypeOK'
  BY DEF TypeOK, Midnight
<1>2. LockInv' /\ SeenInv' /\ ExpiredInv'
  BY DEF Midnight, TypeOK, LockInv, SeenInv, ExpiredInv, Holding
<1>3. FreshInv' /\ OneAtATime'
  BY DEF Midnight, TypeOK, FreshInv, OneAtATime, Open
<1>4. ReportInv'
  BY DEF Midnight, TypeOK, ReportInv
<1>5. ChosenInv'
  BY DEF Midnight, TypeOK, ChosenInv, IsOpen
<1>6. BookedInv'
  BY DEF Midnight, TypeOK, BookedInv, IsOpen, Row, Profile
<1>7. CountInv'
  <2>1. profile.day < today'
    BY DEF Midnight, TypeOK, BookedInv, Profile
  <2> QED BY <2>1 DEF Midnight, TypeOK, CountInv, OnDay, Profile
<1> QED BY <1>1, <1>2, <1>3, <1>4, <1>5, <1>6, <1>7

-----------------------------------------------------------------------------
(* claimRun                                                                  *)

\* A claim reads the profile.
LEMMA ReadProfileKeeps ==
    ASSUME IInv, NEW c \in Claims, ReadProfile(c)
    PROVE  IInv'
<1> USE FleetAssumption DEF IInv, Control, Money, history
<1>1. TypeOK'
  <2>1. claim'[c] \in Claiming
    BY Blank DEF TypeOK, ReadProfile, Claiming, NotClaiming
  <2> QED BY <2>1 DEF TypeOK, ReadProfile
<1>2. LockInv' /\ SeenInv' /\ ExpiredInv'
  BY DEF ReadProfile, TypeOK, LockInv, SeenInv, ExpiredInv, Holding, NotClaiming
<1>3. FreshInv' /\ OneAtATime'
  BY DEF ReadProfile, TypeOK, FreshInv, OneAtATime, Open, NotClaiming
<1>4. ReportInv'
  BY DEF ReadProfile, TypeOK, ReportInv, NotClaiming
<1>5. ChosenInv' /\ BookedInv'
  BY DEF ReadProfile, TypeOK, ChosenInv, BookedInv, IsOpen, NotClaiming
<1>6. CountInv'
  BY DEF ReadProfile, TypeOK, CountInv, OnDay, NotClaiming
<1> QED BY <1>1, <1>2, <1>3, <1>4, <1>5, <1>6

\* A claim that has read what still is takes the row.
LEMMA TakeLockKeeps ==
    ASSUME IInv, NEW c \in Claims, TakeLock(c)
    PROVE  IInv'
<1> USE FleetAssumption DEF IInv, Control, Money, history
<1>1. /\ claim' \in [Claims -> Claiming]
      /\ \A d \in Claims \ {c} : claim'[d] = claim[d]
      /\ claim[c].at \in {"read", "outdated"} /\ lock = None
      /\ \/ /\ claim[c].at = "read" /\ claim'[c] = [claim[c] EXCEPT !.at = "locked"] /\ lock' = c
         \/ claim'[c] = NotClaiming /\ lock' = lock
      /\ UNCHANGED <<today, profile, run, report, booked, charge, spent, unbooked>>
  BY Blank DEF TypeOK, TakeLock, To, Claiming
<1>2. TypeOK'
  BY <1>1 DEF TypeOK
<1>3. claim[c].expired = {}
  BY <1>1 DEF ExpiredInv
<1>4. claim'[c].expired = {} /\ claim'[c].at \in {"locked", "idle"}
  BY <1>1, <1>3 DEF NotClaiming, TypeOK, Claiming
<1>5. LockInv' /\ SeenInv'
  <2>1. \/ claim'[c].at = "locked" /\ claim'[c].seen = profile /\ lock' = c
        \/ claim'[c].at = "idle" /\ lock' = None
    BY <1>1 DEF NotClaiming, SeenInv, TypeOK, Claiming
  <2>2. \A d \in Claims : claim[d].at \notin Holding
    BY <1>1 DEF LockInv
  <2> QED BY <1>1, <2>1, <2>2 DEF LockInv, SeenInv, Holding
<1>6. ExpiredInv' /\ FreshInv' /\ OneAtATime'
  BY <1>1, <1>4 DEF ExpiredInv, FreshInv, OneAtATime, Open
<1>7. ReportInv'
  BY <1>1, <1>4 DEF ReportInv
<1>8. ChosenInv'
  BY <1>1, <1>4 DEF ChosenInv, IsOpen
<1>9. BookedInv' /\ CountInv'
  BY <1>1 DEF BookedInv, CountInv, IsOpen, OnDay
<1> QED BY <1>2, <1>5, <1>6, <1>7, <1>8, <1>9

\* The rows past their time are marked.
LEMMA MarkExpiredKeeps ==
    ASSUME IInv, NEW c \in Claims, MarkExpired(c)
    PROVE  IInv'
<1> USE FleetAssumption DEF IInv, Control, Money, history
<1>1. TypeOK'
  <2>1. claim'[c] \in Claiming
    BY Blank DEF TypeOK, MarkExpired, Claiming, Open, Written
  <2> QED BY <2>1 DEF TypeOK, MarkExpired, Open, Written
<1>2. LockInv' /\ SeenInv' /\ ExpiredInv'
  BY DEF MarkExpired, TypeOK, LockInv, SeenInv, ExpiredInv, Holding, Open, Written
<1>3. FreshInv' /\ OneAtATime'
  BY DEF MarkExpired, TypeOK, FreshInv, OneAtATime, Open, Open, Written
<1>4. ReportInv'
  BY DEF MarkExpired, TypeOK, ReportInv, Open, Written
<1>5. ChosenInv' /\ BookedInv'
  BY DEF MarkExpired, TypeOK, ChosenInv, BookedInv, IsOpen, Open, Written
<1>6. CountInv'
  BY DEF MarkExpired, TypeOK, CountInv, OnDay, Open, Written
<1> QED BY <1>1, <1>2, <1>3, <1>4, <1>5, <1>6

\* A task is found affordable.
LEMMA ChooseKeeps ==
    ASSUME IInv, NEW c \in Claims, Choose(c)
    PROVE  IInv'
<1> USE FleetAssumption DEF IInv, Control, Money, history
<1>1. TypeOK'
  <2>1. claim'[c] \in Claiming
    <3>1. /\ claim[c] \in Claiming /\ today \in 0..MaxDay
          /\ claim'[c] = [claim[c] EXCEPT !.at = "chosen", !.day = today]
      BY DEF TypeOK, Choose
    <3> QED BY <3>1 DEF Claiming
  <2> QED BY <2>1 DEF TypeOK, Choose
<1>2. LockInv' /\ SeenInv' /\ ExpiredInv'
  BY DEF Choose, TypeOK, LockInv, SeenInv, ExpiredInv, Holding, Affordable, Today, NoneOpen, Open, Replayed
<1>3. FreshInv' /\ OneAtATime'
  BY DEF Choose, TypeOK, FreshInv, OneAtATime, Open, Affordable, Today, NoneOpen, Open, Replayed
<1>4. ReportInv'
  BY DEF Choose, TypeOK, ReportInv, Affordable, Today, NoneOpen, Open, Replayed
<1>5. ChosenInv'
  <2>1. /\ claim'[c].at = "chosen" /\ claim'[c].day = today
        /\ \A d \in Claims \ {c} : claim'[d] = claim[d]
        /\ UNCHANGED <<profile, run, today, spent, unbooked>>
    BY DEF Choose, TypeOK, Claiming
  <2>2. \A r \in Runs : ~IsOpen(r)
    BY DEF Choose, NoneOpen, Open, IsOpen
  <2>3. profile.day <= today /\ today \in 1..today
    BY DEF BookedInv, TypeOK
  <2>4. claim[c].seen = profile /\ profile \in Profile
    BY DEF Choose, SeenInv, Holding, TypeOK
  <2>5. /\ (IF profile.day = today THEN profile.tokens ELSE 0) + profile.terms.reserve <= profile.terms.budget
        /\ (IF profile.day = today THEN profile.count ELSE 0) < profile.terms.limit
    BY <2>4 DEF Choose, Affordable, Today, Profile
  <2>6. profile.day = today => spent - unbooked <= profile.tokens
    BY DEF CountInv
  <2> QED BY <2>1, <2>2, <2>3, <2>5, <2>6 DEF ChosenInv, IsOpen
<1>7. BookedInv'
  BY DEF Choose, TypeOK, BookedInv, IsOpen
<1>6. CountInv'
  BY DEF Choose, TypeOK, CountInv, OnDay, Affordable, Today, NoneOpen, Open, Replayed
<1> QED BY <1>1, <1>2, <1>3, <1>4, <1>5, <1>6, <1>7

\* The end of a claim: no claim holds the row, none has read the profile as it is.
LEMMA ReleasedClaims ==
    ASSUME IInv, NEW c \in Claims, claim[c].at \in {"marked", "chosen"}, Release(c)
    PROVE  /\ lock = c /\ lock' = None /\ claim' \in [Claims -> Claiming]
           /\ \A d \in Claims : claim'[d].at \notin Holding \cup {"read"} /\ claim'[d].expired = {}
<1> USE DEF IInv, Control
<1> DEFINE released == [claim EXCEPT ![c] = NotClaiming]
<1>1. released \in [Claims -> Claiming]
  BY Blank DEF TypeOK
<1>2. \A d \in Claims : \/ released[d].at # "read" /\ claim'[d] = released[d]
                        \/ claim'[d] = [NotClaiming EXCEPT !.at = "outdated"]
  BY <1>1, OutdatedClaims DEF Release
<1>3. lock = c /\ \A d \in Claims \ {c} : claim[d].at \notin Holding
  BY DEF LockInv, Holding
<1>4. \A d \in Claims : released[d].at \notin Holding /\ (released[d].at # "read" => released[d].expired = {})
  BY <1>3 DEF NotClaiming, TypeOK, Claiming, ExpiredInv, Holding
<1>5. claim' \in [Claims -> Claiming] /\ lock' = None
  BY <1>1, OutdatedClaims DEF Release
<1> QED BY <1>2, <1>3, <1>4, <1>5 DEF NotClaiming, Holding

\* What a claim does to the rows besides the task it takes.
RowsMarked(c, void) ==
    /\ Marked(c, void) \in [Runs -> Row]
    /\ \A r \in Runs :
         \/ /\ r \in claim[c].expired /\ run[r].status = "RUNNING"
            /\ Marked(c, void)[r] = [run[r] EXCEPT !.status = "AMBIGUOUS", !.late = FALSE]
         \/ /\ r \in void /\ run[r].status = "QUEUED"
            /\ Marked(c, void)[r] = [run[r] EXCEPT !.status = "DONE", !.completed = TRUE]
         \/ /\ r \notin claim[c].expired /\ r \notin void
            /\ Marked(c, void)[r] = run[r]

LEMMA MarkedRows ==
    ASSUME IInv, NEW c \in Claims, claim[c].at \in {"marked", "chosen"},
           NEW void \in SUBSET Queued
    PROVE  RowsMarked(c, void)
<1> USE DEF IInv, Control
<1>1. /\ \A r \in claim[c].expired : r \in Runs /\ run[r].status = "RUNNING"
      /\ \A r \in void : r \in Runs /\ run[r].status = "QUEUED"
  BY DEF ExpiredInv, Queued, TypeOK, Claiming
<1>2. \A r \in Runs : run[r] \in Row
  BY DEF TypeOK
<1> QED BY <1>1, <1>2 DEF RowsMarked, Marked, Row, Statuses

\* A claim that starts nothing commits what it has marked.
LEMMA AnswerKeeps ==
    ASSUME IInv, NEW c \in Claims, AnswerNothingNew(c)
    PROVE  IInv'
<1> USE FleetAssumption DEF history
<1>0. /\ TypeOK /\ LockInv /\ ExpiredInv /\ FreshInv /\ ReportInv /\ OneAtATime
      /\ SeenInv /\ ChosenInv /\ BookedInv /\ CountInv
  BY DEF IInv, Control, Money
<1>1. PICK void \in SUBSET Queued : run' = Marked(c, void)
  BY <1>0 DEF AnswerNothingNew
<1>2. claim[c].at = "marked" /\ Release(c) /\ UNCHANGED <<today, profile, report, booked, charge, spent, unbooked>>
  BY <1>0 DEF AnswerNothingNew
<1>3. /\ lock = c /\ lock' = None /\ claim' \in [Claims -> Claiming]
      /\ \A d \in Claims : claim'[d].at \notin Holding \cup {"read"} /\ claim'[d].expired = {}
  BY <1>0, <1>2, ReleasedClaims
<1>4. /\ run' \in [Runs -> Row]
      /\ \A r \in Runs :
           \/ /\ r \in claim[c].expired /\ run[r].status = "RUNNING"
              /\ run'[r] = [run[r] EXCEPT !.status = "AMBIGUOUS", !.late = FALSE]
           \/ /\ r \in void /\ run[r].status = "QUEUED"
              /\ run'[r] = [run[r] EXCEPT !.status = "DONE", !.completed = TRUE]
           \/ r \notin claim[c].expired /\ r \notin void /\ run'[r] = run[r]
  <2>1. claim[c].at \in {"marked", "chosen"}
    BY <1>2
  <2>2. RowsMarked(c, void)
    BY <2>1, MarkedRows, Zenon
  <2> QED BY <1>1, <2>2, Zenon DEF RowsMarked
<1>5. \A r \in Runs :
         /\ run'[r].status \in {"absent", "QUEUED"} => run'[r] = run[r]
         /\ run'[r].status \in {"RUNNING", "AMBIGUOUS"} <=> IsOpen(r)
         /\ run'[r].reserved = run[r].reserved
         /\ IsOpen(r) => /\ run'[r].day = run[r].day /\ run'[r].completed = run[r].completed
                         /\ run'[r].status \in {run[r].status, "AMBIGUOUS"}
         /\ run[r].status \notin {"absent", "QUEUED"} => run'[r].status \notin {"absent", "QUEUED"}
         /\ r \notin claim[c].expired /\ IsOpen(r) => run'[r] = run[r]
  <2> TAKE r \in Runs
  <2>1. run[r] \in Row
    BY <1>0 DEF TypeOK
  <2>2. CASE r \in claim[c].expired /\ run[r].status = "RUNNING"
    BY <1>0, <1>4, <2>1, <2>2 DEF IsOpen, Row, Queued
  <2>3. CASE r \in void /\ run[r].status = "QUEUED"
    BY <1>0, <1>4, <2>1, <2>3 DEF IsOpen, Row
  <2>4. CASE run'[r] = run[r]
    BY <2>1, <2>4 DEF IsOpen
  <2> QED BY <1>4, <2>2, <2>3, <2>4
<1>6. TypeOK'
  BY <1>0, <1>2, <1>3, <1>4 DEF TypeOK
<1>7. LockInv' /\ SeenInv' /\ ExpiredInv' /\ ChosenInv'
  BY <1>0, <1>3 DEF LockInv, SeenInv, ExpiredInv, ChosenInv, Holding
<1>8. FreshInv' /\ OneAtATime'
  BY <1>0, <1>2, <1>5 DEF FreshInv, OneAtATime, Open, IsOpen
<1>9. ReportInv'
  BY <1>0, <1>2, <1>3, <1>5 DEF ReportInv, IsOpen
<1>10. BookedInv' /\ CountInv'
  BY <1>0, <1>2, <1>5 DEF BookedInv, CountInv, OnDay, IsOpen, ReportInv
<1> QED BY <1>6, <1>7, <1>8, <1>9, <1>10 DEF IInv, Control, Money

\* What the start of a task finds and leaves: it is the only one that is open, and
\* is booked on the day that the claim has computed.
LEMMA TakeFacts ==
    ASSUME IInv, NEW c \in Claims, Take(c)
    PROVE  \E r \in Runs :
           /\ run[r].status = "QUEUED"
           /\ run' \in [Runs -> Row] /\ run'[r] = [run[r] EXCEPT !.status = "RUNNING", !.lease = c, !.day = today,
                                         !.reserved = profile.terms.reserve]
           /\ \A s \in Runs \ {r} : \/ run'[s] = run[s] /\ ~IsOpen(s)
                                    \/ run[s].status = "QUEUED" /\ run'[s].status = "DONE" /\ run'[s].lease = run[s].lease
           /\ profile' \in Profile /\ profile'.day = claim[c].day /\ profile'.terms = profile.terms
           /\ profile'.tokens = (IF profile.day = claim[c].day THEN profile.tokens ELSE 0) + profile.terms.reserve
           /\ profile'.count = (IF profile.day = claim[c].day THEN profile.count ELSE 0) + 1
           /\ booked' = [booked EXCEPT ![r] = claim[c].day] /\ charge' = [charge EXCEPT ![r] = profile.terms.reserve]
           /\ spent' = (IF profile.day = claim[c].day THEN spent ELSE 0) + profile.terms.reserve
           /\ unbooked' = IF profile.day = claim[c].day THEN unbooked ELSE 0
           /\ UNCHANGED <<today, report>>
<1> USE FleetAssumption
<1>0. /\ TypeOK /\ LockInv /\ ExpiredInv /\ FreshInv /\ ReportInv /\ OneAtATime
      /\ SeenInv /\ ChosenInv /\ BookedInv /\ CountInv
  BY DEF IInv, Control, Money
<1>9. claim[c].seen = profile /\ profile.terms \in Terms
  BY <1>0 DEF Take, SeenInv, Holding, TypeOK, Profile
<1>1. PICK r \in Queued, void \in SUBSET Queued :
         /\ r \notin void
         /\ run' = [Marked(c, void) EXCEPT ![r] = [@ EXCEPT !.status = "RUNNING", !.lease = c, !.day = today,
                                         !.reserved = profile.terms.reserve]]
         /\ booked' = [booked EXCEPT ![r] = claim[c].day] /\ charge' = [charge EXCEPT ![r] = profile.terms.reserve]
         /\ profile' = [profile EXCEPT !.day = claim[c].day,
                  !.tokens = (IF claim[c].seen.day = claim[c].day THEN claim[c].seen.tokens ELSE 0) + profile.terms.reserve,
                  !.count = (IF claim[c].seen.day = claim[c].day THEN claim[c].seen.count ELSE 0) + 1]
         /\ spent' = (IF profile.day = claim[c].day THEN spent ELSE 0) + profile.terms.reserve
         /\ unbooked' = IF profile.day = claim[c].day THEN unbooked ELSE 0
  BY <1>0, <1>9 DEF Take
<1>2. /\ claim[c].at = "chosen" /\ claim[c].seen = profile
      /\ \A s \in Runs : ~IsOpen(s)
  BY <1>0 DEF Take, SeenInv, ChosenInv, Holding
<1>3. r \in Runs /\ run[r].status = "QUEUED" /\ \A s \in void : run[s].status = "QUEUED"
  BY <1>0 DEF Queued
<1>4. /\ Marked(c, void) \in [Runs -> Row]
      /\ \A s \in Runs :
           \/ s \in void /\ Marked(c, void)[s] = [run[s] EXCEPT !.status = "DONE", !.completed = TRUE]
           \/ s \notin void /\ Marked(c, void)[s] = run[s]
  <2>1. claim[c].expired = {}
    BY <1>0, <1>2 DEF ExpiredInv, IsOpen, TypeOK, Claiming
  <2>2. claim[c].at \in {"marked", "chosen"}
    BY <1>2
  <2>3. RowsMarked(c, void)
    BY <2>2, MarkedRows, Zenon
  <2> QED BY <2>1, <2>3, Zenon DEF RowsMarked
<1>5. /\ run'[r] = [run[r] EXCEPT !.status = "RUNNING", !.lease = c, !.day = today,
                                         !.reserved = profile.terms.reserve]
      /\ \A s \in Runs \ {r} : run'[s] = Marked(c, void)[s]
  BY <1>0, <1>1, <1>3, <1>4
<1>6. run'[r] \in Row /\ run' \in [Runs -> Row]
  <2>1. run[r] \in Row /\ today \in 0..MaxDay /\ profile.terms.reserve \in Nat
    BY <1>0, <1>3, <1>9 DEF TypeOK, Terms
  <2>2. run'[r] \in Row
    BY <1>5, <2>1 DEF Row, Statuses
  <2> QED BY <1>1, <1>4, <1>5, <2>2
<1>7. profile' \in Profile /\ profile'.day = claim[c].day /\ profile'.terms = profile.terms
      /\ profile'.tokens = (IF profile.day = claim[c].day THEN profile.tokens ELSE 0) + profile.terms.reserve
      /\ profile'.count = (IF profile.day = claim[c].day THEN profile.count ELSE 0) + 1
  <2>1. profile \in Profile /\ claim[c].day \in 0..MaxDay
    BY <1>0 DEF TypeOK, Claiming
  <2>2. profile.tokens \in Int /\ profile.count \in Nat /\ profile.terms \in Terms
        /\ profile.terms.reserve \in Nat
        /\ profile.active \in BOOLEAN /\ profile.day \in 0..MaxDay
    BY <2>1 DEF Profile, Terms
  <2>3. profile.tokens = claim[c].seen.tokens /\ profile.count = claim[c].seen.count
        /\ profile.day = claim[c].seen.day
    BY <1>2
  <2> DEFINE same == profile.day = claim[c].day
             tokens == (IF same THEN profile.tokens ELSE 0) + profile.terms.reserve
             count == (IF same THEN profile.count ELSE 0) + 1
  <2>4. profile' = [profile EXCEPT !.day = claim[c].day, !.tokens = tokens, !.count = count]
    BY <1>1, <2>3
  <2>5. tokens \in Int /\ count \in Nat
    <3>1. CASE same
      BY <1>2, <2>2, <3>1
    <3>2. CASE ~same
      BY <2>2, <3>2
    <3> QED BY <3>1, <3>2
  <2> HIDE DEF tokens, count
  <2>6. /\ profile'.day = claim[c].day /\ profile'.terms = profile.terms
        /\ profile'.tokens = tokens /\ profile'.count = count /\ profile' \in Profile
    BY <2>1, <2>2, <2>4, <2>5 DEF Profile
  <2> QED BY <2>6 DEF tokens, count
<1>8. \A s \in Runs \ {r} : \/ run'[s] = run[s] /\ ~IsOpen(s)
                            \/ run[s].status = "QUEUED" /\ run'[s].status = "DONE" /\ run'[s].lease = run[s].lease
  <2> TAKE s \in Runs \ {r}
  <2>1. run[s] \in Row /\ run'[s] = Marked(c, void)[s]
    BY <1>0, <1>5 DEF TypeOK
  <2>2. CASE s \in void
    <3>1. run'[s] = [run[s] EXCEPT !.status = "DONE", !.completed = TRUE]
      BY <1>4, <2>1, <2>2
    <3> QED BY <1>3, <2>1, <2>2, <3>1 DEF Row
  <2>3. CASE s \notin void
    BY <1>2, <1>4, <2>1, <2>3
  <2> QED BY <2>2, <2>3
<1> QED BY <1>0, <1>1, <1>3, <1>5, <1>6, <1>7, <1>8 DEF Take

\* A task is started.
LEMMA TakeKeeps ==
    ASSUME IInv, NEW c \in Claims, Take(c)
    PROVE  IInv'
<1> USE FleetAssumption
<1>0. /\ TypeOK /\ LockInv /\ ExpiredInv /\ FreshInv /\ ReportInv /\ OneAtATime
      /\ SeenInv /\ ChosenInv /\ BookedInv /\ CountInv
  BY DEF IInv, Control, Money
<1>1. PICK r \in Runs :
         /\ run[r].status = "QUEUED"
         /\ run' \in [Runs -> Row] /\ run'[r] = [run[r] EXCEPT !.status = "RUNNING", !.lease = c, !.day = today,
                                         !.reserved = profile.terms.reserve]
         /\ \A s \in Runs \ {r} : \/ run'[s] = run[s] /\ ~IsOpen(s)
                                  \/ run[s].status = "QUEUED" /\ run'[s].status = "DONE" /\ run'[s].lease = run[s].lease
         /\ profile' \in Profile /\ profile'.day = claim[c].day /\ profile'.terms = profile.terms
         /\ profile'.tokens = (IF profile.day = claim[c].day THEN profile.tokens ELSE 0) + profile.terms.reserve
         /\ profile'.count = (IF profile.day = claim[c].day THEN profile.count ELSE 0) + 1
         /\ booked' = [booked EXCEPT ![r] = claim[c].day] /\ charge' = [charge EXCEPT ![r] = profile.terms.reserve]
         /\ spent' = (IF profile.day = claim[c].day THEN spent ELSE 0) + profile.terms.reserve
         /\ unbooked' = IF profile.day = claim[c].day THEN unbooked ELSE 0
         /\ UNCHANGED <<today, report>>
  BY TakeFacts
<1>2. /\ lock' = None /\ claim' \in [Claims -> Claiming]
      /\ \A d \in Claims : claim'[d].at \notin Holding \cup {"read"} /\ claim'[d].expired = {}
  BY ReleasedClaims DEF Take
<1>3. /\ profile.day <= claim[c].day /\ claim[c].day \in 1..today
      /\ profile.day = claim[c].day => spent - unbooked <= profile.tokens
      /\ claim[c].day \in 0..MaxDay /\ profile.day \in 0..MaxDay
      /\ profile.terms.reserve \in Nat /\ spent \in Int /\ unbooked \in Nat /\ profile.tokens \in Int
  BY <1>0 DEF Take, ChosenInv, TypeOK, Claiming, Profile, Terms
<1>4. TypeOK'
  BY <1>0, <1>1, <1>2, <1>3 DEF TypeOK
<1>5. LockInv' /\ SeenInv' /\ ExpiredInv' /\ ChosenInv'
  BY <1>0, <1>2 DEF LockInv, SeenInv, ExpiredInv, ChosenInv, Holding
<1>6. /\ run'[r].status = "RUNNING" /\ run'[r].day = today /\ run'[r].completed = run[r].completed
      /\ \A s \in Runs \ {r} : run'[s].status \notin {"RUNNING", "AMBIGUOUS"}
  BY <1>0, <1>1 DEF TypeOK, Row, IsOpen
<1>7. FreshInv' /\ OneAtATime'
  <2>1. FreshInv'
    <3> SUFFICES ASSUME NEW s \in Runs, run'[s].status \in {"absent", "QUEUED"}
                 PROVE  run'[s].lease = None /\ booked'[s] = 0 /\ ~run'[s].completed
      BY DEF FreshInv
    <3>1. s # r
      BY <1>6
    <3>2. run'[s] = run[s]
      BY <1>1, <3>1
    <3>3. booked'[s] = booked[s]
      BY <1>0, <1>1, <3>1 DEF TypeOK
    <3> QED BY <1>0, <3>2, <3>3 DEF FreshInv
  <2>2. OneAtATime'
    BY <1>6 DEF OneAtATime, Open
  <2> QED BY <2>1, <2>2
<1>8. ReportInv'
  BY <1>0, <1>1, <1>2, <1>6 DEF ReportInv, IsOpen
<1>9. BookedInv'
  <2>1. booked'[r] = claim[c].day /\ charge'[r] = run'[r].reserved /\ ~run'[r].completed
    BY <1>0, <1>1, <1>6 DEF FreshInv, TypeOK
  <2>2. \A s \in Runs : booked'[s] <= profile'.day
    BY <1>0, <1>1, <1>3, <2>1 DEF BookedInv, TypeOK
  <2>3. \A f \in Reports : report'[f].at # "idle" => report'[f].id # r
    BY <1>0, <1>1 DEF ReportInv
  <2>4. profile'.day <= today' /\ booked'[r] <= run'[r].day /\ run'[r].day <= today'
    BY <1>0, <1>1, <1>3, <1>6, <2>1 DEF TypeOK
  <2> QED BY <1>0, <1>1, <1>6, <2>1, <2>2, <2>3, <2>4 DEF BookedInv, IsOpen, ReportInv
<1>10. CountInv'
  <2>1. profile'.day = today' => spent' - unbooked' <= profile'.tokens
    BY <1>0, <1>1, <1>3 DEF TypeOK, Profile
  <2>2. booked[r] = 0
    BY <1>0, <1>1 DEF FreshInv
  <2>3. IsFiniteSet(OnDay(profile.day)) /\ Cardinality({r}) = 1
    BY FS_Subset, FS_Singleton DEF OnDay
  <2>4. CASE profile.day = claim[c].day
    <3>1. OnDay(profile.day)' = OnDay(profile.day) \cup {r}
      BY <1>0, <1>1, <1>3, <2>4 DEF OnDay, TypeOK
    <3>2. r \notin OnDay(profile.day)
      BY <1>0, <1>3, <2>2, <2>4 DEF OnDay
    <3>3. Cardinality(OnDay(profile.day)') = Cardinality(OnDay(profile.day)) + 1
      BY <1>0, <2>3, <3>1, <3>2, FS_AddElement
    <3> QED BY <1>0, <1>1, <1>3, <2>1, <2>4, <3>3 DEF CountInv
  <2>5. CASE profile.day # claim[c].day
    <3>1. OnDay(profile.day)' = {r}
      <4>1. booked'[r] = profile'.day
        BY <1>0, <1>1 DEF TypeOK
      <4>2. \A s \in Runs \ {r} : booked'[s] # profile'.day
        <5> TAKE s \in Runs \ {r}
        <5>1. booked'[s] = booked[s] /\ booked[s] \in 0..MaxDay
          BY <1>0, <1>1 DEF TypeOK
        <5>2. booked[s] <= profile.day
          BY <1>0 DEF BookedInv
        <5> QED BY <1>1, <1>3, <2>5, <5>1, <5>2
      <4> QED BY <4>1, <4>2 DEF OnDay
    <3> QED BY <1>0, <1>1, <1>3, <2>1, <2>3, <2>5, <3>1 DEF CountInv
  <2> QED BY <1>0, <2>4, <2>5
<1> QED BY <1>4, <1>5, <1>7, <1>8, <1>9, <1>10 DEF IInv, Control, Money

\* A claim is rolled back.
LEMMA GiveUpKeeps ==
    ASSUME IInv, NEW c \in Claims, GiveUp(c)
    PROVE  IInv'
<1> USE FleetAssumption DEF IInv, Control, Money, history
<1>1. TypeOK'
  <2>1. claim'[c] \in Claiming
    BY Blank DEF TypeOK, GiveUp, Claiming
  <2> QED BY <2>1 DEF TypeOK, GiveUp
<1>2. LockInv' /\ SeenInv' /\ ExpiredInv'
  BY DEF GiveUp, TypeOK, LockInv, SeenInv, ExpiredInv, Holding, NotClaiming
<1>3. FreshInv' /\ OneAtATime'
  BY DEF GiveUp, TypeOK, FreshInv, OneAtATime, Open, NotClaiming
<1>4. ReportInv'
  BY DEF GiveUp, TypeOK, ReportInv, NotClaiming
<1>5. ChosenInv' /\ BookedInv'
  BY DEF GiveUp, TypeOK, ChosenInv, BookedInv, IsOpen, NotClaiming
<1>6. CountInv'
  BY DEF GiveUp, TypeOK, CountInv, OnDay, NotClaiming
<1> QED BY <1>1, <1>2, <1>3, <1>4, <1>5, <1>6

-----------------------------------------------------------------------------
(* completeRun and resolveSalesRun                                           *)

\* A result comes in.
LEMMA CompleteKeeps ==
    ASSUME IInv, NEW f \in Reports, NEW r \in Runs, Complete(f, r)
    PROVE  IInv'
<1> USE FleetAssumption DEF IInv, Control, Money, history
<1>1. TypeOK'
  <2>1. report'[f] \in Reporting
    <3>1. /\ run[r] \in Row /\ profile \in Profile
      BY DEF TypeOK
    <3>2. \E used \in Nat, status \in {"DONE", "AMBIGUOUS"} : Begin(f, r, status, used)
      BY <3>1 DEF Complete, AtLeast, Row
    <3> QED BY <3>1, <3>2 DEF Begin, Books, Reporting, Row, TypeOK
  <2> QED BY <2>1 DEF TypeOK, Complete, Begin
<1>2. LockInv' /\ SeenInv' /\ ExpiredInv'
  BY DEF Complete, TypeOK, LockInv, SeenInv, ExpiredInv, Holding, Begin, Books, AtLeast, Open
<1>3. FreshInv' /\ OneAtATime'
  BY DEF Complete, TypeOK, FreshInv, OneAtATime, Open, Begin, Books, AtLeast, Open
<1>4. ReportInv'
  <2>1. /\ \A g \in Reports \ {f} : report'[g] = report[g]
        /\ report'[f].at = "read" /\ report'[f].id = r /\ report'[f].was = run[r].status
        /\ UNCHANGED <<run, claim>>
    BY DEF Complete, TypeOK, Begin
  <2>2. run[r].status \in {"RUNNING", "AMBIGUOUS"}
    BY DEF Complete, Open
  <2>3. report'[f].status = "AMBIGUOUS" => report'[f].used >= run[r].reserved
    <3>1. run[r].reserved \in Nat
      BY DEF TypeOK, Row
    <3>2. PICK used \in Usage : \/ Begin(f, r, "DONE", used)
                               \/ Begin(f, r, "AMBIGUOUS", AtLeast(used, run[r].reserved))
      BY DEF Complete
    <3>3. CASE Begin(f, r, "DONE", used)
      BY <3>3 DEF Begin, TypeOK
    <3>4. CASE Begin(f, r, "AMBIGUOUS", AtLeast(used, run[r].reserved))
      <4>1. report'[f].used = AtLeast(used, run[r].reserved)
        BY <3>4 DEF Begin, TypeOK
      <4> QED BY <3>1, <4>1 DEF AtLeast
    <3> QED BY <3>2, <3>3, <3>4
  <2> QED BY <2>1, <2>2, <2>3 DEF ReportInv
<1>5. ChosenInv' /\ BookedInv'
  <2>1. /\ \A g \in Reports \ {f} : report'[g] = report[g]
        /\ report'[f].id = r /\ report'[f].books = Books(r)
        /\ UNCHANGED <<today, profile, lock, run, claim, history>>
    BY DEF Complete, TypeOK, Begin
  <2>2. ChosenInv'
    BY <2>1 DEF ChosenInv, IsOpen
  <2>3. BookedInv'
    BY <2>1 DEF BookedInv, IsOpen, Books
  <2> QED BY <2>2, <2>3
<1>6. CountInv'
  BY DEF Complete, TypeOK, CountInv, OnDay, Begin, Books, AtLeast, Open
<1> QED BY <1>1, <1>2, <1>3, <1>4, <1>5, <1>6

\* A manager closes an uncertain task.
LEMMA ResolveKeeps ==
    ASSUME IInv, NEW f \in Reports, NEW r \in Runs, Resolve(f, r)
    PROVE  IInv'
<1> USE FleetAssumption DEF IInv, Control, Money, history
<1>1. TypeOK'
  <2>1. report'[f] \in Reporting
    BY Blank DEF TypeOK, Resolve, Reporting, Begin, Books, Row, Statuses
  <2> QED BY <2>1 DEF TypeOK, Resolve, Begin
<1>2. LockInv' /\ SeenInv' /\ ExpiredInv'
  BY DEF Resolve, TypeOK, LockInv, SeenInv, ExpiredInv, Holding, Begin, Books
<1>3. FreshInv' /\ OneAtATime'
  BY DEF Resolve, TypeOK, FreshInv, OneAtATime, Open, Begin, Books
<1>4. ReportInv'
  BY DEF Resolve, TypeOK, ReportInv, Begin, Books
<1>5. ChosenInv' /\ BookedInv'
  BY DEF Resolve, TypeOK, ChosenInv, BookedInv, IsOpen, Begin, Books
<1>6. CountInv'
  BY DEF Resolve, TypeOK, CountInv, OnDay, Begin, Books
<1> QED BY <1>1, <1>2, <1>3, <1>4, <1>5, <1>6

\* The row is written, if it still is as read.
LEMMA WriteResultKeeps ==
    ASSUME IInv, NEW f \in Reports, WriteResult(f)
    PROVE  IInv'
<1> USE FleetAssumption DEF IInv, Control, Money, history
<1>1. TypeOK'
  <2>1. report'[f] \in Reporting
    BY Blank DEF TypeOK, WriteResult, Reporting, Statuses
  <2> QED BY <2>1 DEF TypeOK, WriteResult
<1>2. LockInv' /\ SeenInv' /\ ExpiredInv'
  BY DEF WriteResult, TypeOK, LockInv, SeenInv, ExpiredInv, Holding, Unchanged, RowFree, Written, Silent
<1>3. FreshInv' /\ OneAtATime'
  BY DEF WriteResult, TypeOK, FreshInv, OneAtATime, Open, Unchanged, RowFree, Written, Silent
<1>4. ReportInv'
  BY DEF WriteResult, TypeOK, ReportInv, Unchanged, RowFree, Written, Silent
<1>5. ChosenInv' /\ BookedInv'
  BY DEF WriteResult, TypeOK, ChosenInv, BookedInv, IsOpen, Unchanged, RowFree, Written, Silent
<1>6. CountInv'
  BY DEF WriteResult, TypeOK, CountInv, OnDay, Unchanged, RowFree, Written, Silent
<1> QED BY <1>1, <1>2, <1>3, <1>4, <1>5, <1>6

\* What the commit of a result finds and leaves: the task is still open, and is
\* booked on the day of the profile.
LEMMA CommitFacts ==
    ASSUME IInv, NEW f \in Reports, CommitResult(f)
    PROVE  \E r \in Runs :
           /\ report[f].at = "written" /\ report[f].id = r /\ IsOpen(r) /\ booked[r] = profile.day
           /\ run' = [run EXCEPT ![r] = [@ EXCEPT !.status = report[f].status,
                         !.used = report[f].used, !.completed = TRUE, !.late = FALSE]]
           /\ report' = [report EXCEPT ![f] = Silent]
           /\ charge' = [charge EXCEPT ![r] = report[f].used]
           /\ spent' = spent + report[f].used - charge[r]
           /\ unbooked' = (IF ~report[f].books /\ report[f].used > charge[r]
                           THEN unbooked + report[f].used - charge[r] ELSE unbooked)
           /\ report[f].books => /\ lock = None /\ claim' = Outdated(claim)
                                 /\ profile' = [profile EXCEPT !.tokens = @ + report[f].used - run[r].reserved]
           /\ ~report[f].books => UNCHANGED <<profile, claim>>
           /\ UNCHANGED <<today, lock, booked>>
<1>0. TypeOK /\ ReportInv /\ BookedInv
  BY DEF IInv, Control, Money
<1> DEFINE r == report[f].id
<1>1. report[f].at = "written" /\ r \in Runs /\ IsOpen(r)
  BY <1>0 DEF CommitResult, ReportInv, IsOpen
<1>2. booked[r] = profile.day
  BY <1>0, <1>1 DEF BookedInv
<1>3. report[f].books \in BOOLEAN
  BY <1>0, <1>1 DEF TypeOK, Reporting
<1>5. /\ run' = [run EXCEPT ![r] = [@ EXCEPT !.status = report[f].status,
                    !.used = report[f].used, !.completed = TRUE, !.late = FALSE]]
      /\ report' = [report EXCEPT ![f] = Silent]
      /\ charge' = [charge EXCEPT ![r] = report[f].used]
      /\ spent' = spent + report[f].used - charge[r]
      /\ unbooked' = (IF ~report[f].books /\ report[f].used > charge[r]
                      THEN unbooked + report[f].used - charge[r] ELSE unbooked)
      /\ UNCHANGED <<today, lock, booked>>
  BY <1>2 DEF CommitResult
<1>6. /\ report[f].books => /\ lock = None /\ claim' = Outdated(claim)
                            /\ profile' = [profile EXCEPT !.tokens = @ + report[f].used - run[r].reserved]
      /\ ~report[f].books => UNCHANGED <<profile, claim>>
  BY <1>3 DEF CommitResult, Revised
<1> HIDE DEF r
<1>7. r = report[f].id
  BY DEF r
<1> r \in Runs
  BY <1>1
<1> WITNESS r \in Runs
<1> QED BY <1>1, <1>2, <1>5, <1>6, <1>7

\* A result is recorded.
LEMMA CommitKeeps ==
    ASSUME IInv, NEW f \in Reports, CommitResult(f)
    PROVE  IInv'
<1> USE FleetAssumption
<1>0. /\ TypeOK /\ LockInv /\ ExpiredInv /\ FreshInv /\ ReportInv /\ OneAtATime
      /\ SeenInv /\ ChosenInv /\ BookedInv /\ CountInv
  BY DEF IInv, Control, Money
<1>1. PICK r \in Runs :
           /\ report[f].at = "written" /\ report[f].id = r /\ IsOpen(r) /\ booked[r] = profile.day
           /\ run' = [run EXCEPT ![r] = [@ EXCEPT !.status = report[f].status,
                         !.used = report[f].used, !.completed = TRUE, !.late = FALSE]]
           /\ report' = [report EXCEPT ![f] = Silent]
           /\ charge' = [charge EXCEPT ![r] = report[f].used]
           /\ spent' = spent + report[f].used - charge[r]
           /\ unbooked' = (IF ~report[f].books /\ report[f].used > charge[r]
                           THEN unbooked + report[f].used - charge[r] ELSE unbooked)
           /\ report[f].books => /\ lock = None /\ claim' = Outdated(claim)
                                 /\ profile' = [profile EXCEPT !.tokens = @ + report[f].used - run[r].reserved]
           /\ ~report[f].books => UNCHANGED <<profile, claim>>
           /\ UNCHANGED <<today, lock, booked>>
  BY CommitFacts
<1>2. /\ report[f] \in Reporting /\ run[r] \in Row /\ profile \in Profile
      /\ claim \in [Claims -> Claiming] /\ charge[r] \in Nat /\ spent \in Int /\ unbooked \in Nat /\ today \in Int
  BY <1>0 DEF TypeOK
<1>3. /\ report[f].books \in BOOLEAN /\ report[f].used \in Nat
      /\ report[f].status \in {"DONE", "AMBIGUOUS"} /\ profile.tokens \in Int
  BY <1>2 DEF Reporting, Profile
<1>4. /\ profile' \in Profile /\ profile'.day = profile.day /\ profile'.count = profile.count
      /\ profile'.tokens = profile.tokens + (IF report[f].books THEN report[f].used - run[r].reserved ELSE 0)
  <2>1. CASE report[f].books
    BY <1>1, <1>2, <1>3, <2>1 DEF Profile, Row
  <2>2. CASE ~report[f].books
    BY <1>1, <1>2, <1>3, <2>2
  <2> QED BY <2>1, <2>2
<1>5. /\ claim' \in [Claims -> Claiming]
      /\ \A c \in Claims : \/ claim'[c] = claim[c] /\ (claim[c].at = "read" => ~report[f].books)
                           \/ /\ claim[c].at = "read" /\ claim'[c].at = "outdated"
                              /\ claim'[c].expired = {}
  <2>1. CASE report[f].books
    <3>1. claim' = Outdated(claim) /\ claim \in [Claims -> Claiming]
      BY <1>1, <1>2, <2>1
    <3>2. /\ Outdated(claim) \in [Claims -> Claiming]
          /\ \A c \in Claims :
                /\ claim[c].at # "read" => Outdated(claim)[c] = claim[c]
                /\ claim[c].at = "read" => Outdated(claim)[c] = [NotClaiming EXCEPT !.at = "outdated"]
      BY <3>1, OutdatedClaims
    <3> QED BY <3>1, <3>2 DEF NotClaiming
  <2>2. CASE ~report[f].books
    BY <1>1, <1>2, <2>2
  <2> QED BY <1>3, <2>1, <2>2
<1>6. /\ run'[r] = [run[r] EXCEPT !.status = report[f].status,
                        !.used = report[f].used, !.completed = TRUE, !.late = FALSE]
      /\ run' \in [Runs -> Row] /\ \A s \in Runs \ {r} : run'[s] = run[s]
      /\ run'[r].completed /\ run'[r].status = report[f].status
      /\ run'[r].day = run[r].day /\ run'[r].lease = run[r].lease
      /\ run'[r].reserved = run[r].reserved
  <2>1. [run[r] EXCEPT !.status = report[f].status,
              !.used = report[f].used, !.completed = TRUE, !.late = FALSE] \in Row
    BY <1>2, <1>3 DEF Row, Statuses
  <2> QED BY <1>0, <1>1, <1>2, <2>1 DEF TypeOK, Row
<1>7. /\ report'[f].at = "idle" /\ report' \in [Reports -> Reporting]
      /\ \A g \in Reports \ {f} : report'[g] = report[g]
  BY <1>0, <1>1, Blank DEF TypeOK, Silent
<1>8. TypeOK'
  <2>1. spent' \in Int /\ unbooked' \in Nat
    <3>1. CASE ~report[f].books /\ report[f].used > charge[r]
      BY <1>1, <1>2, <1>3, <3>1
    <3>2. CASE ~(~report[f].books /\ report[f].used > charge[r])
      BY <1>1, <1>2, <1>3, <3>2
    <3> QED BY <3>1, <3>2
  <2>2. charge' \in [Runs -> Nat]
    BY <1>0, <1>1, <1>3 DEF TypeOK
  <2> QED BY <1>0, <1>1, <1>4, <1>5, <1>6, <1>7, <2>1, <2>2 DEF TypeOK
<1>9. LockInv' /\ SeenInv'
  <2>1. LockInv'
    BY <1>0, <1>1, <1>5 DEF LockInv, Holding
  <2>2. CASE report[f].books
    BY <1>0, <1>1, <1>5, <2>2 DEF LockInv, SeenInv, Holding, TypeOK
  <2>3. CASE ~report[f].books
    BY <1>0, <1>1, <2>1, <2>3 DEF SeenInv
  <2> QED BY <1>3, <2>1, <2>2, <2>3
<1>10. ExpiredInv'
  <2>1. \A c \in Claims : r \notin claim[c].expired
    BY <1>0, <1>1 DEF ReportInv
  <2>2. \A c \in Claims : claim'[c].expired \subseteq Runs \ {r} /\ claim'[c].expired \subseteq claim[c].expired
    BY <1>0, <1>5, <2>1 DEF TypeOK, Claiming
  <2> QED BY <1>0, <1>5, <1>6, <2>2 DEF ExpiredInv
<1>11. FreshInv' /\ OneAtATime'
  <2>1. FreshInv'
    BY <1>0, <1>1, <1>3, <1>6 DEF FreshInv
  <2>2. OneAtATime'
    BY <1>0, <1>1, <1>6 DEF OneAtATime, Open, IsOpen
  <2> QED BY <2>1, <2>2
<1>12. ReportInv'
  <2> SUFFICES ASSUME NEW g \in Reports, report'[g].at # "idle"
               PROVE  /\ report'[g].id \in Runs
                      /\ run'[report'[g].id].status \notin {"absent", "QUEUED"}
                      /\ report'[g].was \in {"RUNNING", "AMBIGUOUS"}
                      /\ report'[g].status = "AMBIGUOUS" => report'[g].used >= run'[report'[g].id].reserved
                      /\ report'[g].at = "written" =>
                            /\ run'[report'[g].id].status = report'[g].was
                            /\ \A h \in Reports : report'[h].at = "written" /\ report'[h].id = report'[g].id => g = h
                            /\ \A c \in Claims : report'[g].id \notin claim'[c].expired
    BY DEF ReportInv
  <2>1. g # f /\ report'[g] = report[g]
    BY <1>7
  <2>2. report[g].at = "written" => report[g].id # r
    BY <1>0, <1>1, <2>1 DEF ReportInv
  <2>3. /\ report[g].id \in Runs /\ run[report[g].id].status \notin {"absent", "QUEUED"}
        /\ report[g].was \in {"RUNNING", "AMBIGUOUS"}
        /\ report[g].status = "AMBIGUOUS" => report[g].used >= run[report[g].id].reserved
    BY <1>0, <2>1 DEF ReportInv
  <2>4. /\ run'[report[g].id].status \notin {"absent", "QUEUED"}
        /\ run'[report[g].id].reserved = run[report[g].id].reserved
    BY <1>3, <1>6, <2>3
  <2>5. report[g].at = "written" =>
            /\ run'[report[g].id].status = report[g].was
            /\ \A h \in Reports : report'[h].at = "written" /\ report'[h].id = report[g].id => g = h
            /\ \A c \in Claims : report[g].id \notin claim'[c].expired
    BY <1>0, <1>5, <1>6, <1>7, <2>1, <2>2, <2>3 DEF ReportInv
  <2> QED BY <2>1, <2>3, <2>4, <2>5
<1>13. ChosenInv'
  BY <1>0, <1>1, <1>5 DEF ChosenInv
<1>14. BookedInv'
  <2>1. run'[r].status = "AMBIGUOUS" => charge'[r] >= run'[r].reserved
    <3>1. report[f].status = "AMBIGUOUS" => report[f].used >= run[r].reserved
      BY <1>0, <1>1 DEF ReportInv
    <3> QED BY <1>0, <1>1, <1>6, <3>1 DEF TypeOK
  <2>2. \A s \in Runs : IsOpen(s)' => s = r /\ run'[r].status = "AMBIGUOUS"
    BY <1>0, <1>1, <1>3, <1>6 DEF OneAtATime, Open, IsOpen
  <2>3. booked[r] <= run[r].day /\ run[r].day <= today
    BY <1>0, <1>1 DEF BookedInv
  <2>4. profile'.day <= today' /\ \A s \in Runs : booked'[s] <= profile'.day
    BY <1>0, <1>1, <1>4 DEF BookedInv
  <2>5. \A s \in Runs : IsOpen(s)' =>
          /\ booked'[s] = profile'.day /\ booked'[s] <= run'[s].day /\ run'[s].day <= today'
          /\ run'[s].completed /\ charge'[s] >= run'[s].reserved /\ run'[s].status = "AMBIGUOUS"
    BY <1>1, <1>4, <1>6, <2>1, <2>2, <2>3
  <2>6. \A g \in Reports : report'[g].at # "idle" => report'[g].id \in Runs
    BY <1>12 DEF ReportInv
  <2> QED BY <2>4, <2>5, <2>6 DEF BookedInv
<1>15. CountInv'
  <2>1. OnDay(profile.day)' = OnDay(profile.day)
    BY <1>1, <1>4 DEF OnDay
  <2>2. profile.day = today => spent' - unbooked'
            <= profile.tokens + (IF report[f].books THEN report[f].used - run[r].reserved ELSE 0)
    <3>1. SUFFICES ASSUME profile.day = today
                   PROVE  spent' - unbooked'
                            <= profile.tokens + (IF report[f].books THEN report[f].used - run[r].reserved ELSE 0)
      OBVIOUS
    <3>2. spent - unbooked <= profile.tokens /\ run[r].reserved \in Nat
      BY <1>0, <1>2, <3>1 DEF CountInv, Row
    <3>3. CASE report[f].books
      <4>1. charge[r] >= run[r].reserved
        BY <1>0, <1>1, <1>2, <3>2 DEF BookedInv, Row
      <4> QED BY <1>1, <1>2, <1>3, <3>2, <3>3, <4>1
    <3>4. CASE ~report[f].books
      BY <1>1, <1>2, <1>3, <3>2, <3>4
    <3> QED BY <1>3, <3>3, <3>4
  <2> QED BY <1>0, <1>1, <1>4, <2>1, <2>2 DEF CountInv
<1> QED BY <1>8, <1>9, <1>10, <1>11, <1>12, <1>13, <1>14, <1>15 DEF IInv, Control, Money

\* A result is rolled back.
LEMMA DropReportKeeps ==
    ASSUME IInv, NEW f \in Reports, DropReport(f)
    PROVE  IInv'
<1> USE FleetAssumption DEF IInv, Control, Money, history
<1>1. TypeOK'
  <2>1. report'[f] \in Reporting
    BY Blank DEF TypeOK, DropReport, Reporting
  <2> QED BY <2>1 DEF TypeOK, DropReport
<1>2. LockInv' /\ SeenInv' /\ ExpiredInv'
  BY DEF DropReport, TypeOK, LockInv, SeenInv, ExpiredInv, Holding, Silent
<1>3. FreshInv' /\ OneAtATime'
  BY DEF DropReport, TypeOK, FreshInv, OneAtATime, Open, Silent
<1>4. ReportInv'
  BY DEF DropReport, TypeOK, ReportInv, Silent
<1>5. ChosenInv' /\ BookedInv'
  BY DEF DropReport, TypeOK, ChosenInv, BookedInv, IsOpen, Silent
<1>6. CountInv'
  BY DEF DropReport, TypeOK, CountInv, OnDay, Silent
<1> QED BY <1>1, <1>2, <1>3, <1>4, <1>5, <1>6

-----------------------------------------------------------------------------
(* The theorems                                                              *)

LEMMA NextPreserves == IInv /\ [Next]_vars => IInv'
<1> SUFFICES ASSUME IInv, [Next]_vars PROVE IInv'
  OBVIOUS
<1>1. ASSUME NEW r \in Runs, Queue(r) \/ Expire(r) PROVE IInv'
  BY <1>1, QueueKeeps, ExpireKeeps
<1>2. CASE SetStatus \/ \E terms \in Settings : Save(terms)
  BY <1>2, SetStatusKeeps, SaveKeeps
<1>3. CASE Midnight
  BY <1>3, MidnightKeeps
<1>4. ASSUME NEW c \in Claims, ClaimStep(c) PROVE IInv'
  BY <1>4, ReadProfileKeeps, TakeLockKeeps, MarkExpiredKeeps, AnswerKeeps, ChooseKeeps, TakeKeeps,
     GiveUpKeeps DEF ClaimStep
<1>5. ASSUME NEW f \in Reports, ReportStep(f) PROVE IInv'
  BY <1>5, CompleteKeeps, ResolveKeeps, WriteResultKeeps, CommitKeeps, DropReportKeeps DEF ReportStep
<1>6. CASE UNCHANGED vars
  <2> USE <1>6 DEF IInv, Control, Money, vars, history
  <2>1. TypeOK'
    BY DEF TypeOK
  <2>2. LockInv' /\ SeenInv' /\ ExpiredInv'
    BY DEF LockInv, SeenInv, ExpiredInv
  <2>3. FreshInv' /\ OneAtATime'
    BY DEF FreshInv, OneAtATime, Open
  <2>4. ReportInv'
    BY DEF ReportInv
  <2>5. ChosenInv' /\ BookedInv'
    BY DEF ChosenInv, BookedInv, IsOpen
  <2>6. CountInv'
    BY DEF CountInv, OnDay
  <2> QED BY <2>1, <2>2, <2>3, <2>4, <2>5, <2>6
<1> QED BY <1>1, <1>2, <1>3, <1>4, <1>5, <1>6 DEF Next

LEMMA Invariance == Spec => []IInv
<1>1. Init => IInv
  BY InitEstablishes
<1>2. IInv /\ [Next]_vars => IInv'
  BY NextPreserves
<1> QED BY <1>1, <1>2, PTL DEF Spec

\* What a step does to a row: a closed row and a lease stay, and only the start of
\* a task makes a queued row run.
RowStep == \A s \in Runs :
    /\ run[s].status = "DONE" => run'[s] = run[s]
    /\ run[s].lease # None => run'[s].lease = run[s].lease
    /\ run[s].status = "QUEUED" /\ run'[s].status = "RUNNING" => \E c \in Claims : Take(c)

\* A claim that starts nothing changes no closed row and no lease.
LEMMA AnswerRows ==
    ASSUME IInv, NEW c \in Claims, AnswerNothingNew(c)
    PROVE  RowStep
<1>1. TypeOK /\ ExpiredInv
  BY DEF IInv, Control
<1>2. PICK void \in SUBSET Queued : run' = Marked(c, void)
  BY DEF AnswerNothingNew
<1> SUFFICES ASSUME NEW s \in Runs
             PROVE  /\ run[s].status = "DONE" => run'[s] = run[s]
                    /\ run[s].lease # None => run'[s].lease = run[s].lease
                    /\ ~(run[s].status = "QUEUED" /\ run'[s].status = "RUNNING")
  BY DEF RowStep
<1>3. run[s] \in Row
  BY <1>1 DEF TypeOK
<1>4. s \in claim[c].expired => run[s].status = "RUNNING"
  BY <1>1 DEF ExpiredInv
<1>5. s \in void => run[s].status = "QUEUED"
  BY DEF Queued
<1>6. CASE s \in claim[c].expired
  <2>1. run'[s] = [run[s] EXCEPT !.status = "AMBIGUOUS", !.late = FALSE]
    BY <1>2, <1>4, <1>5, <1>6 DEF Marked
  <2> QED BY <1>3, <1>4, <1>6, <2>1 DEF Row
<1>7. CASE s \notin claim[c].expired /\ s \in void
  <2>1. run'[s] = [run[s] EXCEPT !.status = "DONE", !.completed = TRUE]
    BY <1>2, <1>7 DEF Marked
  <2> QED BY <1>3, <1>5, <1>7, <2>1 DEF Row
<1>8. CASE s \notin claim[c].expired /\ s \notin void
  <2>1. run'[s] = run[s]
    BY <1>2, <1>8 DEF Marked
  <2> QED BY <2>1
<1> QED BY <1>6, <1>7, <1>8

LEMMA RowSteps == IInv /\ [Next]_vars => RowStep
<1> SUFFICES ASSUME IInv, [Next]_vars PROVE RowStep
  OBVIOUS
<1>0. TypeOK /\ FreshInv
  BY DEF IInv, Control
<1>1. CASE UNCHANGED run
  BY <1>1 DEF RowStep
<1>2. ASSUME NEW r \in Runs, Queue(r) \/ Expire(r) PROVE RowStep
  <2>1. \A s \in Runs : s # r => run'[s] = run[s]
    BY <1>0, <1>2 DEF Queue, Expire, TypeOK
  <2>2. run[r].status \in {"absent", "RUNNING"} /\ run'[r].lease = run[r].lease
    BY <1>0, <1>2 DEF Queue, Expire, TypeOK, Row, Absent
  <2> QED BY <2>1, <2>2 DEF RowStep
<1>3. ASSUME NEW c \in Claims, AnswerNothingNew(c) PROVE RowStep
  BY <1>3, AnswerRows
<1>4. ASSUME NEW c \in Claims, Take(c) PROVE RowStep
  <2>1. PICK r \in Runs :
           /\ run[r].status = "QUEUED"
           /\ \A s \in Runs \ {r} : \/ run'[s] = run[s] /\ ~IsOpen(s)
                                    \/ /\ run[s].status = "QUEUED" /\ run'[s].status = "DONE"
                                       /\ run'[s].lease = run[s].lease
    BY <1>4, TakeFacts
  <2>2. run[r].lease = None
    BY <1>0, <2>1 DEF FreshInv
  <2> QED BY <1>4, <2>1, <2>2 DEF RowStep
<1>5. ASSUME NEW f \in Reports, CommitResult(f) PROVE RowStep
  <2>1. PICK r \in Runs :
           /\ IsOpen(r)
           /\ run' = [run EXCEPT ![r] = [@ EXCEPT !.status = report[f].status,
                         !.used = report[f].used, !.completed = TRUE, !.late = FALSE]]
    BY <1>5, CommitFacts
  <2>2. run[r] \in Row /\ \A s \in Runs : s # r => run'[s] = run[s]
    BY <1>0, <2>1 DEF TypeOK
  <2>3. run'[r] = [run[r] EXCEPT !.status = report[f].status,
                       !.used = report[f].used, !.completed = TRUE, !.late = FALSE]
    BY <1>0, <2>1 DEF TypeOK
  <2>4. run'[r].lease = run[r].lease
    BY <2>2, <2>3 DEF Row
  <2> QED BY <2>1, <2>2, <2>4 DEF RowStep, IsOpen
<1>6. ASSUME NEW c \in Claims, ClaimStep(c) PROVE RowStep
  BY <1>1, <1>3, <1>4, <1>6 DEF ClaimStep, ReadProfile, TakeLock, MarkExpired, Choose, GiveUp
<1>7. ASSUME NEW f \in Reports, ReportStep(f) PROVE RowStep
  BY <1>1, <1>5, <1>7 DEF ReportStep, Complete, Resolve, WriteResult, DropReport
<1> QED BY <1>1, <1>2, <1>6, <1>7 DEF Next, vars, SetStatus, Save, Midnight

\* What the start of a task leaves of the day.
LEMMA DayStep ==
    ASSUME IInv, NEW c \in Claims, Take(c)
    PROVE  /\ spent' - unbooked' <= profile.terms.budget
           /\ Cardinality(OnDay(profile.day)') <= profile.terms.limit
<1>0. TypeOK /\ ChosenInv /\ TypeOK' /\ CountInv'
  BY TakeKeeps DEF IInv, Control, Money
<1>1. /\ profile' \in Profile /\ profile'.day = claim[c].day
      /\ profile'.count = (IF profile.day = claim[c].day THEN profile.count ELSE 0) + 1
      /\ spent' = (IF profile.day = claim[c].day THEN spent ELSE 0) + profile.terms.reserve
      /\ unbooked' = IF profile.day = claim[c].day THEN unbooked ELSE 0
  BY TakeFacts
<1>2. /\ claim[c].day \in 1..today
      /\ (IF profile.day = claim[c].day THEN profile.tokens ELSE 0) + profile.terms.reserve
            <= profile.terms.budget
      /\ (IF profile.day = claim[c].day THEN profile.count ELSE 0) < profile.terms.limit
      /\ profile.day = claim[c].day => spent - unbooked <= profile.tokens
  BY <1>0 DEF Take, ChosenInv
<1>3. /\ profile.tokens \in Int /\ profile.terms.budget \in Nat /\ profile.terms.reserve \in Nat
      /\ profile.terms.limit \in Nat /\ profile.count \in Nat
      /\ spent \in Int /\ unbooked \in Nat /\ today \in Int
  BY <1>0 DEF TypeOK, Profile, Terms
<1>4. spent' - unbooked' <= profile.terms.budget
  BY <1>1, <1>2, <1>3
<1>5. profile'.day # 0 /\ profile'.count <= profile.terms.limit
  BY <1>1, <1>2, <1>3, FleetAssumption DEF Profile
<1> QED BY <1>0, <1>4, <1>5 DEF CountInv

\* Every variable of the seller, its tasks, claims and results keeps its type: a
\* reservation and a number of tasks are never negative.
THEOREM TypeCorrect == Spec => []TypeOK
<1>1. IInv => TypeOK
  BY DEF IInv, Control
<1> QED BY <1>1, Invariance, PTL

\* claimRun never starts a task while another of the seller is RUNNING or
\* AMBIGUOUS, for any number of workers and of results that come late.
THEOREM OneOpen == Spec => []OneAtATime
<1>1. IInv => OneAtATime
  BY DEF IInv, Control
<1> QED BY <1>1, Invariance, PTL

\* The counters of the profile are those of its tasks: dailyRunsClaimed is the number
\* of tasks that were started on budgetDay, and on the current day
\* dailyTokensReserved covers what they hold or have used, but for what a second
\* report has added, whatever is saved, claimed and reported at the same time.
THEOREM CountersHold == Spec => []CountInv
<1>1. IInv => CountInv
  BY DEF IInv, Money
<1> QED BY <1>1, Invariance, PTL

\* claimRun starts a task only within the budget and the number of runs of the day
\* of its counters, whatever budgets, limits and reservations the owner saves, before
\* the day has tasks or after.  All that its tasks hold or have used is counted, but
\* for what a second report adds to an uncertain result.
THEOREM DayIsKept == Spec => WithinTheDay
<1>1. IInv /\ [Next]_vars
        => [\A r \in Queued : run'[r].status = "RUNNING" =>
              /\ spent' - unbooked' <= profile.terms.budget
              /\ Cardinality(OnDay(profile.day)') <= profile.terms.limit]_vars
  BY RowSteps, DayStep DEF RowStep, Queued
<1> QED BY <1>1, Invariance, PTL DEF Spec, WithinTheDay

\* completeRun and resolveSalesRun never rewrite a result that is recorded, and
\* claimRun never gives a task to a second claim.
THEOREM ResultsStay == Spec => ResultIsFinal
<1>1. IInv /\ [Next]_vars
        => [\A r \in Runs : /\ run[r].status = "DONE" => run'[r] = run[r]
                            /\ run[r].lease # None => run'[r].lease = run[r].lease]_vars
  BY RowSteps DEF RowStep
<1> QED BY <1>1, Invariance, PTL DEF Spec, ResultIsFinal

=============================================================================
