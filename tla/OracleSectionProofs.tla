------------------------ MODULE OracleSectionProofs ------------------------
(***************************************************************************)
(* Theorems about OracleSection, for any sets of requests and edits, with  *)
(* crashes of generations and failures of invalidations.                   *)
(***************************************************************************)
EXTENDS OracleSection, TLAPS

\* The lock is held exactly while the section is in generation, and its token
\* is that of a request.
LockIsHeld ==
    /\ section.status = "GENERATING" <=> section.lock # Unlocked
    /\ section.lock # Unlocked => section.lock.token # NoRun

\* Who saw an expired lock saw the one that is there, still expired.
OverdueIsLapsed == overdue # {} /\ section.lock # Unlocked => section.lock.lapsed

\* What the holder of the lock has built is no older than what is published.
BuiltIsNewer ==
    \A r \in Runs : run[r].pc = "built" /\ Holds(r) => run[r].basis >= section.basis

\* An open transaction keeps the COMPLETE row it has marked.
DraftKeepsRow == draft = "stale" => section.status = "COMPLETE"

IInv == TypeOK /\ LockIsHeld /\ OverdueIsLapsed /\ BuiltIsNewer /\ DraftKeepsRow

-----------------------------------------------------------------------------
\* A section that was never generated satisfies the invariant.
LEMMA InitEstablishes == Init => IInv
<1> SUFFICES ASSUME Init PROVE IInv
  OBVIOUS
<1>1. TypeOK
  <2>1. edit \in [Edits -> [kind : Kinds, pc : {"idle", "done", "after1", "after2"} \cup InTx]]
    BY DEF Init
  <2>2. section \in [status : Statuses, lock : [token : Runs \cup {NoRun}, lapsed : BOOLEAN],
                     stale : BOOLEAN, basis : 0..content]
    BY DEF Init, Unlocked, Statuses
  <2>3. run \in [Runs -> [pc : {"idle", "checked", "read", "locked", "built", "refused"},
                          status : Statuses, basis : 0..content]]
    BY DEF Init, Idle, Statuses
  <2> QED BY <2>1, <2>2, <2>3 DEF Init, TypeOK
<1>2. LockIsHeld /\ OverdueIsLapsed /\ DraftKeepsRow /\ BuiltIsNewer
  BY DEF Init, LockIsHeld, OverdueIsLapsed, DraftKeepsRow, BuiltIsNewer, Holds, Unlocked
<1> QED BY <1>1, <1>2 DEF IInv

\* The mode check changes where the request stands.
LEMMA CheckModeKeeps ==
    ASSUME IInv, NEW r \in Runs, CheckMode(r)
    PROVE  IInv'
<1>1. TypeOK'
  BY DEF IInv, TypeOK, CheckMode, Enter, EditState
<1>2. LockIsHeld' /\ OverdueIsLapsed' /\ DraftKeepsRow'
  BY DEF IInv, CheckMode, LockIsHeld, OverdueIsLapsed, DraftKeepsRow, EditState
<1>3. BuiltIsNewer'
  BY DEF IInv, TypeOK, CheckMode, Enter, EditState, BuiltIsNewer, Holds
<1> QED BY <1>1, <1>2, <1>3 DEF IInv

\* A request reads the lock; if it has expired the request remembers it.
LEMMA ReadLockKeeps ==
    ASSUME IInv, NEW r \in Runs, ReadLock(r)
    PROVE  IInv'
<1>1. run' \in {[run EXCEPT ![r] = Idle],
                [run EXCEPT ![r] = [pc |-> "read", status |-> section.status, basis |-> 0]]}
  BY DEF ReadLock, Quit
<1>2. TypeOK'
  BY <1>1 DEF IInv, TypeOK, ReadLock, EditState, Idle, Statuses
<1>3. LockIsHeld' /\ OverdueIsLapsed' /\ DraftKeepsRow'
  BY DEF IInv, TypeOK, ReadLock, EditState, LockIsHeld, OverdueIsLapsed, DraftKeepsRow
<1>4. BuiltIsNewer'
  BY <1>1 DEF IInv, TypeOK, ReadLock, BuiltIsNewer, Holds, Idle
<1> QED BY <1>2, <1>3, <1>4 DEF IInv

\* A claim succeeds on no lock or on the expired one, and forgets who saw it.
LEMMA TakeLockKeeps ==
    ASSUME IInv, NEW r \in Runs, TakeLock(r)
    PROVE  IInv'
<1>1. CASE Claims(r)
  <2>1. section' = [status |-> "GENERATING",
                    lock |-> [token |-> r, lapsed |-> FALSE], stale |-> FALSE, basis |-> section.basis]
    BY <1>1 DEF TakeLock, Row, EditState
  <2>2. run' = [run EXCEPT ![r] = [pc |-> "locked", status |-> "PENDING", basis |-> 0]]
    BY <1>1 DEF TakeLock, Quit, EditState, IInv, TypeOK
  <2>3. UNCHANGED <<content, edit, draft>> /\ slipped' = FALSE /\ overdue' = {} /\ draft = "none"
    BY <1>1 DEF TakeLock, EditState, RowFree, Row
  <2>4. TypeOK'
    <3>1. section' \in [status : Statuses, lock : [token : Runs \cup {NoRun}, lapsed : BOOLEAN],
                        stale : BOOLEAN, basis : 0..content]
      BY <2>1 DEF IInv, TypeOK, Statuses
    <3>2. run' \in [Runs -> [pc : {"idle", "checked", "read", "locked", "built", "refused"},
                             status : Statuses, basis : 0..content]]
      BY <2>2 DEF IInv, TypeOK, Statuses
    <3> QED BY <2>3, <3>1, <3>2 DEF IInv, TypeOK
  <2>5. LockIsHeld' /\ OverdueIsLapsed' /\ DraftKeepsRow'
    BY <1>1, <2>1, <2>3, ConstantsOK DEF IInv, TypeOK, LockIsHeld, OverdueIsLapsed,
           DraftKeepsRow, Unlocked
  <2>6. BuiltIsNewer'
    BY <2>1, <2>2, <2>3, ConstantsOK DEF IInv, TypeOK, LockIsHeld, BuiltIsNewer, Holds,
           Unlocked, Idle
  <2> QED BY <2>4, <2>5, <2>6 DEF IInv
<1>2. CASE ~ Claims(r)
  <2>1. section' = section
    BY <1>2 DEF TakeLock, Row, EditState
  <2>2. run' = [run EXCEPT ![r] = Idle]
    BY <1>2 DEF TakeLock, Quit, EditState, IInv, TypeOK
  <2>3. UNCHANGED <<content, edit, draft, overdue, slipped>>
    BY <1>2 DEF TakeLock, EditState, RowFree, Row
  <2>4. TypeOK'
    BY <2>1, <2>2, <2>3 DEF IInv, TypeOK, Idle, Statuses
  <2>5. LockIsHeld' /\ OverdueIsLapsed' /\ DraftKeepsRow'
    BY <1>2, <2>1, <2>3 DEF IInv, TypeOK, LockIsHeld, OverdueIsLapsed, DraftKeepsRow, Unlocked
  <2>6. BuiltIsNewer'
    BY <2>1, <2>2, <2>3, ConstantsOK DEF IInv, TypeOK, LockIsHeld, BuiltIsNewer, Holds,
           Unlocked, Idle
  <2> QED BY <2>4, <2>5, <2>6 DEF IInv
<1> QED BY <1>1, <1>2

\* The payload is built from the content as it is, hence from no older one than the published.
LEMMA BuildKeeps ==
    ASSUME IInv, NEW r \in Runs, Build(r)
    PROVE  IInv'
<1>1. TypeOK'
  BY DEF IInv, TypeOK, Build, EditState, Statuses
<1>2. LockIsHeld' /\ OverdueIsLapsed' /\ DraftKeepsRow'
  BY DEF IInv, Build, EditState, LockIsHeld, OverdueIsLapsed, DraftKeepsRow
<1>3. BuiltIsNewer'
  BY DEF IInv, TypeOK, Build, BuiltIsNewer, Holds
<1> QED BY <1>1, <1>2, <1>3 DEF IInv

\* The holder publishes and unlocks.
LEMMA PublishKeeps ==
    ASSUME IInv, NEW r \in Runs, Publish(r)
    PROVE  IInv'
<1>1. CASE Publishes(r)
  <2>1. section' = [status |-> "COMPLETE",
                    lock |-> Unlocked, stale |-> FALSE, basis |-> run[r].basis]
    BY <1>1 DEF Publish, Row, EditState
  <2>2. run' = [run EXCEPT ![r] = Idle]
    BY <1>1 DEF Publish, Quit, Enter, EditState, IInv, TypeOK
  <2>3. UNCHANGED <<content, edit, draft, overdue>> /\ slipped' \in BOOLEAN /\ draft = "none"
    BY <1>1 DEF Publish, EditState, RowFree, Row
  <2>4. TypeOK'
    BY <2>1, <2>2, <2>3 DEF IInv, TypeOK, Idle, Unlocked, Statuses
  <2>5. LockIsHeld' /\ OverdueIsLapsed' /\ DraftKeepsRow'
    BY <1>1, <2>1, <2>3 DEF IInv, TypeOK, LockIsHeld, OverdueIsLapsed, DraftKeepsRow, Unlocked
  <2>6. BuiltIsNewer'
    BY <2>1, <2>2, <2>3, ConstantsOK DEF IInv, TypeOK, LockIsHeld, BuiltIsNewer, Holds,
           Unlocked, Idle
  <2> QED BY <2>4, <2>5, <2>6 DEF IInv
<1>2. CASE ~ Publishes(r)
  <2>1. section' = section
    BY <1>2 DEF Publish, Row, EditState
  <2>2. run' = [run EXCEPT ![r] = [pc |-> "refused",
                              status |-> run[r].status, basis |-> run[r].basis]]
    BY <1>2 DEF Publish, Quit, Enter, EditState, IInv, TypeOK
  <2>3. UNCHANGED <<content, edit, draft, overdue, slipped>>
    BY <1>2 DEF Publish, EditState, RowFree, Row
  <2>4. TypeOK'
    BY <2>1, <2>2, <2>3 DEF IInv, TypeOK, Idle
  <2>5. LockIsHeld' /\ OverdueIsLapsed' /\ DraftKeepsRow'
    BY <1>2, <2>1, <2>3 DEF IInv, TypeOK, LockIsHeld, OverdueIsLapsed, DraftKeepsRow, Unlocked
  <2>6. BuiltIsNewer'
    BY <2>1, <2>2, <2>3, ConstantsOK DEF IInv, TypeOK, LockIsHeld, BuiltIsNewer, Holds,
           Unlocked, Idle
  <2> QED BY <2>4, <2>5, <2>6 DEF IInv
<1> QED BY <1>1, <1>2

\* A refused result releases the lock it still holds.
LEMMA ReleaseKeeps ==
    ASSUME IInv, NEW r \in Runs, Release(r)
    PROVE  IInv'
<1>1. CASE Holds(r) /\ section.stale
  <2>1. section' = [status |-> "STALE",
                    lock |-> Unlocked, stale |-> TRUE, basis |-> section.basis]
    BY <1>1 DEF Release, Row, EditState
  <2>2. run' = [run EXCEPT ![r] = Idle]
    BY <1>1 DEF Release, Quit, EditState, IInv, TypeOK
  <2>3. UNCHANGED <<content, edit, draft, overdue, slipped>> /\ draft = "none"
    BY <1>1 DEF Release, EditState, RowFree, Row
  <2>4. TypeOK'
    BY <2>1, <2>2, <2>3 DEF IInv, TypeOK, Idle, Unlocked, Statuses
  <2>5. LockIsHeld' /\ OverdueIsLapsed' /\ DraftKeepsRow'
    BY <1>1, <2>1, <2>3 DEF IInv, TypeOK, LockIsHeld, OverdueIsLapsed, DraftKeepsRow, Unlocked
  <2>6. BuiltIsNewer'
    BY <2>1, <2>2, <2>3, ConstantsOK DEF IInv, TypeOK, LockIsHeld, BuiltIsNewer, Holds,
           Unlocked, Idle
  <2> QED BY <2>4, <2>5, <2>6 DEF IInv
<1>2. CASE ~ (Holds(r) /\ section.stale)
  <2>1. section' = section
    BY <1>2 DEF Release, Row, EditState
  <2>2. run' = [run EXCEPT ![r] = Idle]
    BY <1>2 DEF Release, Quit, EditState, IInv, TypeOK
  <2>3. UNCHANGED <<content, edit, draft, overdue, slipped>>
    BY <1>2 DEF Release, EditState, RowFree, Row
  <2>4. TypeOK'
    BY <2>1, <2>2, <2>3 DEF IInv, TypeOK, Idle, Statuses
  <2>5. LockIsHeld' /\ OverdueIsLapsed' /\ DraftKeepsRow'
    BY <1>2, <2>1, <2>3 DEF IInv, TypeOK, LockIsHeld, OverdueIsLapsed, DraftKeepsRow, Unlocked
  <2>6. BuiltIsNewer'
    BY <2>1, <2>2, <2>3, ConstantsOK DEF IInv, TypeOK, LockIsHeld, BuiltIsNewer, Holds,
           Unlocked, Idle
  <2> QED BY <2>4, <2>5, <2>6 DEF IInv
<1> QED BY <1>1, <1>2

\* A failed generation releases the lock it still holds.
LEMMA FailKeeps ==
    ASSUME IInv, NEW r \in Runs, Fail(r)
    PROVE  IInv'
<1>1. CASE Holds(r)
  <2>1. section' = [status |-> "FAILED",
                    lock |-> Unlocked, stale |-> section.stale, basis |-> section.basis]
    BY <1>1 DEF Fail, Row, EditState
  <2>2. run' = [run EXCEPT ![r] = Idle]
    BY <1>1 DEF Fail, Quit, EditState, IInv, TypeOK
  <2>3. UNCHANGED <<content, edit, draft, overdue, slipped>> /\ draft = "none"
    BY <1>1 DEF Fail, EditState, RowFree, Row
  <2>4. TypeOK'
    BY <2>1, <2>2, <2>3 DEF IInv, TypeOK, Idle, Unlocked, Statuses
  <2>5. LockIsHeld' /\ OverdueIsLapsed' /\ DraftKeepsRow'
    BY <1>1, <2>1, <2>3 DEF IInv, TypeOK, LockIsHeld, OverdueIsLapsed, DraftKeepsRow, Unlocked
  <2>6. BuiltIsNewer'
    BY <2>1, <2>2, <2>3, ConstantsOK DEF IInv, TypeOK, LockIsHeld, BuiltIsNewer, Holds,
           Unlocked, Idle
  <2> QED BY <2>4, <2>5, <2>6 DEF IInv
<1>2. CASE ~ Holds(r)
  <2>1. section' = section
    BY <1>2 DEF Fail, Row, EditState
  <2>2. run' = [run EXCEPT ![r] = Idle]
    BY <1>2 DEF Fail, Quit, EditState, IInv, TypeOK
  <2>3. UNCHANGED <<content, edit, draft, overdue, slipped>>
    BY <1>2 DEF Fail, EditState, RowFree, Row
  <2>4. TypeOK'
    BY <2>1, <2>2, <2>3 DEF IInv, TypeOK, Idle, Statuses
  <2>5. LockIsHeld' /\ OverdueIsLapsed' /\ DraftKeepsRow'
    BY <1>2, <2>1, <2>3 DEF IInv, TypeOK, LockIsHeld, OverdueIsLapsed, DraftKeepsRow, Unlocked
  <2>6. BuiltIsNewer'
    BY <2>1, <2>2, <2>3, ConstantsOK DEF IInv, TypeOK, LockIsHeld, BuiltIsNewer, Holds,
           Unlocked, Idle
  <2> QED BY <2>4, <2>5, <2>6 DEF IInv
<1> QED BY <1>1, <1>2

\* The lock expires.
LEMMA LapseKeeps ==
    ASSUME IInv, Lapse
    PROVE  IInv'
<1>1. TypeOK'
  BY DEF IInv, TypeOK, Lapse, Row, EditState
<1>2. LockIsHeld' /\ OverdueIsLapsed' /\ DraftKeepsRow'
  BY DEF IInv, Lapse, LockIsHeld, OverdueIsLapsed, DraftKeepsRow, Row, EditState, Unlocked
<1>3. BuiltIsNewer'
  BY DEF IInv, TypeOK, Lapse, Row, EditState, BuiltIsNewer, Holds
<1> QED BY <1>1, <1>2, <1>3 DEF IInv

\* An edit opens its transaction.
LEMMA BeginKeeps ==
    ASSUME IInv, NEW e \in Edits, Begin(e)
    PROVE  IInv'
<1>1. TypeOK'
  BY DEF IInv, TypeOK, Begin, Reach, SectionState, InTx
<1>2. LockIsHeld' /\ OverdueIsLapsed' /\ DraftKeepsRow' /\ BuiltIsNewer'
  BY DEF IInv, Begin, SectionState, LockIsHeld, OverdueIsLapsed, DraftKeepsRow,
         BuiltIsNewer, Holds
<1> QED BY <1>1, <1>2 DEF IInv

\* The transaction marks the row COMPLETE.
LEMMA DraftStaleKeeps ==
    ASSUME IInv, NEW e \in Edits, DraftStale(e)
    PROVE  IInv'
<1>1. TypeOK'
  BY DEF IInv, TypeOK, DraftStale, Reach, SectionState, InTx
<1>2. LockIsHeld' /\ OverdueIsLapsed' /\ DraftKeepsRow'
  BY DEF IInv, DraftStale, LockIsHeld, OverdueIsLapsed, DraftKeepsRow, SectionState
<1>3. BuiltIsNewer'
  BY DEF IInv, TypeOK, DraftStale, Reach, SectionState, InTx, BuiltIsNewer, Holds
<1> QED BY <1>1, <1>2, <1>3 DEF IInv

\* The transaction marks the row in generation.
LEMMA DraftDirtyKeeps ==
    ASSUME IInv, NEW e \in Edits, DraftDirty(e)
    PROVE  IInv'
<1>1. TypeOK'
  BY DEF IInv, TypeOK, DraftDirty, Reach, SectionState, InTx
<1>2. LockIsHeld' /\ OverdueIsLapsed' /\ DraftKeepsRow'
  BY DEF IInv, DraftDirty, LockIsHeld, OverdueIsLapsed, DraftKeepsRow, SectionState
<1>3. BuiltIsNewer'
  BY DEF IInv, TypeOK, DraftDirty, Reach, SectionState, InTx, BuiltIsNewer, Holds
<1> QED BY <1>1, <1>2, <1>3 DEF IInv

\* The marks and the content become visible.
LEMMA CommitKeeps ==
    ASSUME IInv, NEW e \in Edits, Commit(e)
    PROVE  IInv'
<1>1. TypeOK'
  BY DEF IInv, TypeOK, Commit, Reach, Row, Statuses, InTx, Misses
<1>2. /\ section'.status = IF draft = "stale" THEN "STALE" ELSE section.status
      /\ section'.lock = section.lock /\ section'.basis = section.basis
  BY DEF Commit, Row
<1>3. LockIsHeld' /\ OverdueIsLapsed' /\ DraftKeepsRow'
  BY <1>2 DEF IInv, Commit, LockIsHeld, OverdueIsLapsed, DraftKeepsRow, Unlocked
<1>4. BuiltIsNewer'
  BY <1>2 DEF IInv, DraftKeepsRow, Commit, BuiltIsNewer, Holds
<1> QED BY <1>1, <1>3, <1>4 DEF IInv

\* The transaction is undone.
LEMMA RollbackKeeps ==
    ASSUME IInv, NEW e \in Edits, Rollback(e)
    PROVE  IInv'
<1>1. TypeOK'
  BY DEF IInv, TypeOK, Rollback, Reach, SectionState
<1>2. LockIsHeld' /\ OverdueIsLapsed' /\ DraftKeepsRow' /\ BuiltIsNewer'
  BY DEF IInv, Rollback, SectionState, LockIsHeld, OverdueIsLapsed, DraftKeepsRow,
         BuiltIsNewer, Holds
<1> QED BY <1>1, <1>2 DEF IInv

\* The first statement after the commit.
LEMMA MarkStaleKeeps ==
    ASSUME IInv, NEW e \in Edits, MarkStale(e)
    PROVE  IInv'
<1>1. CASE section.status = "COMPLETE"
  <2>1. section' = [status |-> "STALE",
                    lock |-> section.lock, stale |-> TRUE, basis |-> section.basis]
    BY <1>1 DEF MarkStale, Row, SectionState
  <2>2. edit' \in [Edits -> [kind : Kinds, pc : {"idle", "done", "after1", "after2"} \cup InTx]]
    BY <1>1 DEF MarkStale, Reach, SectionState, IInv, TypeOK
  <2>3. UNCHANGED <<content, run, draft, overdue, slipped>> /\ draft = "none"
    BY <1>1 DEF MarkStale, SectionState, RowFree, Row
  <2>4. TypeOK'
    BY <2>1, <2>2, <2>3 DEF IInv, TypeOK, Statuses
  <2>5. LockIsHeld' /\ OverdueIsLapsed' /\ DraftKeepsRow'
    BY <1>1, <2>1, <2>3 DEF IInv, TypeOK, LockIsHeld, OverdueIsLapsed, DraftKeepsRow, Unlocked
  <2>6. BuiltIsNewer'
    BY <2>1, <2>2, <2>3, ConstantsOK DEF IInv, TypeOK, LockIsHeld, BuiltIsNewer, Holds,
           Unlocked
  <2> QED BY <2>4, <2>5, <2>6 DEF IInv
<1>2. CASE section.status # "COMPLETE"
  <2>1. section' = section
    BY <1>2 DEF MarkStale, Row, SectionState
  <2>2. edit' \in [Edits -> [kind : Kinds, pc : {"idle", "done", "after1", "after2"} \cup InTx]]
    BY <1>2 DEF MarkStale, Reach, SectionState, IInv, TypeOK
  <2>3. UNCHANGED <<content, run, draft, overdue, slipped>>
    BY <1>2 DEF MarkStale, SectionState, RowFree, Row
  <2>4. TypeOK'
    BY <2>1, <2>2, <2>3 DEF IInv, TypeOK, Statuses
  <2>5. LockIsHeld' /\ OverdueIsLapsed' /\ DraftKeepsRow'
    BY <1>2, <2>1, <2>3 DEF IInv, TypeOK, LockIsHeld, OverdueIsLapsed, DraftKeepsRow, Unlocked
  <2>6. BuiltIsNewer'
    BY <2>1, <2>2, <2>3, ConstantsOK DEF IInv, TypeOK, LockIsHeld, BuiltIsNewer, Holds,
           Unlocked
  <2> QED BY <2>4, <2>5, <2>6 DEF IInv
<1> QED BY <1>1, <1>2

\* The second statement after the commit.
LEMMA MarkDirtyKeeps ==
    ASSUME IInv, NEW e \in Edits, MarkDirty(e)
    PROVE  IInv'
<1>1. CASE section.status = "GENERATING"
  <2>1. section' = [status |-> "GENERATING",
                    lock |-> section.lock, stale |-> TRUE, basis |-> section.basis]
    BY <1>1 DEF MarkDirty, Row, SectionState
  <2>2. edit' \in [Edits -> [kind : Kinds, pc : {"idle", "done", "after1", "after2"} \cup InTx]]
    BY <1>1 DEF MarkDirty, Reach, SectionState, IInv, TypeOK
  <2>3. UNCHANGED <<content, run, draft, overdue, slipped>> /\ draft = "none"
    BY <1>1 DEF MarkDirty, SectionState, RowFree, Row
  <2>4. TypeOK'
    BY <2>1, <2>2, <2>3 DEF IInv, TypeOK, Statuses
  <2>5. LockIsHeld' /\ OverdueIsLapsed' /\ DraftKeepsRow'
    BY <1>1, <2>1, <2>3 DEF IInv, TypeOK, LockIsHeld, OverdueIsLapsed, DraftKeepsRow, Unlocked
  <2>6. BuiltIsNewer'
    BY <2>1, <2>2, <2>3, ConstantsOK DEF IInv, TypeOK, LockIsHeld, BuiltIsNewer, Holds,
           Unlocked
  <2> QED BY <2>4, <2>5, <2>6 DEF IInv
<1>2. CASE section.status # "GENERATING"
  <2>1. section' = section
    BY <1>2 DEF MarkDirty, Row, SectionState
  <2>2. edit' \in [Edits -> [kind : Kinds, pc : {"idle", "done", "after1", "after2"} \cup InTx]]
    BY <1>2 DEF MarkDirty, Reach, SectionState, IInv, TypeOK
  <2>3. UNCHANGED <<content, run, draft, overdue, slipped>>
    BY <1>2 DEF MarkDirty, SectionState, RowFree, Row
  <2>4. TypeOK'
    BY <2>1, <2>2, <2>3 DEF IInv, TypeOK, Statuses
  <2>5. LockIsHeld' /\ OverdueIsLapsed' /\ DraftKeepsRow'
    BY <1>2, <2>1, <2>3 DEF IInv, TypeOK, LockIsHeld, OverdueIsLapsed, DraftKeepsRow, Unlocked
  <2>6. BuiltIsNewer'
    BY <2>1, <2>2, <2>3, ConstantsOK DEF IInv, TypeOK, LockIsHeld, BuiltIsNewer, Holds,
           Unlocked
  <2> QED BY <2>4, <2>5, <2>6 DEF IInv
<1> QED BY <1>1, <1>2

\* A generation dies and leaves the row as it is.
LEMMA CrashKeeps ==
    ASSUME IInv, NEW r \in Runs, Crash(r)
    PROVE  IInv'
<1>1. TypeOK'
  BY DEF IInv, TypeOK, Crash, Quit, EditState, Idle, Statuses
<1>2. LockIsHeld' /\ OverdueIsLapsed' /\ DraftKeepsRow'
  BY DEF IInv, Crash, LockIsHeld, OverdueIsLapsed, DraftKeepsRow, EditState
<1>3. BuiltIsNewer'
  BY DEF IInv, TypeOK, Crash, Quit, EditState, Idle, Statuses, BuiltIsNewer, Holds
<1> QED BY <1>1, <1>2, <1>3 DEF IInv

\* An invalidation is lost.
LEMMA InvalidationFailsKeeps ==
    ASSUME IInv, NEW e \in Edits, InvalidationFails(e)
    PROVE  IInv'
<1>1. TypeOK'
  BY DEF IInv, TypeOK, InvalidationFails, Reach
<1>2. LockIsHeld' /\ OverdueIsLapsed' /\ DraftKeepsRow'
  BY DEF IInv, InvalidationFails, LockIsHeld, OverdueIsLapsed, DraftKeepsRow
<1>3. BuiltIsNewer'
  BY DEF IInv, TypeOK, InvalidationFails, Reach, BuiltIsNewer, Holds
<1> QED BY <1>1, <1>2, <1>3 DEF IInv

-----------------------------------------------------------------------------
\* Every step preserves the invariant.
LEMMA NextPreserves == IInv /\ [Next]_vars => IInv'
<1> SUFFICES ASSUME IInv, [Next]_vars PROVE IInv'
  OBVIOUS
<1>1. ASSUME NEW r \in Runs, RunStep(r) PROVE IInv'
  <2>1. CASE CheckMode(r)
    BY <2>1, CheckModeKeeps
  <2>2. CASE ReadLock(r)
    BY <2>2, ReadLockKeeps
  <2>3. CASE TakeLock(r)
    BY <2>3, TakeLockKeeps
  <2>4. CASE Build(r)
    BY <2>4, BuildKeeps
  <2>5. CASE Publish(r)
    BY <2>5, PublishKeeps
  <2>6. CASE Release(r)
    BY <2>6, ReleaseKeeps
  <2>7. CASE Fail(r)
    BY <2>7, FailKeeps
  <2> QED BY <1>1, <2>1, <2>2, <2>3, <2>4, <2>5, <2>6, <2>7 DEF RunStep
<1>2. ASSUME NEW e \in Edits, EditStep(e) PROVE IInv'
  <2>1. CASE Begin(e)
    BY <2>1, BeginKeeps
  <2>2. CASE DraftStale(e)
    BY <2>2, DraftStaleKeeps
  <2>3. CASE DraftDirty(e)
    BY <2>3, DraftDirtyKeeps
  <2>4. CASE Commit(e)
    BY <2>4, CommitKeeps
  <2>5. CASE Rollback(e)
    BY <2>5, RollbackKeeps
  <2>6. CASE MarkStale(e)
    BY <2>6, MarkStaleKeeps
  <2>7. CASE MarkDirty(e)
    BY <2>7, MarkDirtyKeeps
  <2> QED BY <1>2, <2>1, <2>2, <2>3, <2>4, <2>5, <2>6, <2>7 DEF EditStep
<1>3. CASE UNCHANGED vars
  BY <1>3 DEF vars, IInv, TypeOK, LockIsHeld, OverdueIsLapsed, BuiltIsNewer, DraftKeepsRow,
         Holds
<1> QED BY <1>1, <1>2, <1>3, LapseKeeps, CrashKeeps, InvalidationFailsKeeps DEF Next

\* The invariant holds in every behaviour.
THEOREM Invariance == Spec => []IInv
  BY InitEstablishes, NextPreserves, PTL DEF Spec

\* Every variable keeps its type; nothing is built from uncommitted content.
THEOREM TypeCorrect == Spec => []TypeOK
<1>1. IInv => TypeOK
  BY DEF IInv
<1> QED BY <1>1, Invariance, PTL

\* Only a claim changes the holder, and a claim needs no lock or the expired one.
THEOREM LiveLockIsSafe == Spec => NoLiveTakeover
<1> DEFINE Safe == section.lock # Unlocked /\ ~ section.lock.lapsed
                      => section'.lock.token \in {section.lock.token, NoRun}
<1>1. ASSUME IInv, [Next]_vars PROVE Safe
  <2>1. ASSUME NEW r \in Runs, TakeLock(r) PROVE Safe
    <3>1. CASE Claims(r)
      <4>1. section.lock = Unlocked \/ section.lock.lapsed
        BY <1>1, <3>1 DEF IInv, OverdueIsLapsed, Claims
      <4> QED BY <4>1
    <3>2. CASE ~ Claims(r)
      BY <2>1, <3>2 DEF TakeLock
    <3> QED BY <3>1, <3>2
  <2>2. CASE section'.lock = section.lock \/ section'.lock = Unlocked
    BY <2>2 DEF Unlocked
  <2>3. CASE Lapse
    <3>1. section'.lock.token = section.lock.token
      BY <2>3 DEF Lapse, Row
    <3> QED BY <3>1
  <2>4. CASE UNCHANGED vars
    BY <2>4 DEF vars
  <2>5. ASSUME NEW r \in Runs, RunStep(r) PROVE Safe
    <3>1. CASE CheckMode(r) \/ ReadLock(r) \/ Build(r)
      BY <2>2, <3>1 DEF CheckMode, ReadLock, Build
    <3>2. CASE Publish(r)
      <4>1. CASE Publishes(r)
        BY <2>2, <3>2, <4>1 DEF Publish, Row
      <4>2. CASE ~ Publishes(r)
        BY <2>2, <3>2, <4>2 DEF Publish
      <4> QED BY <4>1, <4>2
    <3>3. CASE Release(r)
      BY <2>2, <3>3 DEF Release, Row
    <3>4. CASE Fail(r)
      BY <2>2, <3>4 DEF Fail, Row
    <3> QED BY <2>1, <2>5, <3>1, <3>2, <3>3, <3>4 DEF RunStep
  <2>6. ASSUME NEW e \in Edits, EditStep(e) PROVE Safe
    <3>1. CASE Begin(e) \/ DraftStale(e) \/ DraftDirty(e) \/ Rollback(e)
      BY <2>2, <3>1 DEF Begin, DraftStale, DraftDirty, Rollback, SectionState
    <3>2. CASE Commit(e)
      BY <2>2, <3>2 DEF Commit, Row
    <3>3. CASE MarkStale(e)
      BY <2>2, <3>3 DEF MarkStale, Row
    <3>4. CASE MarkDirty(e)
      BY <2>2, <3>4 DEF MarkDirty, Row
    <3> QED BY <2>6, <3>1, <3>2, <3>3, <3>4 DEF EditStep
  <2>7. ASSUME NEW r \in Runs, Crash(r) PROVE Safe
    BY <2>2, <2>7 DEF Crash
  <2>8. ASSUME NEW e \in Edits, InvalidationFails(e) PROVE Safe
    BY <2>2, <2>8 DEF InvalidationFails
  <2> QED BY <1>1, <2>3, <2>4, <2>5, <2>6, <2>7, <2>8 DEF Next
<1>2. IInv /\ [Next]_vars => [Safe]_vars
  BY <1>1
<1> QED BY <1>2, Invariance, PTL DEF Spec, NoLiveTakeover

\* Only the holder publishes, and it has built nothing older than the payload.
THEOREM PayloadNeverRegresses == Spec => PublishedNeverRegresses
<1>1. ASSUME IInv, [Next]_vars PROVE section'.basis >= section.basis
  <2>1. section.basis \in Nat
    BY <1>1 DEF IInv, TypeOK
  <2>2. CASE section'.basis = section.basis
    BY <2>1, <2>2
  <2>3. ASSUME NEW r \in Runs, Publish(r) PROVE section'.basis >= section.basis
    <3>1. CASE Publishes(r)
      <4>1. section'.basis = run[r].basis
        BY <2>3, <3>1 DEF Publish, Row
      <4> QED BY <1>1, <2>3, <3>1, <4>1 DEF IInv, BuiltIsNewer, Publish, Publishes
    <3>2. CASE ~ Publishes(r)
      BY <2>2, <2>3, <3>2 DEF Publish
    <3> QED BY <3>1, <3>2
  <2>4. ASSUME NEW r \in Runs, RunStep(r) PROVE section'.basis >= section.basis
    <3>1. CASE CheckMode(r) \/ ReadLock(r) \/ Build(r)
      BY <2>2, <3>1 DEF CheckMode, ReadLock, Build
    <3>2. CASE TakeLock(r)
      BY <2>2, <3>2 DEF TakeLock, Row
    <3>3. CASE Release(r)
      BY <2>2, <3>3 DEF Release, Row
    <3>4. CASE Fail(r)
      BY <2>2, <3>4 DEF Fail, Row
    <3> QED BY <2>3, <2>4, <3>1, <3>2, <3>3, <3>4 DEF RunStep
  <2>5. ASSUME NEW e \in Edits, EditStep(e) PROVE section'.basis >= section.basis
    <3>1. CASE Begin(e) \/ DraftStale(e) \/ DraftDirty(e) \/ Rollback(e)
      BY <2>2, <3>1 DEF Begin, DraftStale, DraftDirty, Rollback, SectionState
    <3>2. CASE Commit(e)
      BY <2>2, <3>2 DEF Commit, Row
    <3>3. CASE MarkStale(e)
      BY <2>2, <3>3 DEF MarkStale, Row
    <3>4. CASE MarkDirty(e)
      BY <2>2, <3>4 DEF MarkDirty, Row
    <3> QED BY <2>5, <3>1, <3>2, <3>3, <3>4 DEF EditStep
  <2>6. CASE Lapse
    BY <2>2, <2>6 DEF Lapse, Row
  <2>7. CASE UNCHANGED vars
    BY <2>2, <2>7 DEF vars
  <2>8. ASSUME NEW r \in Runs, Crash(r) PROVE section'.basis >= section.basis
    BY <2>2, <2>8 DEF Crash
  <2>9. ASSUME NEW e \in Edits, InvalidationFails(e) PROVE section'.basis >= section.basis
    BY <2>2, <2>9 DEF InvalidationFails
  <2> QED BY <1>1, <2>4, <2>5, <2>6, <2>7, <2>8, <2>9 DEF Next
<1>2. IInv /\ [Next]_vars => [section'.basis >= section.basis]_vars
  BY <1>1
<1> QED BY <1>2, Invariance, PTL DEF Spec, PublishedNeverRegresses

-----------------------------------------------------------------------------
\* While nothing has been missed, an outdated payload is about to be invalidated,
\* and so is the generation under way that has read outdated content.
Coming(stages) == \E e \in Edits : edit[e].pc \in stages
Watched ==
    /\ section.status = "COMPLETE" /\ section.basis < content => slipped \/ Coming({"after1"})
    /\ \A r \in Runs :
          run[r].pc = "built" /\ Holds(r) /\ ~ section.stale /\ run[r].basis < content
              => slipped \/ Coming({"after1", "after2"})

\* An open transaction keeps the row in generation that it has marked.
DraftKeepsRun == draft = "dirty" => section.status = "GENERATING"

\* The steps of requests keep it: a claim starts afresh, and what is published
\* between the two statements of an invalidation is noted.
LEMMA RequestsKeepWatch ==
    ASSUME IInv, Watched, DraftKeepsRun, NEW r \in Runs, RunStep(r) \/ Crash(r)
    PROVE  Watched' /\ DraftKeepsRun'
<1> USE DEF IInv, TypeOK, Watched, DraftKeepsRun, Coming, EditState
<1>1. CASE CheckMode(r)
  BY <1>1 DEF CheckMode, Enter, Holds
<1>2. CASE ReadLock(r)
  BY <1>2 DEF ReadLock, Quit, Idle, Holds
<1>3. CASE TakeLock(r)
  BY <1>3, ConstantsOK DEF TakeLock, Quit, Idle, Holds, Row, RowFree
<1>4. CASE Build(r)
  BY <1>4 DEF Build, Holds
<1>5. CASE Publish(r)
  <2>1. CASE Publishes(r)
    <3>1. /\ section' = [status |-> "COMPLETE", lock |-> Unlocked, stale |-> FALSE, basis |-> run[r].basis]
          /\ draft = "none" /\ UNCHANGED <<content, edit, draft>>
          /\ slipped' = (slipped \/ \E e \in Edits : edit[e].pc = "after2")
          /\ run[r].pc = "built" /\ Holds(r) /\ ~ section.stale
      BY <1>5, <2>1 DEF Publish, Publishes, Row, RowFree
    <3>2. run[r].basis < content => slipped' \/ Coming({"after1"})'
      BY <3>1
    <3> QED BY <3>1, <3>2 DEF Holds
  <2>2. CASE ~ Publishes(r)
    BY <1>5, <2>2 DEF Publish, Enter, Holds
  <2> QED BY <2>1, <2>2
<1>6. CASE Release(r)
  BY <1>6 DEF Release, Quit, Idle, Holds, Row, RowFree
<1>7. CASE Fail(r)
  BY <1>7 DEF Fail, Quit, Idle, Holds, Row, RowFree
<1>8. CASE Crash(r)
  BY <1>8 DEF Crash, Quit, Idle, Holds
<1> QED BY <1>1, <1>2, <1>3, <1>4, <1>5, <1>6, <1>7, <1>8 DEF RunStep

\* The steps of edits keep it: what is committed is marked, is marked next, or
\* has missed the row.
LEMMA EditsKeepWatch ==
    ASSUME IInv, Watched, DraftKeepsRun, NEW e \in Edits, EditStep(e) \/ InvalidationFails(e)
    PROVE  Watched' /\ DraftKeepsRun'
<1> USE DEF IInv, TypeOK, Watched, DraftKeepsRun, Coming, SectionState
<1>1. CASE Begin(e)
  BY <1>1 DEF Begin, Reach, Holds, InTx
<1>2. CASE DraftStale(e)
  BY <1>2 DEF DraftStale, Reach, Holds
<1>3. CASE DraftDirty(e)
  BY <1>3 DEF DraftDirty, Reach, Holds
<1>4. CASE Commit(e)
  <2>1. CASE edit[e].kind = "document"
    <3>1. CASE draft = "none"
      BY <1>4, <2>1, <3>1 DEF Commit, Misses, Row, Holds, Reach
    <3>2. CASE draft # "none"
      BY <1>4, <2>1, <3>2 DEF Commit, Misses, Row, Holds, Reach
    <3> QED BY <3>1, <3>2
  <2>2. CASE edit[e].kind # "document"
    <3>1. edit'[e].pc = "after1"
      BY <1>4, <2>2 DEF Commit, Reach
    <3>2. draft' = "none"
      BY <1>4 DEF Commit
    <3> QED BY <3>1, <3>2
  <2> QED BY <2>1, <2>2
<1>5. CASE Rollback(e)
  BY <1>5 DEF Rollback, Reach, Holds, InTx
<1>6. CASE MarkStale(e)
  BY <1>6 DEF MarkStale, Reach, Row, RowFree, Holds
<1>7. CASE MarkDirty(e)
  BY <1>7 DEF MarkDirty, Reach, Row, RowFree, Holds
<1>8. CASE InvalidationFails(e)
  BY <1>8 DEF InvalidationFails, Reach
<1> QED BY <1>1, <1>2, <1>3, <1>4, <1>5, <1>6, <1>7, <1>8 DEF EditStep

\* A payload is COMPLETE and outdated only before its invalidation or past a
\* missed one, for any number of requests and edits, and with every fault.
THEOREM GapOnly == Spec => []OutdatedOnlyThroughTheGap
<1>1. Init => Watched /\ DraftKeepsRun
  BY DEF Init, Watched, DraftKeepsRun, Holds
<1>2. IInv /\ Watched /\ DraftKeepsRun /\ [Next]_vars => Watched' /\ DraftKeepsRun'
  <2> SUFFICES ASSUME IInv, Watched, DraftKeepsRun, [Next]_vars PROVE Watched' /\ DraftKeepsRun'
    OBVIOUS
  <2>1. CASE Lapse
    BY <2>1 DEF Lapse, Row, EditState, Watched, DraftKeepsRun, Coming, Holds
  <2>2. CASE UNCHANGED vars
    BY <2>2 DEF vars, Watched, DraftKeepsRun, Coming, Holds
  <2> QED BY <2>1, <2>2, RequestsKeepWatch, EditsKeepWatch DEF Next
<1>3. Watched => OutdatedOnlyThroughTheGap
  BY DEF Watched, Coming, OutdatedOnlyThroughTheGap
<1> QED BY <1>1, <1>2, <1>3, Invariance, PTL DEF Spec
=============================================================================
