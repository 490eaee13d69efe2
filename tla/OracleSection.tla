---------------------------- MODULE OracleSection ----------------------------
(***************************************************************************)
(* One section of the Oracle (the deliverable compiled from the pillars),  *)
(* the requests that generate it and the edits that outdate it.            *)
(*                                                                         *)
(* A generation takes a lock in the row of the section (a random token     *)
(* with a time to live), reads the content of the brand, runs for as long  *)
(* as it takes, and publishes what it built.  Meanwhile edits commit new   *)
(* content and invalidate the section: inside their transaction            *)
(* (markPillarsStale), after its commit (invalidateOracleAfterCommit), or  *)
(* both.  Every statement on the section is one step; a row written by an  *)
(* open transaction is seen by nobody, and blocks its other writers, until *)
(* the commit.  The rows of a strategy are invalidated one by one, so one  *)
(* row is enough.                                                          *)
(***************************************************************************)
EXTENDS Naturals, FiniteSets

CONSTANTS Runs,      \* requests GENERATE_ORACLE_SECTION; each may come again
          NoRun,     \* lockToken is null
          Edits,     \* transactions that change the content
          Kinds      \* the kinds of edit that occur

ASSUME ConstantsOK == NoRun \notin Runs /\ IsFiniteSet(Edits)

\* "upstream": writePillar of a pillar with dependents; "synthesis": writePillar
\* of S, which has none; "document": markPillarsStale in another transaction.
EditKinds == {"upstream", "synthesis", "document"}

ASSUME KindsOK == Kinds \subseteq EditKinds

VARIABLES content,  \* number of committed edits: the version of the content
          section,  \* the row; basis is the version its payload was built from
          run,      \* run[r]: where the handler stands, what it has read
          edit,     \* edit[e]: kind and progress of an edit
          draft,    \* what the open transaction has written to the row
          overdue,  \* requests whose "now" is past the lockExpiresAt of the lock
          slipped   \* history: no invalidation of the payload, or of the generation, is left

vars == <<content, section, run, edit, draft, overdue, slipped>>

Statuses == {"PENDING", "GENERATING", "COMPLETE", "FAILED", "STALE"}
Versions == 0..Cardinality(Edits)
InTx == {"first", "second", "commit"}

Unlocked == [token |-> NoRun, lapsed |-> FALSE]
Idle == [pc |-> "idle", status |-> "PENDING", basis |-> 0]

Init ==
    /\ content = 0
    /\ section = [status |-> "PENDING", lock |-> Unlocked, stale |-> FALSE, basis |-> 0]
    /\ run = [r \in Runs |-> Idle]
    /\ edit \in [Edits -> [kind : Kinds, pc : {"idle"}]]
    /\ draft = "none"
    /\ overdue = {}
    /\ slipped = FALSE

-----------------------------------------------------------------------------
(* The handler of GENERATE_ORACLE_SECTION                                    *)

RowFree == draft = "none"
Enter(r, where) == run' = [run EXCEPT ![r].pc = where]
Quit(r) == run' = [run EXCEPT ![r] = Idle]
EditState == <<content, edit, draft>>

\* An update of the row, column by column.
Row(status, lock, stale, basis) ==
    section' = [status |-> status, lock |-> lock, stale |-> stale, basis |-> basis]

\* validateModeAgainstStatus
ModeAllows(mode, status) ==
    /\ status # "GENERATING"
    /\ mode = "FRESH" => status # "COMPLETE"
    /\ mode = "RETRY" => status \in {"FAILED", "STALE"}

\* getSection, then the check of the requested mode.
CheckMode(r) ==
    /\ run[r].pc = "idle"
    /\ \E mode \in {"FRESH", "REGEN", "RETRY"} : ModeAllows(mode, section.status)
    /\ Enter(r, "checked")
    /\ UNCHANGED <<EditState, section, overdue, slipped>>

\* acquireGenerationLock reads the row ...
ReadLock(r) ==
    /\ run[r].pc = "checked"
    /\ IF section.status = "GENERATING" /\ section.lock # Unlocked /\ ~ section.lock.lapsed
       THEN Quit(r)
       ELSE run' = [run EXCEPT ![r] = [pc |-> "read", status |-> section.status, basis |-> 0]]
    /\ overdue' = IF section.lock.lapsed THEN overdue \cup {r} ELSE overdue \ {r}
    /\ UNCHANGED <<EditState, section, slipped>>

\* Slip, once real: the row is matched by its id, whatever its lock.
ClaimsById(r) == section.status = run[r].status

\* The where clause of the claim: the status as read, and a lock that is null
\* or that had expired by the time of the read.
Claims(r) ==
    /\ section.status = run[r].status
    /\ section.lock = Unlocked \/ r \in overdue

\* ... and claims it with a conditional update.
TakeLock(r) ==
    /\ run[r].pc = "read"
    /\ IF Claims(r)
       THEN /\ RowFree
            /\ Row("GENERATING", [token |-> r, lapsed |-> FALSE], FALSE, section.basis)
            /\ run' = [run EXCEPT ![r] = [pc |-> "locked", status |-> "PENDING", basis |-> 0]]
            /\ overdue' = {} /\ slipped' = FALSE
       ELSE Quit(r) /\ UNCHANGED <<section, overdue, slipped>>
    /\ UNCHANGED EditState

\* dispatchRunner reads the strategy and its pillars, and builds the payload.
Build(r) ==
    /\ run[r].pc = "locked"
    /\ run' = [run EXCEPT ![r] = [pc |-> "built", status |-> "PENDING", basis |-> content]]
    /\ UNCHANGED <<EditState, section, overdue, slipped>>

Holds(r) == section.status = "GENERATING" /\ section.lock.token = r

\* Slip: lockToken is not in the where clause of the success.
PublishesAnyone(r) == section.status = "GENERATING" /\ ~ section.stale

\* The where clause of recordGenerationSuccess.
Publishes(r) == Holds(r) /\ ~ section.stale

\* recordGenerationSuccess, first statement
Publish(r) ==
    /\ run[r].pc = "built"
    /\ IF Publishes(r)
       THEN /\ RowFree
            /\ Row("COMPLETE", Unlocked, FALSE, run[r].basis)
            /\ slipped' = (slipped \/ \E e \in Edits : edit[e].pc = "after2")
            /\ Quit(r)
       ELSE Enter(r, "refused") /\ UNCHANGED <<section, slipped>>
    /\ UNCHANGED <<EditState, overdue>>

\* Slip: a refused result is offered again.
OfferAgain(r) ==
    /\ run[r].pc = "refused"
    /\ Enter(r, "built")
    /\ UNCHANGED <<EditState, section, overdue, slipped>>

\* recordGenerationSuccess, second statement: SOURCE_CHANGED, or the diagnosis
\* of a lock that has another holder.
Release(r) ==
    /\ run[r].pc = "refused"
    /\ IF Holds(r) /\ section.stale
       THEN RowFree /\ Row("STALE", Unlocked, TRUE, section.basis)
       ELSE UNCHANGED section
    /\ Quit(r)
    /\ UNCHANGED <<EditState, overdue, slipped>>

\* The runner throws: recordGenerationFailure.
Fail(r) ==
    /\ run[r].pc = "locked"
    /\ IF Holds(r)
       THEN RowFree /\ Row("FAILED", Unlocked, section.stale, section.basis)
       ELSE UNCHANGED section
    /\ Quit(r)
    /\ UNCHANGED <<EditState, overdue, slipped>>

\* lockExpiresAt passes.
Lapse ==
    /\ section.lock # Unlocked /\ ~ section.lock.lapsed
    /\ Row(section.status, [token |-> section.lock.token, lapsed |-> TRUE], section.stale, section.basis)
    /\ UNCHANGED <<EditState, run, overdue, slipped>>

RunStep(r) ==
    CheckMode(r) \/ ReadLock(r) \/ TakeLock(r) \/ Build(r) \/ Publish(r) \/ Release(r) \/ Fail(r)

-----------------------------------------------------------------------------
(* Edits                                                                     *)

Reach(e, where) == edit' = [edit EXCEPT ![e].pc = where]
SectionState == <<section, run, overdue, slipped>>

\* SELECT ... FROM "Strategy" ... FOR UPDATE: one edit of a strategy at a time.
Begin(e) ==
    /\ edit[e].pc = "idle"
    /\ \A f \in Edits : edit[f].pc \notin InTx
    /\ Reach(e, IF edit[e].kind = "synthesis" THEN "commit" ELSE "first")
    /\ UNCHANGED <<SectionState, content, draft>>

\* markAllSectionsStale in the transaction: the COMPLETE rows ...
DraftStale(e) ==
    /\ edit[e].pc = "first"
    /\ draft' = IF section.status = "COMPLETE" THEN "stale" ELSE "none"
    /\ Reach(e, "second")
    /\ UNCHANGED <<SectionState, content>>

\* ... then the GENERATING rows.
DraftDirty(e) ==
    /\ edit[e].pc = "second"
    /\ draft' = IF section.status = "GENERATING" THEN "dirty" ELSE draft
    /\ Reach(e, "commit")
    /\ UNCHANGED <<SectionState, content>>

\* The transaction of e has marked neither the payload nor a generation that has
\* read its content, and nothing else is going to.
Misses(e) ==
    /\ edit[e].kind = "document" /\ draft = "none"
    /\ section.status = "COMPLETE" \/ \E r \in Runs : run[r].pc = "built" /\ Holds(r)

Commit(e) ==
    /\ edit[e].pc = "commit"
    /\ content' = content + 1
    /\ Row(IF draft = "stale" THEN "STALE" ELSE section.status, section.lock,
           section.stale \/ draft # "none", section.basis)
    /\ draft' = "none"
    /\ Reach(e, IF edit[e].kind = "document" THEN "done" ELSE "after1")
    /\ slipped' = (slipped \/ Misses(e))
    /\ UNCHANGED <<run, overdue>>

\* A conflict or any error of the transaction.
Rollback(e) ==
    /\ edit[e].pc \in InTx
    /\ draft' = "none"
    /\ Reach(e, "done")
    /\ UNCHANGED <<SectionState, content>>

\* Slip: the sections are invalidated in the transaction only.
SkipStale(e) ==
    /\ edit[e].pc = "after1"
    /\ Reach(e, "after2")
    /\ UNCHANGED <<content, run, draft, overdue, slipped, section>>

\* invalidateOracleAfterCommit: the same two statements once more.
MarkStale(e) ==
    /\ edit[e].pc = "after1"
    /\ IF section.status = "COMPLETE"
       THEN RowFree /\ Row("STALE", section.lock, TRUE, section.basis)
       ELSE UNCHANGED section
    /\ Reach(e, "after2")
    /\ UNCHANGED <<content, run, draft, overdue, slipped>>

MarkDirty(e) ==
    /\ edit[e].pc = "after2"
    /\ IF section.status = "GENERATING"
       THEN RowFree /\ Row("GENERATING", section.lock, TRUE, section.basis)
       ELSE UNCHANGED section
    /\ Reach(e, "done")
    /\ UNCHANGED <<content, run, draft, overdue, slipped>>

EditStep(e) ==
    Begin(e) \/ DraftStale(e) \/ DraftDirty(e) \/ Commit(e) \/ Rollback(e) \/ MarkStale(e) \/ MarkDirty(e)

-----------------------------------------------------------------------------
(* Faults                                                                    *)

\* The process of a generation dies; a client may ask again.
Crash(r) ==
    /\ run[r].pc \in {"locked", "built", "refused"}
    /\ Quit(r)
    /\ UNCHANGED <<EditState, section, overdue, slipped>>

\* The error of the invalidation after the commit is swallowed, or the process
\* dies before it: an already committed pillar is not rolled back.
InvalidationFails(e) ==
    /\ edit[e].pc \in {"after1", "after2"}
    /\ Reach(e, "done")
    /\ slipped' = TRUE
    /\ UNCHANGED <<section, run, overdue, content, draft>>

Next ==
    \/ Lapse
    \/ \E r \in Runs : RunStep(r) \/ Crash(r)
    \/ \E e \in Edits : EditStep(e) \/ InvalidationFails(e)

Fairness ==
    /\ WF_vars(Lapse)
    /\ \A r \in Runs : WF_vars(RunStep(r))
    /\ \A e \in Edits : WF_vars(EditStep(e))

Spec == Init /\ [][Next]_vars
FairSpec == Spec /\ Fairness

-----------------------------------------------------------------------------
\* Every variable has its type; nothing is built from content that is not
\* committed.
TypeOK ==
    /\ content \in Nat
    /\ section \in [status : Statuses, lock : [token : Runs \cup {NoRun}, lapsed : BOOLEAN],
                    stale : BOOLEAN, basis : 0..content]
    /\ run \in [Runs -> [pc : {"idle", "checked", "read", "locked", "built", "refused"},
                         status : Statuses, basis : 0..content]]
    /\ edit \in [Edits -> [kind : Kinds,
                           pc : {"idle", "done", "after1", "after2"} \cup InTx]]
    /\ draft \in {"none", "stale", "dirty"}
    /\ overdue \subseteq Runs
    /\ slipped \in BOOLEAN

\* A lock within its time to live is taken from nobody, even by requests that
\* saw the expired lock of an earlier holder.
NoLiveTakeover ==
    [][section.lock # Unlocked /\ ~ section.lock.lapsed
         => section'.lock.token \in {section.lock.token, NoRun}]_vars

\* The late result of an overtaken generation never replaces a newer payload.
PublishedNeverRegresses == [][section'.basis >= section.basis]_vars

\* A section is COMPLETE with outdated content only while an invalidation is
\* still to come, or if one has missed it: the generation ended between its two
\* statements, the one after the commit was lost, or the edit, not being of a
\* pillar, had none.
OutdatedOnlyThroughTheGap ==
    section.status = "COMPLETE" /\ section.basis < content
        => slipped \/ \E e \in Edits : edit[e].pc = "after1"

Orphaned == \E r \in Runs : Holds(r) /\ run[r].pc \notin {"locked", "built", "refused"}

\* A generation ends: whatever expires, is overtaken or is invalidated meanwhile,
\* the section leaves GENERATING unless the process that holds it dies.
GenerationEnds == section.status = "GENERATING" ~> section.status # "GENERATING" \/ Orphaned

-----------------------------------------------------------------------------
(* What a comment of the repository says and the code does not do.           *)

\* oracle-section/index.ts: the lock has a time to live so that a new caller
\* takes it over when the old one has crashed ("Evite les deadlocks eternels").
OrphanIsTakenOver == Orphaned ~> ~ Orphaned
=============================================================================
