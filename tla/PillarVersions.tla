--------------------------- MODULE PillarVersions ---------------------------
(***************************************************************************)
(* The versions of one pillar, and the compensation of one of its writes   *)
(* under the writes that came after it (ADR-0207).                         *)
(*                                                                         *)
(* Every accepted write archives the content before it and the delta it    *)
(* applied.  A restoration reads the pillar, plans a three-way merge of    *)
(* before, applied and current, and only then takes the locks, compares    *)
(* what it read and persists.  Writes, marks and decisions hold the lock   *)
(* of the Strategy row, so each of them is one step.                       *)
(*                                                                         *)
(* A leaf is a path of the content, its value atomic as an array is;       *)
(* provenance and certainty are leaves of their own.  Receipts of sources, *)
(* rights and confidence only add refusals, which GiveUp stands for.       *)
(***************************************************************************)
EXTENDS Naturals, FiniteSets

CONSTANTS Synthesis,    \* whether the pillar is S
          Leaves, Values, Absent,
          Targets,      \* bound: the values of targetStatus that a writer gives
          Decisions,    \* bound: the statuses that people decide for
          MaxChanged,   \* bound: leaves that an ordinary write changes
          Requests,     \* restorations under way at the same time
          MaxVersions,  \* bound: currentVersion
          MaxMarks      \* bound: marks of staleness

Statuses == {"DRAFT", "AI_PROPOSED", "VALIDATED", "LOCKED"}

ASSUME VersionsAssumption ==
    /\ Synthesis \in BOOLEAN
    /\ Targets \subseteq Statuses /\ Decisions \subseteq Statuses
    /\ MaxChanged \in Nat
    /\ Absent \notin Values
    /\ MaxVersions \in Nat \ {0} /\ MaxMarks \in Nat

VARIABLES pillar,     \* the Pillar row
          archive,    \* archive[v]: the PillarVersion row of the write of version v
          marks,      \* marks so far: a clock for staleAt
          restore,    \* restore[r]: the request in hand
          answered,   \* history: answered[v], marks that version v of the content answers
          approved    \* history: the version that was last approved, 0 if none

vars == <<pillar, archive, marks, restore, answered, approved>>

Versions == 1..MaxVersions
Slots == Values \cup {Absent}
Contents == [Leaves -> Slots]

Empty == [l \in Leaves |-> Absent]
NoEffect == <<"none", 0>>
Blank == [intent |-> 0, before |-> Empty, changed |-> {}, after |-> Empty, effect |-> NoEffect, target |-> 0,
          status |-> <<"DRAFT", "DRAFT">>, stale |-> <<0, 0>>]
New == [version |-> 1, content |-> Empty, status |-> "DRAFT", stale |-> 0]
Idle == [busy |-> FALSE, row |-> 0, effect |-> NoEffect, read |-> New]

Init ==
    /\ pillar = New
    /\ archive = [v \in Versions |-> Blank]
    /\ marks = 0
    /\ restore = [r \in Requests |-> Idle]
    /\ answered = [v \in Versions |-> 0]
    /\ approved = 0

Archived == {v \in Versions : v < pillar.version}

-----------------------------------------------------------------------------
(* What a write leaves behind                                                *)

\* Slip: a restored or written status is persisted as it comes.
AnyStatus(status) == status

\* A new version of S is a new object to review.
StatusOf(status) == IF Synthesis /\ status \in {"VALIDATED", "LOCKED"} THEN "AI_PROPOSED" ELSE status

\* createVersion and the conditional update; the content and the metadata that
\* are archived as "before" are those the writer read.
Persist(read, new, intent, effect, target) ==
    /\ pillar.version < MaxVersions
    /\ archive' = [archive EXCEPT ![pillar.version] =
          [intent |-> intent, before |-> pillar.content,
           changed |-> {l \in Leaves : new.content[l] # read.content[l]}, after |-> new.content,
           effect |-> effect, target |-> target,
           status |-> <<read.status, StatusOf(new.status)>>, stale |-> <<read.stale, new.stale>>]]
    /\ pillar' = [version |-> pillar.version + 1, content |-> new.content,
                  status |-> StatusOf(new.status), stale |-> new.stale]

\* writePillar, any operation but RESTORE_VERSION.  It answers every mark.  A person
\* keeps the status and a program takes an approval back, unless they say otherwise,
\* which for S they may not.  Several writes may carry one intention, or none.
Written == {pillar.status, IF pillar.status = "VALIDATED" THEN "AI_PROPOSED" ELSE pillar.status}
           \cup (IF Synthesis THEN Targets \ {"VALIDATED", "LOCKED"} ELSE Targets)

Intents == {0, pillar.version} \cup {archive[v].intent : v \in {u \in Archived : archive[u].target = 0}}

Write(content) ==
    /\ Cardinality({l \in Leaves : content[l] # pillar.content[l]}) <= MaxChanged
    /\ \E status \in Written, intent \in Intents :
          Persist(pillar, [content |-> content, status |-> status, stale |-> 0], intent, NoEffect, 0)
    /\ answered' = [answered EXCEPT ![pillar.version + 1] = marks]
    /\ UNCHANGED <<marks, restore, approved>>

\* markPillarsStale: no new version; the review of S is withdrawn.
Mark ==
    /\ marks < MaxMarks
    /\ marks' = marks + 1
    /\ pillar' = [pillar EXCEPT !.stale = marks + 1,
                    !.status = IF Synthesis /\ @ = "VALIDATED" THEN "AI_PROPOSED" ELSE @]
    /\ UNCHANGED <<archive, restore, answered, approved>>

Transitions(status) ==
    CASE status = "DRAFT" -> {"AI_PROPOSED", "VALIDATED"}
      [] status = "AI_PROPOSED" -> {"DRAFT", "VALIDATED"}
      [] status = "VALIDATED" -> {"LOCKED", "DRAFT"}
      [] status = "LOCKED" -> {"DRAFT"}

\* A person decides on the pillar she reads; no new version either.
Decide(status) ==
    /\ status \in Transitions(pillar.status)
    /\ Synthesis /\ status = "VALIDATED" => pillar.stale = 0
    /\ pillar' = [pillar EXCEPT !.status = status]
    /\ approved' = IF status = "VALIDATED" THEN pillar.version ELSE approved
    /\ UNCHANGED <<archive, marks, restore, answered>>

-----------------------------------------------------------------------------
(* Restoration                                                               *)

\* Slip: each door names the effect in its own way.
EffectByDoor(w, door) == IF door = "intent" THEN <<"intent", archive[w].intent>> ELSE <<"version", w>>

\* The history and the intention name the same write by one effect.
Effect(w, door) == IF archive[w].intent # 0 THEN <<"intent", archive[w].intent>> ELSE <<"version", w>>

\* Several writes under one intention: which is meant cannot be told.
Ambiguous(w) ==
    archive[w].intent # 0 /\ \E v \in Archived \ {w} : archive[v].intent = archive[w].intent

Compensated(w, door) == \E v \in Archived : archive[v].effect = Effect(w, door)

\* undo: what becomes of one value, when its three states agree on it
Conflict(before, applied, current) == before # applied /\ current # applied /\ current # before

Undo(before, applied, current) ==
    IF before # applied /\ current = applied THEN before ELSE current

\* Slip: a leaf that was absent is not deleted.
PutPresent(current, next) == IF next = Absent THEN current ELSE next

Put(current, next) == next

\* planCompensation.  Status and mark come back only under the latest write.
Latest(w, read) == read.version = w + 1

Conflicts(w, read) ==
    \/ \E l \in archive[w].changed : Conflict(archive[w].before[l], archive[w].after[l], read.content[l])
    \/ /\ Latest(w, read)
       /\ \/ Conflict(archive[w].status[1], archive[w].status[2], read.status)
          \/ Conflict(archive[w].stale[1], archive[w].stale[2], read.stale)

Planned(w, read) ==
    [content |-> [l \in Leaves |->
        IF l \in archive[w].changed
        THEN Put(read.content[l], Undo(archive[w].before[l], archive[w].after[l], read.content[l]))
        ELSE read.content[l]],
     status |-> IF Latest(w, read) THEN Undo(archive[w].status[1], archive[w].status[2], read.status) ELSE read.status,
     stale |-> IF Latest(w, read) THEN Undo(archive[w].stale[1], archive[w].stale[2], read.stale) ELSE read.stale]

Doors == {"history", "intent"}

\* rollback and rollbackPillar find the row; the transaction reads the pillar without
\* a lock.  A write that is compensated already gives the answer of the first time,
\* and no effect.  (The version that the door expects is read a little earlier, and
\* only adds a refusal.)
Plan(r, w, door) ==
    /\ restore[r] = Idle /\ w \in Archived
    /\ door = "intent" => archive[w].intent # 0
    /\ ~Ambiguous(w) /\ ~Compensated(w, door) /\ ~Conflicts(w, pillar)
    /\ restore' = [restore EXCEPT ![r] = [busy |-> TRUE, row |-> w, effect |-> Effect(w, door), read |-> pillar]]
    /\ UNCHANGED <<pillar, archive, marks, answered, approved>>

\* Slip: under the locks only the version is compared.
SameVersion(read) == pillar.version = read.version

\* Slip: the plan is persisted without another look at the row.
Unchecked(read) == TRUE

\* Version, content and metadata are still those of the plan.
Unmoved(read) == pillar = read

\* The locks of the Strategy and of the Pillar, the comparison, the write.
Commit(r) ==
    /\ restore[r].busy
    /\ Unmoved(restore[r].read)
    /\ LET w == restore[r].row
       IN  /\ Persist(restore[r].read, Planned(w, restore[r].read), pillar.version, restore[r].effect, w)
           /\ answered' = [answered EXCEPT ![pillar.version + 1] =
                              IF w + 1 = pillar.version THEN answered[w] ELSE answered[pillar.version]]
    /\ restore' = [restore EXCEPT ![r] = Idle]
    /\ UNCHANGED <<marks, approved>>

\* A refusal, or the end of the process: nothing is written.
GiveUp(r) ==
    /\ restore[r] # Idle
    /\ restore' = [restore EXCEPT ![r] = Idle]
    /\ UNCHANGED <<pillar, archive, marks, answered, approved>>

Next ==
    \/ \E content \in Contents : Write(content)
    \/ Mark
    \/ \E status \in Decisions : Decide(status)
    \/ \E r \in Requests : \E w \in Versions, door \in Doors : Plan(r, w, door)
    \/ \E r \in Requests : Commit(r) \/ GiveUp(r)

Spec == Init /\ [][Next]_vars

-----------------------------------------------------------------------------
(* Properties                                                                *)

Effects == {"none", "intent", "version"} \X Nat
Row == [intent : Nat, before : Contents, changed : SUBSET Leaves, after : Contents,
        effect : Effects, target : Nat,
        status : Statuses \X Statuses, stale : Nat \X Nat]
PillarRow == [version : Versions, content : Contents, status : Statuses, stale : Nat]

\* Every variable has its type.
TypeOK ==
    /\ pillar \in PillarRow
    /\ archive \in [Versions -> Row]
    /\ marks \in 0..MaxMarks
    /\ restore \in [Requests -> [busy : BOOLEAN, row : Nat, effect : Effects, read : PillarRow]]
    /\ answered \in [Versions -> 0..MaxMarks]
    /\ approved \in Nat

\* The content of the version after v.
ContentAfter(v) == IF v + 1 = pillar.version THEN pillar.content ELSE archive[v + 1].before

\* The archive tells how the content came about: what each row says was there
\* before it, with the leaves it says it changed, is what the next one found.
HistoryReplays ==
    \A v \in Archived : \A l \in Leaves :
        ContentAfter(v)[l] = IF l \in archive[v].changed THEN archive[v].after[l] ELSE archive[v].before[l]

\* A write is compensated once at most, through whichever door and however often.
CompensatedOnce ==
    \A v, u \in Archived : archive[v].target # 0 /\ archive[v].target = archive[u].target => v = u

\* A pillar without a mark has answered every mark there was: a mark set while a
\* restoration is prepared is not lost, and neither is one that the compensated
\* write had answered, if that write is the latest.
FreshAnswersMarks == pillar.stale = 0 => answered[pillar.version] = marks

\* S is approved only in the version that was approved: no restoration brings an
\* approval back, and no write carries one on.
ApprovalIsNotCarried ==
    Synthesis /\ pillar.status \in {"VALIDATED", "LOCKED"} => approved = pillar.version

\* The write that is compensated by the step that writes the version of now.
Restores(w) == archive'[pillar.version].target = w /\ pillar'.version = pillar.version + 1

\* The restoration of a write moves no leaf but those that still hold what that
\* write put there: whatever was written meanwhile, at its plan or at its commit.
LaterWorkKept ==
    [][\A w \in Versions : Restores(w) =>
          \A l \in Leaves : pillar'.content[l] # pillar.content[l] =>
              /\ pillar.content[l] = ContentAfter(w)[l]
              /\ pillar'.content[l] = archive[w].before[l]]_vars

\* The restoration of the latest write brings the content before it back, entire.
LatestIsReversed ==
    [][\A w \in Versions : Restores(w) /\ w + 1 = pillar.version => pillar'.content = archive[w].before]_vars
=============================================================================
