---------------------------- MODULE PillarGateway ----------------------------
(***************************************************************************)
(* The pillars of one brand: who writes them, what a write does to the     *)
(* pillars derived from it, and the human review of the synthesis S.       *)
(*                                                                         *)
(* A, D, V, E found the brand; R, T, I are calculated from them by a model *)
(* that answers minutes later; S is recalculated from everything under the *)
(* lock of the strategy.  Every client here first reads (its snapshot is   *)
(* "seen") and later writes or decides in one transaction that holds the   *)
(* lock of the Strategy row, so that a transaction is one step and what    *)
(* interleaves is reading with other people's writing.                     *)
(***************************************************************************)
EXTENDS Naturals, FiniteSets

CONSTANTS Keys,       \* the pillars that exist
          Clients,    \* operators, agents and calculations under way
          Kinds,      \* the kinds of client that occur
          Reviewed,   \* bound: the pillars whose status is decided by people
          MaxWrites   \* bound on the number of accepted writes

PillarKeys == {"a", "d", "v", "e", "r", "t", "i", "s"}
Founding == Keys \cap {"a", "d", "v", "e"}
Derived == Keys \ Founding

AllKinds == {"calculation", "protocol", "amendment", "agent", "edit", "review"}

ASSUME KeysOK == Keys \subseteq PillarKeys /\ "s" \in Keys /\ Reviewed \subseteq Keys
ASSUME KindsOK == Kinds \subseteq AllKinds
ASSUME BoundOK == MaxWrites \in Nat

VARIABLES pillar,    \* pillar[k]: the row, without its content
          strategy,  \* Strategy.status; every other status is like "ACTIVE"
          task,      \* task[c]: what a client has read and is about to do
          approved,  \* history: the version of S that was last approved
          outdated,  \* history: pillars whose sources changed since they were
                     \* calculated
          blind,     \* history: outdated pillars whose last writer was none of
                     \* those that name the versions of their sources
          writes     \* number of accepted writes

vars == <<pillar, strategy, task, approved, outdated, blind, writes>>

Statuses == {"DRAFT", "AI_PROPOSED", "VALIDATED", "LOCKED"}
Idle == [kind |-> "none", key |-> "s", seen |-> [k \in Keys |-> 1]]

-----------------------------------------------------------------------------
(* Which pillar is derived from which                                        *)

\* RTIS_DEPENDENTS, and everything derived for a founding pillar.
Later(k) ==
    CASE k \in {"a", "d", "v", "e"} -> {"r", "t", "i", "s"}
      [] k = "r" -> {"t", "i", "s"}
      [] k = "t" -> {"i", "s"}
      [] k = "i" -> {"s"}
      [] OTHER -> {}

\* getPillarDependents
Dependents(k) == Keys \cap Later(k)

Sources(k) == {u \in Keys : k \in Dependents(u)}

Init ==
    /\ pillar = [k \in Keys |-> [version |-> 1, status |-> "DRAFT", stale |-> FALSE]]
    /\ strategy = "ACTIVE"
    /\ task = [c \in Clients |-> Idle]
    /\ approved = 0
    /\ outdated = {}
    /\ blind = {}
    /\ writes = 0

-----------------------------------------------------------------------------
(* Clients read                                                              *)

\* calculation: actualizePillar of R, T, I.  protocol: the RTIS protocols of
\* the cascade and of the hyperviseur.  amendment, agent: OPERATOR_AMEND_PILLAR
\* by a person or by an agent on their behalf.  edit: updateFull,
\* updatePartial, the edits of an item of an array.
Targets(kind) ==
    CASE kind \in {"calculation", "protocol"} -> Derived \ {"s"}
      [] kind \in {"amendment", "agent"} -> Founding
      [] kind = "edit" -> Keys
      [] kind = "review" -> Reviewed

Read(c) ==
    /\ task[c].kind = "none"
    /\ \E kind \in Kinds : \E k \in Targets(kind) :
          task' = [task EXCEPT ![c] = [kind |-> kind, key |-> k,
                                       seen |-> [u \in Keys |-> pillar[u].version]]]
    /\ UNCHANGED <<pillar, strategy, approved, outdated, blind, writes>>

\* A calculation fails, a person leaves, or the gateway or the review refuses:
\* nothing is written.
GiveUp(c) ==
    /\ task[c].kind # "none"
    /\ task' = [task EXCEPT ![c] = Idle]
    /\ UNCHANGED <<pillar, strategy, approved, outdated, blind, writes>>

-----------------------------------------------------------------------------
(* What a write does to the rest of the brand                                *)

\* withdrawSynthesisReview on the pillar: a locked plan keeps its lock.
Withdrawn(status) == IF status = "VALIDATED" THEN "AI_PROPOSED" ELSE status

\* markPillarsStale
Marked(k) ==
    [version |-> pillar[k].version, stale |-> TRUE,
     status |-> IF k = "s" THEN Withdrawn(pillar[k].status) ELSE pillar[k].status]

\* Slip: the status of the strategy survives the review it came from.
DraftKept(touched) == strategy

\* withdrawSynthesisReview on the strategy.
Draft(touched) ==
    IF "s" \in touched /\ strategy = "VALIDATED" THEN "DRAFT" ELSE strategy

\* What becomes of the target status: a new version of S is never approved.
StatusOf(k, status) ==
    IF k = "s" /\ status \in {"VALIDATED", "LOCKED"} THEN "AI_PROPOSED" ELSE status

\* writePillar, once it accepts: the version, the mark, the dependents.
Persist(k, status) ==
    /\ writes < MaxWrites
    /\ pillar' = [u \in Keys |->
          IF u = k
          THEN [version |-> pillar[u].version + 1, status |-> StatusOf(k, status), stale |-> FALSE]
          ELSE IF u \in Dependents(k) THEN Marked(u) ELSE pillar[u]]
    /\ strategy' = Draft(Dependents(k) \cup {k})
    /\ writes' = writes + 1

Agree(c, ks) == \A k \in ks : task[c].seen[k] = pillar[k].version

\* Slip: a calculation sends the version of its target only.
ComparedOwn(kind, k) == IF kind \in {"calculation", "amendment", "agent"} THEN {k} ELSE {}

\* expectedPillarVersions and expectedVersion: what a writer wants unchanged.
Compared(kind, k) ==
    CASE kind = "calculation" -> Sources(k) \cup {k}
      [] kind \in {"amendment", "agent"} -> {k}
      [] OTHER -> {}

\* The status a writer asks for; a protocol that is confident about a small
\* change approves itself.
Asked(kind, k) ==
    CASE kind = "calculation" -> {"AI_PROPOSED"}
      [] kind = "protocol" -> {"AI_PROPOSED", "VALIDATED"}
      [] kind = "agent" -> {Withdrawn(pillar[k].status)}
      [] OTHER -> {pillar[k].status}

\* A calculation is outdated if it was made from what is no longer there; any
\* other writer leaves the relation of the pillar to its sources as it was.
Lags(c, kind, k) ==
    IF kind \in {"calculation", "protocol"} THEN ~ Agree(c, Sources(k)) ELSE k \in outdated

Publishes(kind, k, lags) ==
    /\ outdated' = (outdated \ {k}) \cup Dependents(k) \cup (IF lags THEN {k} ELSE {})
    /\ blind' = (blind \ {k}) \cup (IF lags /\ kind # "calculation" THEN {k} ELSE {})

Write(c) ==
    LET kind == task[c].kind
        k == task[c].key
    IN  /\ kind \notin {"none", "review"}
        /\ Agree(c, Compared(kind, k))
        /\ pillar[k].status = "LOCKED" => kind \in {"amendment", "edit"}
        /\ \E status \in Asked(kind, k) : Persist(k, status)
        /\ Publishes(kind, k, Lags(c, kind, k))
        /\ task' = [task EXCEPT ![c] = Idle]
        /\ UNCHANGED approved

\* recalculateSynthesisInTransaction reads and writes under the same lock.
Synthesize ==
    /\ pillar["s"].status # "LOCKED"
    /\ Persist("s", "AI_PROPOSED")
    /\ Publishes("calculation", "s", FALSE)
    /\ UNCHANGED <<task, approved>>

\* A document changed (its pillars and their dependents), or a pillar is old.
MarkStale(k) ==
    /\ \E marked \in {{k}, {k} \cup Dependents(k)} :
          /\ pillar' = [u \in Keys |-> IF u \in marked THEN Marked(u) ELSE pillar[u]]
          /\ strategy' = Draft(marked)
    /\ UNCHANGED <<task, approved, outdated, blind, writes>>

-----------------------------------------------------------------------------
(* People decide                                                             *)

Transitions ==
    [DRAFT |-> {"AI_PROPOSED", "VALIDATED"}, AI_PROPOSED |-> {"DRAFT", "VALIDATED"},
     VALIDATED |-> {"LOCKED", "DRAFT"}, LOCKED |-> {"DRAFT"}]

\* Slip: the version that the reviewer read is not compared.
AsReadAnyVersion(c, k, target) == TRUE

AsRead(c, k, target) == k = "s" /\ target = "VALIDATED" => Agree(c, {"s"})

\* assertValidationSources; that a source is more recent than the pillar, that
\* a link dangles or that S is incomplete can only refuse more.
Approvable(k) == ~ pillar[k].stale

\* transitionPillarStatus; approving S again changes nothing (GiveUp).
Decide(c) ==
    LET k == task[c].key
    IN  /\ task[c].kind = "review"
        /\ \E target \in Transitions[pillar[k].status] :
              /\ AsRead(c, k, target)
              /\ target = "VALIDATED" => Approvable(k)
              /\ pillar' = [pillar EXCEPT ![k].status = target]
              /\ strategy' = CASE k = "s" /\ target = "VALIDATED" -> "VALIDATED"
                               [] k = "s" /\ target = "DRAFT" -> Draft({k})
                               [] OTHER -> strategy
              /\ approved' = IF k = "s" /\ target = "VALIDATED" THEN pillar[k].version ELSE approved
        /\ task' = [task EXCEPT ![c] = Idle]
        /\ UNCHANGED <<outdated, blind, writes>>

\* The phase of the brand (transitionPhase) overwrites the same column.
TransitionPhase ==
    /\ strategy' \in {"DRAFT", "ACTIVE"}
    /\ UNCHANGED <<pillar, task, approved, outdated, blind, writes>>

Next ==
    \/ \E c \in Clients : Read(c) \/ GiveUp(c) \/ Write(c) \/ Decide(c)
    \/ Synthesize
    \/ \E k \in Keys : MarkStale(k)
    \/ TransitionPhase

Spec == Init /\ [][Next]_vars

-----------------------------------------------------------------------------
\* Every variable has its type; what founds the brand is never outdated.
TypeOK ==
    /\ pillar \in [Keys -> [version : Nat, status : Statuses, stale : BOOLEAN]]
    /\ strategy \in {"DRAFT", "ACTIVE", "VALIDATED"}
    /\ task \in [Clients -> [kind : AllKinds \cup {"none"}, key : Keys, seen : [Keys -> Nat]]]
    /\ approved \in Nat
    /\ outdated \subseteq Derived
    /\ blind \subseteq outdated
    /\ writes \in 0..MaxWrites

\* The approval of the plan holds for the version that was reviewed and for no
\* other, however writes, marks, calculations and reviews interleave;
\* and the strategy is VALIDATED only while such a plan is fresh.
ReviewIsCurrent ==
    /\ pillar["s"].status \in {"VALIDATED", "LOCKED"} => approved = pillar["s"].version
    /\ pillar["s"].status = "VALIDATED" => ~ pillar["s"].stale
    /\ strategy = "VALIDATED"
          => pillar["s"].status \in {"VALIDATED", "LOCKED"} /\ ~ pillar["s"].stale

\* Whoever approves S has read that version of it, and none of the pillars it
\* is derived from has changed since he read.
ApprovedAsRead ==
    [][pillar["s"].status # "VALIDATED" /\ pillar'["s"].status = "VALIDATED"
          => \E c \in Clients : /\ task[c].kind = "review"
                                /\ task'[c] = Idle
                                /\ Agree(c, Sources("s") \cup {"s"})]_vars

\* A pillar that is not marked stale is up to date with its sources, although
\* they change while its calculation runs: it lags only if its last writer was
\* not a calculation that names the versions it was made from.
FreshFollowsSources == \A k \in outdated : pillar[k].stale \/ k \in blind
=============================================================================
