------------------------ MODULE PillarGatewayProofs ------------------------
(***************************************************************************)
(* Theorems about PillarGateway, for any set of pillars that has S, any    *)
(* clients and any number of writes.                                       *)
(***************************************************************************)
EXTENDS PillarGateway, TLAPS

S == pillar["s"]

\* What a reviewer has read of S and of its sources belongs together: as long
\* as S has the version he read, either S is marked or no source has moved.
ReadTogether ==
    \A c \in Clients : task[c].kind = "review" =>
        /\ task[c].seen["s"] <= S.version
        /\ task[c].seen["s"] = S.version => S.stale \/ Agree(c, Sources("s"))

IInv == TypeOK /\ ReviewIsCurrent /\ FreshFollowsSources /\ ReadTogether

-----------------------------------------------------------------------------
(* The graph of the pillars                                                  *)

\* Nothing founding depends on anything, nothing depends on itself, S depends
\* on everything else and nothing depends on S.
LEMMA Graph ==
    ASSUME NEW k \in Keys
    PROVE  /\ Dependents(k) \subseteq Derived
           /\ k \notin Dependents(k)
           /\ k # "s" => "s" \in Dependents(k)
           /\ k = "s" => Dependents(k) = {}
  BY KeysOK DEF Dependents, Later, Derived, Founding, PillarKeys

\* S has every other pillar for its source.
LEMMA SourcesOfS == Sources("s") = Keys \ {"s"}
  BY Graph, KeysOK DEF Sources

\* S is one of the pillars that exist, and it is derived.
LEMMA SIsDerived == "s" \in Keys /\ "s" \in Derived
  BY KeysOK DEF Derived, Founding

-----------------------------------------------------------------------------
(* What one write does                                                       *)

\* The rows after a write of k.
LEMMA PersistRows ==
    ASSUME TypeOK, NEW k \in Keys, NEW status \in Statuses, Persist(k, status)
    PROVE  /\ pillar' \in [Keys -> [version : Nat, status : Statuses, stale : BOOLEAN]]
           /\ pillar'[k].version = pillar[k].version + 1
           /\ ~ pillar'[k].stale
           /\ \A u \in Keys \ {k} : /\ pillar'[u].version = pillar[u].version
                                    /\ pillar[u].stale => pillar'[u].stale
           /\ \A u \in Dependents(k) : pillar'[u].stale
<1> DEFINE Fresh == [version |-> pillar[k].version + 1, status |-> StatusOf(k, status), stale |-> FALSE]
<1>1. pillar[k].version \in Nat /\ StatusOf(k, status) \in Statuses
  BY DEF TypeOK, StatusOf, Statuses
<1>2. \A u \in Keys : /\ Marked(u) \in [version : Nat, status : Statuses, stale : BOOLEAN]
                      /\ Marked(u).version = pillar[u].version
                      /\ Marked(u).stale
  BY DEF TypeOK, Marked, Withdrawn, Statuses
<1>3. pillar' = [u \in Keys |-> IF u = k THEN Fresh
                                ELSE IF u \in Dependents(k) THEN Marked(u) ELSE pillar[u]]
  BY DEF Persist
<1>4. Fresh \in [version : Nat, status : Statuses, stale : BOOLEAN]
      /\ Fresh.version = pillar[k].version + 1 /\ ~ Fresh.stale
  BY <1>1
<1> HIDE DEF Fresh
<1>5. pillar' \in [Keys -> [version : Nat, status : Statuses, stale : BOOLEAN]]
  BY <1>2, <1>3, <1>4 DEF TypeOK
<1>6. pillar'[k] = Fresh
  BY <1>3
<1>7. \A u \in Keys \ {k} : pillar'[u] = IF u \in Dependents(k) THEN Marked(u) ELSE pillar[u]
  BY <1>3
<1>8. Dependents(k) \subseteq Keys \ {k}
  BY Graph DEF Dependents
<1> QED BY <1>2, <1>4, <1>5, <1>6, <1>7, <1>8

\* After any write the strategy is not VALIDATED and S is not approved, unless
\* it is locked at the version it had.
LEMMA PersistReview ==
    ASSUME TypeOK, NEW k \in Keys, NEW status \in Statuses, Persist(k, status)
    PROVE  /\ strategy' \in {"DRAFT", "ACTIVE"}
           /\ S'.status # "VALIDATED"
           /\ S'.status = "LOCKED" => S.status = "LOCKED" /\ S'.version = S.version
<1>1. "s" \in Dependents(k) \cup {k}
  BY Graph
<1>2. strategy' \in {"DRAFT", "ACTIVE"}
  BY <1>1 DEF Persist, Draft, TypeOK
<1>3. CASE k = "s"
  <2>1. S'.status = StatusOf("s", status)
    BY <1>3, SIsDerived DEF Persist, S
  <2> QED BY <1>2, <2>1 DEF StatusOf
<1>4. CASE k # "s"
  <2>1. S' = Marked("s")
    BY <1>4, Graph, SIsDerived DEF Persist, S
  <2>2. S \in [version : Nat, status : Statuses, stale : BOOLEAN]
    BY SIsDerived DEF TypeOK, S
  <2>3. Marked("s").status = Withdrawn(S.status) /\ Marked("s").version = S.version
    BY <2>2 DEF Marked, S
  <2> QED BY <1>2, <2>1, <2>3 DEF Withdrawn
<1> QED BY <1>3, <1>4

\* The rows after a mark.
LEMMA MarkRows ==
    ASSUME TypeOK, NEW marked \in SUBSET Keys,
           pillar' = [u \in Keys |-> IF u \in marked THEN Marked(u) ELSE pillar[u]]
    PROVE  /\ pillar' \in [Keys -> [version : Nat, status : Statuses, stale : BOOLEAN]]
           /\ \A u \in Keys : /\ pillar'[u].version = pillar[u].version
                              /\ pillar[u].stale => pillar'[u].stale
           /\ "s" \in marked => S'.status = Withdrawn(S.status)
           /\ "s" \notin marked => S' = S
<1>1. \A u \in Keys : /\ Marked(u) \in [version : Nat, status : Statuses, stale : BOOLEAN]
                      /\ Marked(u).version = pillar[u].version
                      /\ Marked(u).stale
  BY DEF TypeOK, Marked, Withdrawn, Statuses
<1>2. Marked("s").status = Withdrawn(S.status)
  BY SIsDerived DEF TypeOK, Marked, S
<1>3. \A u \in Keys : pillar'[u] = IF u \in marked THEN Marked(u) ELSE pillar[u]
  OBVIOUS
<1>4. pillar' \in [Keys -> [version : Nat, status : Statuses, stale : BOOLEAN]]
  BY <1>1, <1>3 DEF TypeOK
<1> QED BY <1>1, <1>2, <1>3, <1>4, SIsDerived DEF S

-----------------------------------------------------------------------------
(* The invariant                                                             *)

\* A brand that starts satisfies the invariant.
LEMMA InitEstablishes == Init => IInv
<1> SUFFICES ASSUME Init PROVE IInv
  OBVIOUS
<1>1. TypeOK
  BY SIsDerived, BoundOK DEF Init, TypeOK, Idle, Statuses
<1>2. S.status = "DRAFT"
  BY SIsDerived DEF Init, S
<1>3. ReviewIsCurrent /\ FreshFollowsSources /\ ReadTogether
  BY <1>2 DEF Init, ReviewIsCurrent, FreshFollowsSources, ReadTogether, Idle, S
<1> QED BY <1>1, <1>3 DEF IInv

\* Who reads has read everything as it is.
LEMMA ReadKeeps ==
    ASSUME IInv, NEW c \in Clients, Read(c)
    PROVE  IInv'
<1>1. PICK kind \in Kinds :
        \E k \in Targets(kind) :
           task' = [task EXCEPT ![c] = [kind |-> kind, key |-> k,
                                        seen |-> [u \in Keys |-> pillar[u].version]]]
  BY DEF Read
<1>2. PICK k \in Targets(kind) :
        task' = [task EXCEPT ![c] = [kind |-> kind, key |-> k,
                                     seen |-> [u \in Keys |-> pillar[u].version]]]
  BY <1>1
<1>3. UNCHANGED <<pillar, strategy, approved, outdated, blind, writes>>
  BY DEF Read
<1>4. k \in Keys
  BY KeysOK, KindsOK DEF Targets, Derived, Founding, AllKinds
<1>5. [u \in Keys |-> pillar[u].version] \in [Keys -> Nat]
  BY DEF IInv, TypeOK
<1>6. TypeOK'
  BY <1>2, <1>3, <1>4, <1>5, KindsOK DEF IInv, TypeOK
<1>7. ReadTogether'
  <2> SUFFICES ASSUME NEW d \in Clients, task'[d].kind = "review"
               PROVE  /\ task'[d].seen["s"] <= S'.version
                      /\ task'[d].seen["s"] = S'.version => S'.stale \/ Agree(d, Sources("s"))'
    BY DEF ReadTogether
  <2>1. CASE d = c
    <3>1. task'[c].seen = [u \in Keys |-> pillar[u].version]
      BY <1>2 DEF IInv, TypeOK
    <3>2. S.version \in Nat
      BY SIsDerived DEF IInv, TypeOK, S
    <3>3. \A u \in Keys : task'[c].seen[u] = pillar'[u].version
      BY <1>3, <3>1
    <3> QED BY <2>1, <1>3, <3>1, <3>2, <3>3, SIsDerived, SourcesOfS DEF Agree, S
  <2>2. CASE d # c
    <3>1. task'[d] = task[d]
      BY <2>2, <1>2 DEF IInv, TypeOK
    <3> QED BY <1>3, <3>1 DEF IInv, ReadTogether, Agree, S
  <2> QED BY <2>1, <2>2
<1>8. ReviewIsCurrent' /\ FreshFollowsSources'
  BY <1>3 DEF IInv, ReviewIsCurrent, FreshFollowsSources
<1> QED BY <1>6, <1>7, <1>8 DEF IInv

\* Who finishes has read nothing any more.
LEMMA TaskEnds ==
    ASSUME IInv, NEW c \in Clients, task' = [task EXCEPT ![c] = Idle]
    PROVE  /\ task' \in [Clients -> [kind : AllKinds \cup {"none"}, key : Keys, seen : [Keys -> Nat]]]
           /\ \A d \in Clients : task'[d].kind = "review" => task'[d] = task[d]
<1>1. Idle \in [kind : AllKinds \cup {"none"}, key : Keys, seen : [Keys -> Nat]] /\ Idle.kind # "review"
  BY SIsDerived DEF Idle
<1> HIDE DEF Idle
<1> QED BY <1>1 DEF IInv, TypeOK

\* While no version moves, what reviewers have read still belongs together.
LEMMA ReadingsStay ==
    ASSUME IInv,
           \A d \in Clients : task'[d].kind = "review" => task'[d] = task[d],
           \A u \in Keys : pillar'[u].version = pillar[u].version,
           S.stale => S'.stale
    PROVE  ReadTogether'
<1> SUFFICES ASSUME NEW d \in Clients, task'[d].kind = "review"
             PROVE  /\ task'[d].seen["s"] <= S'.version
                    /\ task'[d].seen["s"] = S'.version => S'.stale \/ Agree(d, Sources("s"))'
  BY DEF ReadTogether
<1>1. task'[d] = task[d] /\ S'.version = S.version
  BY SIsDerived DEF S
<1>2. task[d].kind = "review"
  BY <1>1
<1>3. /\ task[d].seen["s"] <= S.version
      /\ task[d].seen["s"] = S.version => S.stale \/ Agree(d, Sources("s"))
  BY <1>2 DEF IInv, ReadTogether
<1>4. Agree(d, Sources("s")) => Agree(d, Sources("s"))'
  BY <1>1 DEF Agree, Sources
<1> QED BY <1>1, <1>3, <1>4

\* Giving up changes nothing else.
LEMMA GiveUpKeeps ==
    ASSUME IInv, NEW c \in Clients, GiveUp(c)
    PROVE  IInv'
<1>1. UNCHANGED <<pillar, strategy, approved, outdated, blind, writes>>
  BY DEF GiveUp
<1>2. TypeOK'
  BY <1>1, TaskEnds DEF IInv, TypeOK, GiveUp
<1>3. ReadTogether'
  BY <1>1, TaskEnds, ReadingsStay DEF GiveUp, S
<1>4. ReviewIsCurrent' /\ FreshFollowsSources'
  BY <1>1 DEF IInv, ReviewIsCurrent, FreshFollowsSources
<1> QED BY <1>2, <1>3, <1>4 DEF IInv

\* A write moves a version and marks what depends on it, so that what a
\* reviewer has read still belongs together.
LEMMA PersistKeepsReadings ==
    ASSUME IInv, NEW k \in Keys, NEW status \in Statuses, Persist(k, status),
           \A d \in Clients : task'[d].kind = "review" => task'[d] = task[d]
    PROVE  ReadTogether'
<1> SUFFICES ASSUME NEW d \in Clients, task'[d].kind = "review"
             PROVE  /\ task'[d].seen["s"] <= S'.version
                    /\ task'[d].seen["s"] = S'.version => S'.stale \/ Agree(d, Sources("s"))'
  BY DEF ReadTogether
<1>1. task'[d] = task[d] /\ task[d].kind = "review"
  OBVIOUS
<1>2. task[d].seen["s"] \in Nat /\ S.version \in Nat /\ task[d].seen["s"] <= S.version
  BY <1>1, SIsDerived DEF IInv, TypeOK, ReadTogether, S
<1>3. TypeOK
  BY DEF IInv
<1>4. CASE k = "s"
  BY <1>1, <1>2, <1>3, <1>4, PersistRows DEF S
<1>5. CASE k # "s"
  <2>1. S'.version = S.version /\ S'.stale
    BY <1>3, <1>5, PersistRows, Graph, SIsDerived DEF S
  <2> QED BY <1>1, <1>2, <2>1
<1> QED BY <1>4, <1>5

\* The history after a write: what is outdated and fresh is blind.
LEMMA PersistKeepsFreshness ==
    ASSUME IInv, NEW k \in Keys, NEW status \in Statuses, Persist(k, status),
           NEW lags \in BOOLEAN, lags => k \in Derived,
           NEW kind, kind = "calculation" => ~ lags, Publishes(kind, k, lags)
    PROVE  /\ outdated' \subseteq Derived
           /\ blind' \subseteq outdated'
           /\ FreshFollowsSources'
<1>1. TypeOK /\ FreshFollowsSources
  BY DEF IInv
<1>2. outdated' \subseteq Derived /\ blind' \subseteq outdated'
  BY <1>1, Graph DEF TypeOK, Publishes
<1>3. \A u \in Keys \ {k} : pillar[u].stale => pillar'[u].stale
  BY <1>1, PersistRows
<1>4. \A u \in Dependents(k) : pillar'[u].stale
  BY <1>1, PersistRows
<1>5. FreshFollowsSources'
  <2> SUFFICES ASSUME NEW u \in outdated' PROVE pillar'[u].stale \/ u \in blind'
    BY DEF FreshFollowsSources
  <2>1. CASE u = k
    BY <2>1, Graph DEF Publishes
  <2>2. CASE u # k
    <3>1. u \in Dependents(k) \/ u \in outdated
      BY <2>2 DEF Publishes
    <3>2. u \in Keys
      BY <1>2 DEF Derived
    <3> QED BY <1>1, <1>3, <1>4, <2>2, <3>1, <3>2 DEF FreshFollowsSources, Publishes
  <2> QED BY <2>1, <2>2
<1> QED BY <1>2, <1>5

\* Writes of a client.
LEMMA WriteKeeps ==
    ASSUME IInv, NEW c \in Clients, Write(c)
    PROVE  IInv'
<1> DEFINE kind == task[c].kind
           k == task[c].key
<1>1. kind \in AllKinds \cup {"none"} /\ k \in Keys /\ TypeOK
  BY DEF IInv, TypeOK
<1>2. pillar[k].status \in Statuses
  BY <1>1 DEF TypeOK
<1>3. PICK status \in Asked(kind, k) : Persist(k, status)
  BY DEF Write
<1>4. status \in Statuses
  BY <1>2 DEF Asked, Withdrawn, Statuses
<1>5. Publishes(kind, k, Lags(c, kind, k)) /\ task' = [task EXCEPT ![c] = Idle] /\ approved' = approved
  BY DEF Write
<1>6. Lags(c, kind, k) \in BOOLEAN
  <2>1. (~ Agree(c, Sources(k))) \in BOOLEAN /\ (k \in outdated) \in BOOLEAN
    OBVIOUS
  <2> QED BY <2>1 DEF Lags
<1>7. Lags(c, kind, k) => k \in Derived
  <2>1. CASE k \in Derived
    BY <2>1
  <2>2. CASE k \notin Derived
    <3>1. Sources(k) = {}
      BY <1>1, <2>2, Graph DEF Sources
    <3>2. k \notin outdated
      BY <1>1, <2>2 DEF TypeOK
    <3> QED BY <3>1, <3>2 DEF Lags, Agree
  <2> QED BY <2>1, <2>2
<1>14. kind = "calculation" => ~ Lags(c, kind, k)
  BY DEF Write, Lags, Compared, Agree
<1> HIDE DEF kind, k
<1>8. outdated' \subseteq Derived /\ blind' \subseteq outdated' /\ FreshFollowsSources'
  BY <1>1, <1>3, <1>4, <1>5, <1>6, <1>7, <1>14, PersistKeepsFreshness
<1>9. ReadTogether'
  BY <1>1, <1>3, <1>4, <1>5, TaskEnds, PersistKeepsReadings
<1>10. /\ strategy' \in {"DRAFT", "ACTIVE"}
       /\ S'.status # "VALIDATED"
       /\ S'.status = "LOCKED" => S.status = "LOCKED" /\ S'.version = S.version
  BY <1>1, <1>3, <1>4, PersistReview
<1>11. ReviewIsCurrent'
  BY <1>5, <1>10 DEF IInv, ReviewIsCurrent, S
<1>12. writes' \in 0..MaxWrites
  BY <1>1, <1>3, BoundOK DEF Persist, TypeOK
<1>13. TypeOK'
  BY <1>1, <1>3, <1>4, <1>5, <1>8, <1>10, <1>12, TaskEnds, PersistRows DEF TypeOK
<1> QED BY <1>8, <1>9, <1>11, <1>13 DEF IInv

\* The synthesis under the lock.
LEMMA SynthesizeKeeps ==
    ASSUME IInv, Synthesize
    PROVE  IInv'
<1>1. TypeOK /\ "s" \in Keys /\ "AI_PROPOSED" \in Statuses
  BY SIsDerived DEF IInv, Statuses
<1>2. Persist("s", "AI_PROPOSED") /\ Publishes("calculation", "s", FALSE) /\ UNCHANGED <<task, approved>>
  BY DEF Synthesize
<1>3. outdated' \subseteq Derived /\ blind' \subseteq outdated' /\ FreshFollowsSources'
  BY <1>1, <1>2, PersistKeepsFreshness
<1>4. ReadTogether'
  BY <1>1, <1>2, PersistKeepsReadings
<1>5. /\ strategy' \in {"DRAFT", "ACTIVE"}
      /\ S'.status # "VALIDATED"
      /\ S'.status = "LOCKED" => S.status = "LOCKED" /\ S'.version = S.version
  BY <1>1, <1>2, PersistReview
<1>6. ReviewIsCurrent'
  BY <1>2, <1>5 DEF IInv, ReviewIsCurrent, S
<1>7. writes' \in 0..MaxWrites
  BY <1>1, <1>2, BoundOK DEF Persist, TypeOK
<1>8. TypeOK'
  BY <1>1, <1>2, <1>3, <1>5, <1>7, PersistRows DEF TypeOK
<1> QED BY <1>3, <1>4, <1>6, <1>8 DEF IInv

\* A mark takes the review with it if it reaches S.
LEMMA MarkStaleKeeps ==
    ASSUME IInv, NEW k \in Keys, MarkStale(k)
    PROVE  IInv'
<1>1. PICK marked \in {{k}, {k} \cup Dependents(k)} :
         /\ pillar' = [u \in Keys |-> IF u \in marked THEN Marked(u) ELSE pillar[u]]
         /\ strategy' = Draft(marked)
  BY DEF MarkStale
<1>2. UNCHANGED <<task, approved, outdated, blind, writes>>
  BY DEF MarkStale
<1>3. marked \in SUBSET Keys /\ TypeOK
  BY DEF IInv, Dependents
<1>4. /\ pillar' \in [Keys -> [version : Nat, status : Statuses, stale : BOOLEAN]]
      /\ \A u \in Keys : /\ pillar'[u].version = pillar[u].version
                         /\ pillar[u].stale => pillar'[u].stale
      /\ "s" \in marked => S'.status = Withdrawn(S.status)
      /\ "s" \notin marked => S' = S
  BY <1>1, <1>3, MarkRows
<1>5. TypeOK'
  BY <1>1, <1>2, <1>3, <1>4 DEF TypeOK, Draft
<1>6. S'.version = S.version /\ (S.stale => S'.stale)
  BY <1>4, SIsDerived DEF S
<1>7. ReviewIsCurrent'
  <2>1. CASE "s" \in marked
    BY <1>1, <1>2, <1>3, <1>4, <1>6, <2>1 DEF IInv, TypeOK, ReviewIsCurrent, Draft, Withdrawn, S
  <2>2. CASE "s" \notin marked
    BY <1>1, <1>2, <1>4, <2>2 DEF IInv, ReviewIsCurrent, Draft, S
  <2> QED BY <2>1, <2>2
<1>8. FreshFollowsSources'
  BY <1>2, <1>3, <1>4 DEF IInv, TypeOK, FreshFollowsSources, Derived
<1>9. ReadTogether'
  BY <1>2, <1>4, <1>6, ReadingsStay
<1> QED BY <1>5, <1>7, <1>8, <1>9 DEF IInv

\* A decision moves no version.
LEMMA DecideKeeps ==
    ASSUME IInv, NEW c \in Clients, Decide(c)
    PROVE  IInv'
<1> DEFINE k == task[c].key
<1>1. k \in Keys /\ TypeOK
  BY DEF IInv, TypeOK
<1>2. PICK target \in Transitions[pillar[k].status] :
        /\ target = "VALIDATED" => Approvable(k)
        /\ pillar' = [pillar EXCEPT ![k].status = target]
        /\ strategy' = CASE k = "s" /\ target = "VALIDATED" -> "VALIDATED"
                         [] k = "s" /\ target = "DRAFT" -> Draft({k})
                         [] OTHER -> strategy
        /\ approved' = IF k = "s" /\ target = "VALIDATED" THEN pillar[k].version ELSE approved
  BY DEF Decide
<1>3. task' = [task EXCEPT ![c] = Idle] /\ UNCHANGED <<outdated, blind, writes>>
  BY DEF Decide
<1> HIDE DEF k
<1>4. pillar[k] \in [version : Nat, status : Statuses, stale : BOOLEAN]
  BY <1>1 DEF TypeOK
<1>5. target \in Statuses /\ (target = "LOCKED" => pillar[k].status = "VALIDATED")
      /\ (target = "AI_PROPOSED" => pillar[k].status = "DRAFT")
  BY <1>4 DEF Transitions, Statuses
<1>6. /\ pillar' \in [Keys -> [version : Nat, status : Statuses, stale : BOOLEAN]]
      /\ pillar'[k].status = target
      /\ \A u \in Keys : pillar'[u].version = pillar[u].version /\ pillar'[u].stale = pillar[u].stale
      /\ \A u \in Keys \ {k} : pillar'[u] = pillar[u]
  BY <1>1, <1>2, <1>5 DEF TypeOK
<1>7. strategy' \in {"DRAFT", "ACTIVE", "VALIDATED"} /\ approved' \in Nat
  BY <1>1, <1>2, <1>4 DEF TypeOK, Draft
<1>8. TypeOK'
  BY <1>1, <1>3, <1>6, <1>7, TaskEnds DEF TypeOK
<1>9. ReviewIsCurrent'
  <2>1. CASE k = "s"
    <3>1. S'.status = target /\ S'.version = S.version /\ S'.stale = S.stale
      BY <1>6, <2>1, SIsDerived DEF S
    <3>2. CASE target = "VALIDATED"
      BY <1>2, <2>1, <3>1, <3>2 DEF ReviewIsCurrent, Approvable, S
    <3>3. CASE target = "LOCKED"
      BY <1>2, <1>5, <2>1, <3>1, <3>3 DEF IInv, ReviewIsCurrent, S
    <3>4. CASE target = "DRAFT"
      BY <1>1, <1>2, <2>1, <3>1, <3>4 DEF TypeOK, ReviewIsCurrent, Draft, S
    <3>5. CASE target = "AI_PROPOSED"
      BY <1>2, <1>5, <2>1, <3>1, <3>5 DEF IInv, ReviewIsCurrent, S
    <3> QED BY <1>5, <3>2, <3>3, <3>4, <3>5 DEF Statuses
  <2>2. CASE k # "s"
    BY <1>2, <1>6, <2>2, SIsDerived DEF IInv, ReviewIsCurrent, S
  <2> QED BY <2>1, <2>2
<1>10. FreshFollowsSources'
  BY <1>1, <1>3, <1>6 DEF IInv, TypeOK, FreshFollowsSources, Derived
<1>11. ReadTogether'
  BY <1>3, <1>6, TaskEnds, SIsDerived, ReadingsStay DEF S
<1> QED BY <1>8, <1>9, <1>10, <1>11 DEF IInv

\* Every step keeps the invariant.
LEMMA StepKeeps == IInv /\ [Next]_vars => IInv'
<1> SUFFICES ASSUME IInv, [Next]_vars PROVE IInv'
  OBVIOUS
<1>1. CASE UNCHANGED vars
  BY <1>1 DEF IInv, vars, TypeOK, ReviewIsCurrent, FreshFollowsSources, ReadTogether, Agree, S
<1>2. ASSUME NEW c \in Clients, Read(c) \/ GiveUp(c) \/ Write(c) \/ Decide(c)
      PROVE  IInv'
  BY <1>2, ReadKeeps, GiveUpKeeps, WriteKeeps, DecideKeeps
<1>3. CASE Synthesize
  BY <1>3, SynthesizeKeeps
<1>4. ASSUME NEW k \in Keys, MarkStale(k)
      PROVE  IInv'
  BY <1>4, MarkStaleKeeps
<1>5. CASE TransitionPhase
  BY <1>5 DEF IInv, TransitionPhase, TypeOK, ReviewIsCurrent, FreshFollowsSources, ReadTogether, Agree, S
<1> QED BY <1>1, <1>2, <1>3, <1>4, <1>5 DEF Next

\* The invariant holds in every reachable state.
LEMMA Invariant == Spec => []IInv
  BY InitEstablishes, StepKeeps, PTL DEF Spec

-----------------------------------------------------------------------------
\* Every variable keeps its type and nothing founding is ever outdated, for
\* any pillars, clients and number of writes.
THEOREM TypeCorrect == Spec => []TypeOK
<1>1. IInv => TypeOK
  BY DEF IInv
<1> QED BY <1>1, Invariant, PTL

\* The approval of the plan never outlives the version that was reviewed, and
\* the strategy is VALIDATED only over an approved and fresh plan.
THEOREM ReviewAlwaysCurrent == Spec => []ReviewIsCurrent
<1>1. IInv => ReviewIsCurrent
  BY DEF IInv
<1> QED BY <1>1, Invariant, PTL

\* A pillar that is not marked stale follows its sources, unless its writer
\* compared none of their versions.
THEOREM FreshAlwaysFollows == Spec => []FreshFollowsSources
<1>1. IInv => FreshFollowsSources
  BY DEF IInv
<1> QED BY <1>1, Invariant, PTL

\* Nobody approves a plan he has not read, or whose sources have changed since.
THEOREM ApprovalIsOfWhatWasRead == Spec => ApprovedAsRead
<1> DEFINE Approval == pillar["s"].status # "VALIDATED" /\ pillar'["s"].status = "VALIDATED"
           Informed == \E c \in Clients : /\ task[c].kind = "review"
                                          /\ task'[c] = Idle
                                          /\ Agree(c, Sources("s") \cup {"s"})
<1>1. IInv /\ [Next]_vars => [Approval => Informed]_vars
  <2> SUFFICES ASSUME IInv, Next, Approval PROVE Informed
    OBVIOUS
  <2>1. ASSUME NEW c \in Clients, Write(c) PROVE FALSE
    <3>1. task[c].key \in Keys /\ TypeOK /\ pillar[task[c].key].status \in Statuses
      BY DEF IInv, TypeOK
    <3>2. \E status \in Asked(task[c].kind, task[c].key) : Persist(task[c].key, status)
      BY <2>1 DEF Write
    <3>3. Asked(task[c].kind, task[c].key) \subseteq Statuses
      BY <3>1 DEF Asked, Withdrawn, Statuses
    <3> QED BY <3>1, <3>2, <3>3, PersistReview DEF S
  <2>2. CASE Synthesize
    <3>1. "s" \in Keys /\ TypeOK /\ "AI_PROPOSED" \in Statuses
      BY SIsDerived DEF IInv, Statuses
    <3> QED BY <2>2, <3>1, PersistReview DEF Synthesize, S
  <2>3. ASSUME NEW k \in Keys, MarkStale(k) PROVE FALSE
    <3>1. PICK marked \in {{k}, {k} \cup Dependents(k)} :
             pillar' = [u \in Keys |-> IF u \in marked THEN Marked(u) ELSE pillar[u]]
      BY <2>3 DEF MarkStale
    <3>2. marked \in SUBSET Keys /\ TypeOK
      BY DEF IInv, Dependents
    <3>3. ("s" \in marked => S'.status = Withdrawn(S.status)) /\ ("s" \notin marked => S' = S)
      BY <3>1, <3>2, MarkRows
    <3> QED BY <3>3 DEF Withdrawn, S
  <2>4. ASSUME NEW c \in Clients, Decide(c) PROVE Informed
    <3>1. task[c].kind = "review" /\ task'[c] = Idle
      BY <2>4 DEF Decide, IInv, TypeOK
    <3>2. PICK target \in Transitions[pillar[task[c].key].status] :
             /\ AsRead(c, task[c].key, target)
             /\ target = "VALIDATED" => Approvable(task[c].key)
             /\ pillar' = [pillar EXCEPT ![task[c].key].status = target]
      BY <2>4 DEF Decide
    <3>3. task[c].key = "s" /\ target = "VALIDATED"
      BY <3>2, SIsDerived DEF IInv, TypeOK
    <3>4. task[c].seen["s"] = S.version /\ ~ S.stale
      BY <3>2, <3>3 DEF AsRead, Approvable, Agree, S
    <3>5. Agree(c, Sources("s"))
      BY <3>1, <3>4 DEF IInv, ReadTogether
    <3> QED BY <3>1, <3>4, <3>5 DEF Agree, S
  <2>5. ASSUME NEW c \in Clients, Read(c) \/ GiveUp(c) PROVE FALSE
    BY <2>5 DEF Read, GiveUp
  <2>6. CASE TransitionPhase
    BY <2>6 DEF TransitionPhase
  <2> QED BY <2>1, <2>2, <2>3, <2>4, <2>5, <2>6 DEF Next
<1> QED BY <1>1, Invariant, PTL DEF Spec, ApprovedAsRead
=============================================================================
