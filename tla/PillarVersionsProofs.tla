------------------------ MODULE PillarVersionsProofs ------------------------
(***************************************************************************)
(* Theorems about PillarVersions, for any leaves and values, any number of *)
(* restorations under way, and any number of versions and marks.           *)
(***************************************************************************)
EXTENDS PillarVersions, TLAPS

NewState == [content : Contents, status : Statuses, stale : Nat]

\* Effect, which does not depend on the door.
Named(w) == IF archive[w].intent # 0 THEN <<"intent", archive[w].intent>> ELSE <<"version", w>>

\* What a restoration under way has read is still in the archive, and the effect
\* it is about to record was not recorded when it read.
PlansStand ==
    \A r \in Requests : restore[r].busy =>
        /\ restore[r].read.version <= pillar.version
        /\ restore[r].row \in Versions /\ restore[r].row < restore[r].read.version
        /\ restore[r].effect = Named(restore[r].row)
        /\ \A v \in Versions : v < restore[r].read.version => archive[v].effect # restore[r].effect

\* A row that compensates another one comes after it and bears its effect.
TargetsAreNamed ==
    \A v \in Archived : archive[v].target # 0 =>
        /\ archive[v].target \in Archived
        /\ archive[v].effect = Named(archive[v].target)

\* What the latest row says of the mark, as long as no other mark came.
LatestMark ==
    \A w \in Versions : w + 1 = pillar.version =>
        /\ pillar.stale = 0 => archive[w].stale[2] = 0
        /\ archive[w].stale[1] = 0 /\ pillar.stale = archive[w].stale[2] => answered[w] = marks

\* No mark is later than the clock.
MarksArePast ==
    /\ pillar.stale <= marks
    /\ \A v \in Versions : archive[v].stale[1] <= marks /\ archive[v].stale[2] <= marks

IInv ==
    /\ TypeOK /\ HistoryReplays
    /\ PlansStand /\ TargetsAreNamed /\ CompensatedOnce
    /\ MarksArePast /\ LatestMark /\ FreshAnswersMarks
    /\ ApprovalIsNotCarried

-----------------------------------------------------------------------------
\* The two doors name one effect.
LEMMA OneEffect ==
    ASSUME NEW w, NEW d PROVE Effect(w, d) = Named(w)
BY DEF Effect, Named

LEMMA Typing ==
    /\ Empty \in Contents /\ New \in PillarRow /\ Blank \in Row /\ NoEffect \in Effects
    /\ Versions \subseteq Nat
BY VersionsAssumption DEF Empty, Contents, Slots, New, PillarRow, Blank, Row, NoEffect, Effects, Versions, Statuses

LEMMA InitEstablishes == Init => IInv
<1> SUFFICES ASSUME Init PROVE IInv
  OBVIOUS
<1>1. pillar = New /\ pillar.version = 1 /\ pillar.stale = 0 /\ pillar.status = "DRAFT" /\ Archived = {}
  BY VersionsAssumption DEF Init, New, Archived, Versions
<1>2. \A r \in Requests : restore[r] = Idle /\ ~restore[r].busy
  BY DEF Init, Idle
<1>3. TypeOK
  <2>1. Idle \in [busy : BOOLEAN, row : Nat, effect : Effects, read : PillarRow]
    BY Typing DEF Idle
  <2>2. 1 \in Versions /\ 0 \in 0..MaxMarks
    BY VersionsAssumption DEF Versions
  <2> QED BY <2>1, <2>2, Typing DEF Init, TypeOK
<1>4. HistoryReplays /\ TargetsAreNamed /\ CompensatedOnce /\ PlansStand
  BY <1>1, <1>2 DEF HistoryReplays, TargetsAreNamed, CompensatedOnce, PlansStand
<1>5. MarksArePast /\ LatestMark /\ FreshAnswersMarks /\ ApprovalIsNotCarried
  BY <1>1, VersionsAssumption DEF Init, Blank, MarksArePast, LatestMark, FreshAnswersMarks, ApprovalIsNotCarried, Versions
<1> QED BY <1>3, <1>4, <1>5 DEF IInv

\* What a write leaves in the row and in the archive.
LEMMA PersistFacts ==
    ASSUME TypeOK, NEW new \in NewState, NEW intent \in Nat, NEW effect \in Effects, NEW target \in Nat,
           Persist(pillar, new, intent, effect, target)
    PROVE  /\ pillar.version \in Versions /\ pillar.version + 1 \in Versions
           /\ pillar' \in PillarRow /\ archive' \in [Versions -> Row]
           /\ pillar'.version = pillar.version + 1 /\ pillar'.content = new.content
           /\ pillar'.status = StatusOf(new.status) /\ pillar'.stale = new.stale
           /\ \A v \in Versions : v # pillar.version => archive'[v] = archive[v]
           /\ archive'[pillar.version] \in Row
           /\ archive'[pillar.version].intent = intent
           /\ archive'[pillar.version].before = pillar.content
           /\ archive'[pillar.version].changed = {l \in Leaves : new.content[l] # pillar.content[l]}
           /\ archive'[pillar.version].after = new.content
           /\ archive'[pillar.version].effect = effect /\ archive'[pillar.version].target = target
           /\ archive'[pillar.version].stale = <<pillar.stale, new.stale>>
           /\ Archived' = Archived \cup {pillar.version}
<1> DEFINE row == [intent |-> intent, before |-> pillar.content,
           changed |-> {l \in Leaves : new.content[l] # pillar.content[l]}, after |-> new.content,
           effect |-> effect, target |-> target,
           status |-> <<pillar.status, StatusOf(new.status)>>, stale |-> <<pillar.stale, new.stale>>]
<1>1. pillar.version \in Versions /\ pillar.version + 1 \in Versions
  BY VersionsAssumption DEF Persist, TypeOK, PillarRow, Versions
<1>2. /\ new.content \in Contents /\ new.status \in Statuses /\ new.stale \in Nat
      /\ pillar.content \in Contents /\ pillar.status \in Statuses /\ pillar.stale \in Nat
  BY DEF NewState, TypeOK, PillarRow
<1>3. StatusOf(new.status) \in Statuses
  BY <1>2 DEF StatusOf, Statuses
<1>4. row \in Row
  BY <1>2, <1>3 DEF Row
<1>5. archive' = [archive EXCEPT ![pillar.version] = row]
  BY DEF Persist
<1>6. pillar' = [version |-> pillar.version + 1, content |-> new.content,
                 status |-> StatusOf(new.status), stale |-> new.stale]
  BY DEF Persist
<1>7. pillar' \in PillarRow
  BY <1>1, <1>2, <1>3, <1>6 DEF PillarRow
<1>8. archive' \in [Versions -> Row] /\ archive'[pillar.version] = row
      /\ \A v \in Versions : v # pillar.version => archive'[v] = archive[v]
  <2> HIDE DEF row
  <2> QED BY <1>1, <1>4, <1>5 DEF TypeOK
<1>9. Archived' = Archived \cup {pillar.version}
  BY <1>1, <1>6, VersionsAssumption DEF Archived, Versions
<1> QED BY <1>1, <1>4, <1>6, <1>7, <1>8, <1>9

\* The archive still tells how the content came about.
LEMMA ReplayStep ==
    ASSUME TypeOK, HistoryReplays, NEW new \in NewState, NEW intent \in Nat, NEW effect \in Effects,
           NEW target \in Nat, Persist(pillar, new, intent, effect, target)
    PROVE  HistoryReplays'
<1> SUFFICES ASSUME NEW v \in Archived', NEW l \in Leaves
             PROVE  ContentAfter(v)'[l] = IF l \in archive'[v].changed
                                          THEN archive'[v].after[l] ELSE archive'[v].before[l]
  BY DEF HistoryReplays
<1>1. CASE v = pillar.version
  <2>1. ContentAfter(v)' = new.content
    BY <1>1, PersistFacts DEF ContentAfter
  <2> QED BY <1>1, <2>1, PersistFacts
<1>2. CASE v # pillar.version
  <2>1. v \in Archived /\ v \in Versions /\ v \in Nat /\ v < pillar.version /\ pillar.version \in Nat
    <3>1. pillar.version \in Nat /\ Archived' = Archived \cup {pillar.version}
      BY PersistFacts, Typing
    <3> QED BY <1>2, <3>1, Typing DEF Archived
  <2>2. archive'[v] = archive[v]
    BY <1>2, <2>1, PersistFacts
  <2>3. ContentAfter(v)' = archive'[v + 1].before
    <3>1. v + 1 # pillar.version + 1
      BY <1>2, <2>1
    <3> QED BY <3>1, PersistFacts DEF ContentAfter
  <2>4. archive'[v + 1].before = ContentAfter(v)
    <3>1. CASE v + 1 = pillar.version
      BY <3>1, PersistFacts DEF ContentAfter
    <3>2. CASE v + 1 # pillar.version
      <4>1. v + 1 \in Versions
        BY <2>1, PersistFacts, VersionsAssumption DEF Versions
      <4> QED BY <3>2, <4>1, PersistFacts DEF ContentAfter
    <3> QED BY <3>1, <3>2
  <2> QED BY <2>1, <2>2, <2>3, <2>4 DEF HistoryReplays
<1> QED BY <1>1, <1>2

\* Rows of the archive never change, so a plan stands while others write.
LEMMA PlansOutlive ==
    ASSUME TypeOK, PlansStand, NEW new \in NewState, NEW intent \in Nat, NEW effect \in Effects,
           NEW target \in Nat, Persist(pillar, new, intent, effect, target),
           \A r \in Requests : restore'[r].busy => restore'[r] = restore[r]
    PROVE  PlansStand'
<1> SUFFICES ASSUME NEW r \in Requests, restore'[r].busy
             PROVE  /\ restore'[r].read.version <= pillar'.version
                    /\ restore'[r].row \in Versions /\ restore'[r].row < restore'[r].read.version
                    /\ restore'[r].effect = IF archive'[restore'[r].row].intent # 0
                         THEN <<"intent", archive'[restore'[r].row].intent>> ELSE <<"version", restore'[r].row>>
                    /\ \A v \in Versions : v < restore'[r].read.version => archive'[v].effect # restore'[r].effect
  BY DEF PlansStand, Named
<1>1. restore'[r] = restore[r] /\ restore[r].busy
  OBVIOUS
<1>2. /\ restore[r].read.version <= pillar.version
      /\ restore[r].row \in Versions /\ restore[r].row < restore[r].read.version
      /\ restore[r].effect = Named(restore[r].row)
      /\ \A v \in Versions : v < restore[r].read.version => archive[v].effect # restore[r].effect
  BY <1>1 DEF PlansStand
<1>3. restore[r].read.version \in Nat /\ pillar.version \in Nat
  BY Typing DEF TypeOK, PillarRow
<1>4. \A v \in Versions : v < restore[r].read.version => archive'[v] = archive[v]
  <2>1. \A v \in Versions : v # pillar.version => archive'[v] = archive[v]
    BY PersistFacts
  <2>2. \A v \in Versions : v \in Nat
    BY Typing
  <2>3. \A v \in Versions : v < restore[r].read.version => v # pillar.version
    BY <1>2, <1>3, <2>2
  <2> QED BY <2>1, <2>3
<1>5. archive'[restore[r].row] = archive[restore[r].row]
  BY <1>2, <1>4
<1>7. restore'[r].read.version <= pillar'.version
  BY <1>1, <1>2, <1>3, PersistFacts
<1>8. restore'[r].effect = IF archive'[restore'[r].row].intent # 0
          THEN <<"intent", archive'[restore'[r].row].intent>> ELSE <<"version", restore'[r].row>>
  BY <1>1, <1>2, <1>5 DEF Named
<1>9. \A v \in Versions : v < restore'[r].read.version => archive'[v].effect # restore'[r].effect
  BY <1>1, <1>2, <1>4
<1> QED BY <1>1, <1>2, <1>7, <1>8, <1>9

\* The rows that compensate, once one more write is archived.
LEMMA TargetsStep ==
    ASSUME TypeOK, TargetsAreNamed, CompensatedOnce,
           NEW new \in NewState, NEW intent \in Nat, NEW effect \in Effects,
           NEW target \in Nat, Persist(pillar, new, intent, effect, target),
           target # 0 => /\ target \in Archived
                         /\ effect = Named(target)
                         /\ \A v \in Archived : archive[v].effect # effect
    PROVE  TargetsAreNamed' /\ CompensatedOnce'
<1>0. /\ Archived' = Archived \cup {pillar.version} /\ pillar.version \notin Archived
      /\ \A v \in Archived : archive'[v] = archive[v]
      /\ archive'[pillar.version].target = target /\ archive'[pillar.version].effect = effect
  <2>1. pillar.version \in Nat
    BY PersistFacts, Typing
  <2>2. pillar.version \notin Archived /\ Archived \subseteq Versions
    BY <2>1 DEF Archived
  <2> QED BY <2>2, PersistFacts
<1>1. \A v \in Archived : archive'[v].intent = archive[v].intent
  BY <1>0
<1>2. TargetsAreNamed'
  <2> SUFFICES ASSUME NEW v \in Archived', archive'[v].target # 0
               PROVE  /\ archive'[v].target \in Archived'
                      /\ archive'[v].effect = IF archive'[archive'[v].target].intent # 0
                           THEN <<"intent", archive'[archive'[v].target].intent>>
                           ELSE <<"version", archive'[v].target>>
    BY DEF TargetsAreNamed, Named
  <2>1. archive'[v].target \in Archived
        /\ archive'[v].effect = Named(archive'[v].target)
    <3>1. CASE v \in Archived
      BY <1>0, <3>1 DEF TargetsAreNamed
    <3>2. CASE v = pillar.version
      BY <1>0, <3>2
    <3> QED BY <1>0, <3>1, <3>2
  <2> QED BY <1>0, <1>1, <2>1 DEF Named
<1>3. \A v \in Archived : target # 0 => archive[v].target # target
  <2> SUFFICES ASSUME NEW v \in Archived, target # 0, archive[v].target = target PROVE FALSE
    OBVIOUS
  <2> QED BY DEF TargetsAreNamed
<1>4. CompensatedOnce'
  <2> SUFFICES ASSUME NEW v \in Archived', NEW u \in Archived',
                      archive'[v].target # 0, archive'[v].target = archive'[u].target
               PROVE  v = u
    BY DEF CompensatedOnce
  <2>1. CASE v \in Archived /\ u \in Archived
    BY <1>0, <2>1 DEF CompensatedOnce
  <2>2. CASE v = pillar.version \/ u = pillar.version
    BY <1>0, <1>3, <2>2
  <2> QED BY <1>0, <2>1, <2>2
<1> QED BY <1>2, <1>4

\* A write never leaves S approved.
LEMMA ApprovalStep ==
    ASSUME TypeOK, NEW new \in NewState, NEW intent \in Nat, NEW effect \in Effects,
           NEW target \in Nat, Persist(pillar, new, intent, effect, target)
    PROVE  ApprovalIsNotCarried'
BY PersistFacts DEF ApprovalIsNotCarried, StatusOf

\* What a mark and an answer mean, once one more write is archived.
LEMMA MarksStep ==
    ASSUME TypeOK, MarksArePast, LatestMark, FreshAnswersMarks,
           NEW new \in NewState, NEW intent \in Nat, NEW effect \in Effects,
           NEW target \in Nat, Persist(pillar, new, intent, effect, target),
           marks' = marks, NEW a \in 0..MaxMarks,
           answered' = [answered EXCEPT ![pillar.version + 1] = a],
           new.stale <= marks,
           new.stale = 0 => a = marks
    PROVE  MarksArePast' /\ LatestMark' /\ FreshAnswersMarks'
<1> DEFINE v == pillar.version
<1>0. v \in Nat /\ v \in Versions /\ v + 1 \in Versions /\ pillar'.version = v + 1 /\ pillar'.stale = new.stale
      /\ archive'[v].stale = <<pillar.stale, new.stale>>
  BY PersistFacts, Typing
<1>1. answered'[v + 1] = a /\ answered'[v] = answered[v]
  BY <1>0 DEF TypeOK
<1>2. FreshAnswersMarks'
  BY <1>0, <1>1 DEF FreshAnswersMarks
<1>3. archive'[v].stale[1] = pillar.stale /\ archive'[v].stale[2] = new.stale
  BY <1>0
<1>4. archive'[v].stale[1] = 0 => answered'[v] = marks
  BY <1>1, <1>3 DEF FreshAnswersMarks
<1>5. \A w \in Versions : w + 1 = v + 1 => w = v
  BY <1>0, Typing
<1>6. LatestMark'
  BY <1>0, <1>3, <1>4, <1>5 DEF LatestMark
<1>7. MarksArePast'
  <2>1. \A w \in Versions \ {v} : archive'[w] = archive[w]
    BY PersistFacts
  <2> QED BY <1>0, <1>3, <2>1 DEF MarksArePast
<1> QED BY <1>2, <1>6, <1>7

\* What a restoration plans is a state of the pillar.
LEMMA PlanTyped ==
    ASSUME TypeOK, NEW w \in Versions
    PROVE  Planned(w, pillar) \in NewState
<1>1. archive[w] \in Row /\ pillar \in PillarRow
  BY DEF TypeOK
<1>2. \A l \in Leaves : archive[w].before[l] \in Slots /\ archive[w].after[l] \in Slots /\ pillar.content[l] \in Slots
  BY <1>1 DEF Row, PillarRow, Contents
<1>3. /\ archive[w].status[1] \in Statuses /\ archive[w].status[2] \in Statuses /\ pillar.status \in Statuses
      /\ archive[w].stale[1] \in Nat /\ archive[w].stale[2] \in Nat /\ pillar.stale \in Nat
  BY <1>1 DEF Row, PillarRow
<1>4. Planned(w, pillar).content \in Contents
  BY <1>2 DEF Planned, Contents, Put, Undo
<1>5. Planned(w, pillar).status \in Statuses /\ Planned(w, pillar).stale \in Nat
  BY <1>3 DEF Planned, Undo
<1> QED BY <1>4, <1>5 DEF Planned, NewState

\* Every step keeps the inductive invariant.
LEMMA Step == IInv /\ [Next]_vars => IInv'
<1> SUFFICES ASSUME IInv, [Next]_vars PROVE IInv'
  OBVIOUS
<1>0. TypeOK /\ HistoryReplays /\ PlansStand /\ TargetsAreNamed /\ CompensatedOnce
      /\ MarksArePast /\ LatestMark /\ FreshAnswersMarks /\ ApprovalIsNotCarried
  BY DEF IInv
<1> USE <1>0
<1>1. ASSUME NEW content \in Contents, Write(content) PROVE IInv'
  <2>1. PICK status \in Written, intent \in Intents :
            Persist(pillar, [content |-> content, status |-> status, stale |-> 0], intent, NoEffect, 0)
    BY <1>1 DEF Write
  <2> DEFINE new == [content |-> content, status |-> status, stale |-> 0]
  <2>2. status \in Statuses
    BY VersionsAssumption DEF Written, TypeOK, PillarRow, Statuses
  <2>3. intent \in Nat
    <3>1. \A v \in Archived : archive[v].intent \in Nat
      BY DEF Archived, TypeOK, Row
    <3>2. pillar.version \in Nat
      BY Typing DEF TypeOK, PillarRow
    <3> QED BY <3>1, <3>2 DEF Intents
  <2>4. new \in NewState /\ new.stale = 0 /\ NoEffect \in Effects
    BY <2>2, Typing DEF NewState
  <2>5. Persist(pillar, new, intent, NoEffect, 0)
    BY <2>1
  <2>6. /\ UNCHANGED <<marks, restore, approved>>
        /\ answered' = [answered EXCEPT ![pillar.version + 1] = marks]
    BY <1>1 DEF Write
  <2> HIDE DEF new
  <2>7. marks \in 0..MaxMarks /\ 0 <= marks
    BY VersionsAssumption DEF TypeOK
  <2>8. TypeOK'
    BY <2>3, <2>4, <2>5, <2>6, <2>7, PersistFacts DEF TypeOK
  <2>9. HistoryReplays'
    BY <2>3, <2>4, <2>5, ReplayStep
  <2>10. PlansStand'
    BY <2>3, <2>4, <2>5, <2>6, PlansOutlive
  <2>11. TargetsAreNamed' /\ CompensatedOnce'
    BY <2>3, <2>4, <2>5, TargetsStep
  <2>12. MarksArePast' /\ LatestMark' /\ FreshAnswersMarks'
    <3>1. new.stale <= marks /\ marks' = marks
      BY <2>4, <2>6, <2>7
    <3>2. PICK a \in 0..MaxMarks : a = marks
      BY <2>7
    <3>3. answered' = [answered EXCEPT ![pillar.version + 1] = a] /\ (new.stale = 0 => a = marks)
      BY <2>6, <3>2
    <3>4. PICK target \in Nat : Persist(pillar, new, intent, NoEffect, target)
      BY <2>5
    <3> QED BY <2>3, <2>4, <3>1, <3>3, <3>4, MarksStep
  <2>13. ApprovalIsNotCarried'
    BY <2>3, <2>4, <2>5, ApprovalStep
  <2> QED BY <2>8, <2>9, <2>10, <2>11, <2>12, <2>13 DEF IInv
<1>2. CASE Mark
  <2>1. /\ pillar'.version = pillar.version /\ pillar'.content = pillar.content /\ pillar'.stale = marks + 1
        /\ pillar' \in PillarRow /\ marks' = marks + 1 /\ marks' \in 0..MaxMarks /\ marks \in Nat
    <3>1. pillar \in PillarRow /\ marks \in 0..MaxMarks /\ marks < MaxMarks /\ marks' = marks + 1
      BY <1>2 DEF TypeOK, Mark
    <3>2. pillar'.version = pillar.version /\ pillar'.content = pillar.content /\ pillar'.stale = marks + 1
      BY <1>2, <3>1 DEF Mark, PillarRow
    <3>3. marks' \in 0..MaxMarks /\ marks + 1 \in Nat
      BY <3>1, VersionsAssumption
    <3>4. pillar' \in PillarRow
      BY <1>2, <3>1, <3>3 DEF Mark, PillarRow, Statuses
    <3> QED BY <3>1, <3>2, <3>3, <3>4
  <2>2. UNCHANGED <<archive, restore, answered, approved>> /\ Archived' = Archived
    BY <1>2, <2>1 DEF Mark, Archived
  <2>3. TypeOK'
    BY <2>1, <2>2 DEF TypeOK
  <2>4. HistoryReplays' /\ TargetsAreNamed' /\ CompensatedOnce' /\ PlansStand'
    BY <2>1, <2>2 DEF HistoryReplays, ContentAfter, TargetsAreNamed, CompensatedOnce, PlansStand, Named
  <2>5. FreshAnswersMarks'
    BY <2>1 DEF FreshAnswersMarks
  <2>6. LatestMark'
    <3>1. \A w \in Versions : archive[w].stale[2] \in Nat /\ archive[w].stale[2] <= marks
      BY DEF TypeOK, Row, MarksArePast
    <3> QED BY <2>1, <2>2, <3>1 DEF LatestMark
  <2>8. MarksArePast'
    <3>1. \A v \in Versions : archive[v].stale[1] \in Nat /\ archive[v].stale[2] \in Nat
      BY DEF TypeOK, Row
    <3> QED BY <2>1, <2>2, <3>1 DEF MarksArePast
  <2>7. ApprovalIsNotCarried'
    <3>1. Synthesis => pillar'.status = IF pillar.status = "VALIDATED" THEN "AI_PROPOSED" ELSE pillar.status
      BY <1>2 DEF Mark, TypeOK, PillarRow
    <3> QED BY <2>1, <2>2, <3>1 DEF ApprovalIsNotCarried
  <2> QED BY <2>3, <2>4, <2>5, <2>6, <2>7, <2>8 DEF IInv
<1>3. ASSUME NEW status \in Decisions, Decide(status) PROVE IInv'
  <2>1. /\ pillar'.version = pillar.version /\ pillar'.content = pillar.content /\ pillar'.stale = pillar.stale
        /\ pillar'.status = status /\ pillar' \in PillarRow
    BY <1>3, VersionsAssumption DEF Decide, TypeOK, PillarRow
  <2>2. UNCHANGED <<archive, restore, answered, marks>> /\ Archived' = Archived
    BY <1>3, <2>1 DEF Decide, Archived
  <2>3. approved' = IF status = "VALIDATED" THEN pillar.version ELSE approved
    BY <1>3 DEF Decide
  <2>4. TypeOK'
    BY <2>1, <2>2, <2>3, Typing DEF TypeOK, PillarRow
  <2>5. HistoryReplays' /\ TargetsAreNamed' /\ CompensatedOnce' /\ PlansStand'
    BY <2>1, <2>2 DEF HistoryReplays, ContentAfter, TargetsAreNamed, CompensatedOnce, PlansStand, Named
  <2>6. FreshAnswersMarks' /\ LatestMark' /\ MarksArePast'
    BY <2>1, <2>2 DEF FreshAnswersMarks, LatestMark, MarksArePast
  <2>7. ApprovalIsNotCarried'
    <3>1. status = "LOCKED" => pillar.status = "VALIDATED"
      BY <1>3 DEF Decide, Transitions, TypeOK, PillarRow, Statuses
    <3> QED BY <2>1, <2>3, <3>1 DEF ApprovalIsNotCarried
  <2> QED BY <2>4, <2>5, <2>6, <2>7 DEF IInv
<1>4. ASSUME NEW r \in Requests, NEW w \in Versions, NEW door \in Doors, Plan(r, w, door) PROVE IInv'
  <2> DEFINE plan == [busy |-> TRUE, row |-> w, effect |-> Effect(w, door), read |-> pillar]
  <2>0. w \in Archived /\ pillar.version \in Nat /\ w \in Nat /\ pillar \in PillarRow
        /\ pillar.version \in Versions
    BY <1>4, Typing DEF Plan, TypeOK, PillarRow
  <2>1. Effect(w, door) = Named(w) /\ Effect(w, door) \in Effects
    BY <2>0, OneEffect DEF Named, Effects, TypeOK, Row
  <2>2. plan \in [busy : BOOLEAN, row : Nat, effect : Effects, read : PillarRow]
    BY <2>0, <2>1
  <2>3. restore' = [restore EXCEPT ![r] = plan] /\ UNCHANGED <<pillar, archive, marks, answered, approved>>
    BY <1>4 DEF Plan
  <2>4. TypeOK'
    <3> HIDE DEF plan
    <3> QED BY <2>2, <2>3 DEF TypeOK
  <2>5. \A v \in Versions : v < pillar.version => archive[v].effect # Effect(w, door)
    BY <1>4 DEF Plan, Compensated, Archived
  <2>6. /\ plan.read.version <= pillar.version /\ plan.row \in Versions /\ plan.row < plan.read.version
        /\ plan.effect = Named(plan.row)
        /\ \A v \in Versions : v < plan.read.version => archive[v].effect # plan.effect
    BY <2>0, <2>1, <2>5 DEF Archived
  <2>7. PlansStand'
    <3> HIDE DEF plan
    <3>1. \A q \in Requests : restore'[q] = IF q = r THEN plan ELSE restore[q]
      BY <2>3 DEF TypeOK
    <3> QED BY <2>3, <2>6, <3>1 DEF PlansStand, Named
  <2>8. HistoryReplays' /\ TargetsAreNamed' /\ CompensatedOnce' /\ LatestMark'
        /\ MarksArePast' /\ FreshAnswersMarks' /\ ApprovalIsNotCarried'
    BY <2>3 DEF HistoryReplays, ContentAfter, TargetsAreNamed, CompensatedOnce, LatestMark,
                MarksArePast, FreshAnswersMarks, ApprovalIsNotCarried, Archived, Named
  <2> QED BY <2>4, <2>7, <2>8 DEF IInv
<1>5. ASSUME NEW r \in Requests, Commit(r) PROVE IInv'
  <2> DEFINE w == restore[r].row
             new == Planned(w, pillar)
             effect == restore[r].effect
             a == IF w + 1 = pillar.version THEN answered[w] ELSE answered[pillar.version]
  <2>1. restore[r].busy /\ restore[r].read = pillar
    BY <1>5 DEF Commit, Unmoved
  <2>2. /\ w \in Versions /\ w \in Nat /\ w < pillar.version /\ effect = Named(w)
        /\ pillar.version \in Versions /\ pillar.version \in Nat
        /\ \A v \in Versions : v < pillar.version => archive[v].effect # effect
    BY <2>1, Typing DEF PlansStand, TypeOK, PillarRow
  <2>3. new \in NewState
    BY <2>2, PlanTyped
  <2>4. effect \in Effects /\ w # 0
    BY <2>2, VersionsAssumption DEF TypeOK, Versions
  <2>5. Persist(pillar, new, pillar.version, effect, w)
    BY <1>5, <2>1 DEF Commit
  <2>6. /\ restore' = [restore EXCEPT ![r] = Idle] /\ UNCHANGED <<marks, approved>>
        /\ answered' = [answered EXCEPT ![pillar.version + 1] = a]
    BY <1>5 DEF Commit
  <2>7. a \in 0..MaxMarks
    BY <2>2 DEF TypeOK
  <2>8. restore' \in [Requests -> [busy : BOOLEAN, row : Nat, effect : Effects, read : PillarRow]]
        /\ \A q \in Requests : restore'[q].busy => restore'[q] = restore[q]
    <3>1. Idle \in [busy : BOOLEAN, row : Nat, effect : Effects, read : PillarRow] /\ ~Idle.busy
      BY Typing DEF Idle
    <3> QED BY <2>6, <3>1 DEF TypeOK
  <2>9. new.stale <= marks /\ (new.stale = 0 => a = marks)
    <3>1. new.stale = IF w + 1 = pillar.version
                      THEN Undo(archive[w].stale[1], archive[w].stale[2], pillar.stale) ELSE pillar.stale
      BY <2>2 DEF Planned, Latest
    <3>2. CASE w + 1 # pillar.version
      <4>1. new.stale = pillar.stale /\ a = answered[pillar.version]
        BY <3>1, <3>2
      <4> HIDE DEF new, a
      <4> QED BY <4>1 DEF FreshAnswersMarks, MarksArePast
    <3>3. CASE w + 1 = pillar.version
      <4>1. new.stale = Undo(archive[w].stale[1], archive[w].stale[2], pillar.stale) /\ a = answered[w]
        BY <3>1, <3>3
      <4> HIDE DEF new, a
      <4>2. /\ pillar.stale = 0 => archive[w].stale[2] = 0
            /\ archive[w].stale[1] = 0 /\ pillar.stale = archive[w].stale[2] => answered[w] = marks
        BY <2>2, <3>3 DEF LatestMark
      <4>3. archive[w].stale[1] <= marks /\ pillar.stale <= marks
        BY <2>2 DEF MarksArePast
      <4> QED BY <4>1, <4>2, <4>3 DEF Undo
    <3> QED BY <3>2, <3>3
  <2> HIDE DEF new, effect, a
  <2>10. TypeOK'
    BY <2>2, <2>3, <2>4, <2>5, <2>6, <2>7, <2>8, PersistFacts DEF TypeOK
  <2>11. HistoryReplays'
    BY <2>2, <2>3, <2>4, <2>5, ReplayStep
  <2>12. PlansStand'
    BY <2>2, <2>3, <2>4, <2>5, <2>8, PlansOutlive
  <2>13. TargetsAreNamed' /\ CompensatedOnce'
    <3>1. w \in Archived /\ \A v \in Archived : archive[v].effect # effect
      BY <2>2 DEF Archived
    <3> QED BY <2>2, <2>3, <2>4, <2>5, <3>1, TargetsStep
  <2>14. MarksArePast' /\ LatestMark' /\ FreshAnswersMarks'
    BY <2>2, <2>3, <2>4, <2>5, <2>6, <2>7, <2>9, MarksStep
  <2>15. ApprovalIsNotCarried'
    BY <2>2, <2>3, <2>4, <2>5, ApprovalStep
  <2> QED BY <2>10, <2>11, <2>12, <2>13, <2>14, <2>15 DEF IInv
<1>6. ASSUME NEW r \in Requests, GiveUp(r) PROVE IInv'
  <2>1. Idle \in [busy : BOOLEAN, row : Nat, effect : Effects, read : PillarRow] /\ ~Idle.busy
    BY Typing DEF Idle
  <2>2. restore' = [restore EXCEPT ![r] = Idle] /\ UNCHANGED <<pillar, archive, marks, answered, approved>>
    BY <1>6 DEF GiveUp
  <2>3. TypeOK'
    BY <2>1, <2>2 DEF TypeOK
  <2>4. \A q \in Requests : restore'[q].busy => restore'[q] = restore[q]
    BY <2>1, <2>2 DEF TypeOK
  <2>5. PlansStand'
    BY <2>2, <2>4 DEF PlansStand, Named
  <2>6. HistoryReplays' /\ TargetsAreNamed' /\ CompensatedOnce' /\ LatestMark'
        /\ MarksArePast' /\ FreshAnswersMarks' /\ ApprovalIsNotCarried'
    BY <2>2 DEF HistoryReplays, ContentAfter, TargetsAreNamed, CompensatedOnce, LatestMark,
                MarksArePast, FreshAnswersMarks, ApprovalIsNotCarried, Archived, Named
  <2> QED BY <2>3, <2>5, <2>6 DEF IInv
<1>7. CASE UNCHANGED vars
  BY <1>7 DEF vars, IInv, TypeOK, HistoryReplays, ContentAfter, PlansStand, Named, TargetsAreNamed, CompensatedOnce,
              MarksArePast, LatestMark, FreshAnswersMarks, ApprovalIsNotCarried, Archived
<1> QED BY <1>1, <1>2, <1>3, <1>4, <1>5, <1>6, <1>7 DEF Next

LEMMA Invariance == Spec => []IInv
<1> QED BY InitEstablishes, Step, PTL DEF Spec

-----------------------------------------------------------------------------
\* The row of the pillar, its archive and the requests have their types.
THEOREM TypeCorrect == Spec => []TypeOK
<1>1. IInv => TypeOK
  BY DEF IInv
<1> QED BY Invariance, <1>1, PTL

\* The archive of a pillar tells how its content came about.
THEOREM ArchiveReplays == Spec => []HistoryReplays
<1>1. IInv => HistoryReplays
  BY DEF IInv
<1> QED BY Invariance, <1>1, PTL

\* No write is compensated twice, by the history and by the intention together.
THEOREM OneCompensation == Spec => []CompensatedOnce
<1>1. IInv => CompensatedOnce
  BY DEF IInv
<1> QED BY Invariance, <1>1, PTL

\* A restoration loses no mark of staleness.
THEOREM MarksSurvive == Spec => []FreshAnswersMarks
<1>1. IInv => FreshAnswersMarks
  BY DEF IInv
<1> QED BY Invariance, <1>1, PTL

\* S is approved in the version that was read, after any compensation.
THEOREM ApprovalStays == Spec => []ApprovalIsNotCarried
<1>1. IInv => ApprovalIsNotCarried
  BY DEF IInv
<1> QED BY Invariance, <1>1, PTL

-----------------------------------------------------------------------------
\* A step that restores is the commit of a request, over the pillar it read.
LEMMA RestoresCommits ==
    ASSUME IInv, [Next]_vars, NEW w \in Versions, Restores(w)
    PROVE  /\ w \in Archived
           /\ pillar'.content = Planned(w, pillar).content
<1> USE DEF IInv
<1>0. pillar.version \in Nat /\ pillar.version \in Versions /\ w # 0 /\ w \in Nat
  BY VersionsAssumption DEF TypeOK, PillarRow, Versions
<1>1. pillar'.version = pillar.version + 1 /\ pillar'.version # pillar.version
      /\ archive'[pillar.version].target = w
  BY <1>0 DEF Restores
<1>2. ASSUME NEW content \in Contents, Write(content) PROVE FALSE
  <2>1. archive'[pillar.version].target = 0
    BY <1>0, <1>2 DEF Write, Persist, TypeOK
  <2> QED BY <1>0, <1>1, <2>1
<1>3. ~Mark
  BY <1>0, <1>1 DEF Mark, TypeOK, PillarRow
<1>4. ASSUME NEW status, Decide(status) PROVE FALSE
  BY <1>0, <1>1, <1>4 DEF Decide, TypeOK, PillarRow
<1>5. ASSUME NEW r \in Requests, NEW u, NEW door, Plan(r, u, door) PROVE FALSE
  BY <1>1, <1>5 DEF Plan
<1>6. ASSUME NEW r \in Requests, GiveUp(r) PROVE FALSE
  BY <1>1, <1>6 DEF GiveUp
<1>7. ASSUME NEW r \in Requests, Commit(r)
      PROVE  w \in Archived /\ pillar'.content = Planned(w, pillar).content
  <2>1. restore[r].busy /\ restore[r].read = pillar
    BY <1>7 DEF Commit, Unmoved
  <2>2. restore[r].row \in Archived
    BY <2>1 DEF PlansStand, Archived
  <2>3. Persist(pillar, Planned(restore[r].row, pillar), pillar.version, restore[r].effect, restore[r].row)
    BY <1>7, <2>1 DEF Commit
  <2>4. archive'[pillar.version].target = restore[r].row
        /\ pillar'.content = Planned(restore[r].row, pillar).content
    BY <1>0, <2>3 DEF Persist, TypeOK
  <2> QED BY <1>1, <2>2, <2>4
<1>8. ~UNCHANGED vars
  BY <1>1 DEF vars
<1> QED BY <1>2, <1>3, <1>4, <1>5, <1>6, <1>7, <1>8 DEF Next

\* What a plan leaves in a leaf.
LEMMA PlannedLeaf ==
    ASSUME NEW w \in Archived, NEW l \in Leaves
    PROVE  Planned(w, pillar).content[l] =
             IF l \in archive[w].changed
             THEN Undo(archive[w].before[l], archive[w].after[l], pillar.content[l])
             ELSE pillar.content[l]
BY DEF Planned, Put

\* A restoration keeps what was written after the write it compensates.
THEOREM LaterWorkStands == Spec => LaterWorkKept
<1> DEFINE Kept == \A w \in Versions : Restores(w) =>
          \A l \in Leaves : pillar'.content[l] # pillar.content[l] =>
              /\ pillar.content[l] = ContentAfter(w)[l]
              /\ pillar'.content[l] = archive[w].before[l]
<1>1. IInv /\ [Next]_vars => [Kept]_vars
  <2> SUFFICES ASSUME IInv, [Next]_vars, NEW w \in Versions, Restores(w),
                      NEW l \in Leaves, pillar'.content[l] # pillar.content[l]
               PROVE  /\ pillar.content[l] = ContentAfter(w)[l]
                      /\ pillar'.content[l] = archive[w].before[l]
    OBVIOUS
  <2>1. w \in Archived /\ pillar'.content = Planned(w, pillar).content
    BY RestoresCommits
  <2>2. l \in archive[w].changed /\ pillar.content[l] = archive[w].after[l]
        /\ pillar'.content[l] = archive[w].before[l]
    BY <2>1, PlannedLeaf DEF Undo
  <2>3. ContentAfter(w)[l] = archive[w].after[l]
    BY <2>1, <2>2 DEF IInv, HistoryReplays
  <2> QED BY <2>2, <2>3
<1> QED BY <1>1, Invariance, PTL DEF Spec, LaterWorkKept

\* The restoration of the latest write is its reversal.
THEOREM LatestReversed == Spec => LatestIsReversed
<1> DEFINE Reversed == \A w \in Versions : Restores(w) /\ w + 1 = pillar.version => pillar'.content = archive[w].before
<1>1. IInv /\ [Next]_vars => [Reversed]_vars
  <2> SUFFICES ASSUME IInv, [Next]_vars, NEW w \in Versions, Restores(w), w + 1 = pillar.version
               PROVE  pillar'.content = archive[w].before
    OBVIOUS
  <2>1. w \in Archived /\ pillar'.content = Planned(w, pillar).content
    BY RestoresCommits
  <2>2. archive[w].before \in Contents /\ archive[w] \in Row /\ pillar \in PillarRow
    BY <2>1 DEF IInv, TypeOK, Row
  <2>3. pillar'.content \in Contents
    BY <2>1, <2>2, PlanTyped DEF IInv, NewState
  <2>4. ASSUME NEW l \in Leaves PROVE pillar'.content[l] = archive[w].before[l]
    <3>1. pillar.content[l] = IF l \in archive[w].changed THEN archive[w].after[l] ELSE archive[w].before[l]
      BY <2>1 DEF IInv, HistoryReplays, ContentAfter
    <3> QED BY <2>1, <3>1, PlannedLeaf DEF Undo
  <2> QED BY <2>2, <2>3, <2>4 DEF Contents
<1> QED BY <1>1, Invariance, PTL DEF Spec, LatestIsReversed
=============================================================================
