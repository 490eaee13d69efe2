---------------------- MODULE SubscriptionCyclesProofs ----------------------
(***************************************************************************)
(* Theorems about SubscriptionCycles, for any number of payments on any    *)
(* rails and any number of deliveries handled at once.                     *)
(***************************************************************************)
EXTENDS SubscriptionCycles, FiniteSetTheorems, TLAPS

PayRow == [status : {"absent", "PENDING", "PAID", "FAILED"}, proof : BOOLEAN,
           paidAt : 0..(MaxClock + 1), applied : BOOLEAN]
HookRow == [at : Steps, ref : Payments \cup {NoPayment},
            paidAt : 0..(MaxClock + 1), seen : Nat]

\* The transaction of a payment is open once at most, and finds it not applied.
OneGrantAtATime ==
    /\ \A h \in Hooks : hook[h].at \in {"base", "commit"} => ~pay[hook[h].ref].applied
    /\ \A g, h \in Hooks :
           hook[g].at \in {"base", "commit"} /\ hook[h].at \in {"base", "commit"}
               /\ hook[g].ref = hook[h].ref => g = h

\* A delivery that is about to mark a payment PAID has it from the provider.
ToldCollected ==
    \A h \in Hooks : hook[h].at = "pay" => truth[hook[h].ref] = "charged"

IInv == TypeOK /\ GrantedOnce /\ PaidIsCollected /\ OneGrantAtATime /\ ToldCollected

-----------------------------------------------------------------------------
LEMMA InitEstablishes == Init => IInv
<1> SUFFICES ASSUME Init PROVE IInv
  OBVIOUS
<1>1. Free \in HookRow /\ Free.at = "free"
  BY CyclesAssumption DEF Free, HookRow, Steps
<1>2. TypeOK
  BY <1>1, CyclesAssumption DEF Init, TypeOK, HookRow
<1>3. GrantedOnce /\ PaidIsCollected
  BY DEF Init, GrantedOnce, PaidIsCollected
<1>4. OneGrantAtATime /\ ToldCollected
  BY <1>1 DEF Init, OneGrantAtATime, ToldCollected
<1> QED BY <1>2, <1>3, <1>4 DEF IInv

\* What the start of a cycle and the customer do: no delivery moves, no cycle is
\* granted, and what was collected or PAID stays so.
LEMMA OutsideKeeps ==
    ASSUME IInv, TypeOK', NEW p \in Payments, UNCHANGED <<end, hook, grants>>,
           \/ pay' = pay
           \/ \E r \in PayRow :
                  /\ pay' = [pay EXCEPT ![p] = r]
                  /\ r.applied = pay[p].applied
                  /\ r.status = "PAID" => pay[p].status = "PAID",
           \/ truth' = truth
           \/ truth[p] # "charged" /\ \E t : truth' = [truth EXCEPT ![p] = t]
    PROVE  IInv'
<1> USE DEF IInv, TypeOK
<1>1. \A q \in Payments : pay'[q].applied = pay[q].applied
                          /\ (pay'[q].status = "PAID" => pay[q].status = "PAID")
                          /\ (truth[q] = "charged" => truth'[q] = "charged")
  <2> TAKE q \in Payments
  <2>1. pay'[q].applied = pay[q].applied /\ (pay'[q].status = "PAID" => pay[q].status = "PAID")
    <3>1. CASE pay' = pay
      BY <3>1
    <3>2. CASE pay' # pay
      <4>1. PICK r \in PayRow : /\ pay' = [pay EXCEPT ![p] = r]
                                /\ r.applied = pay[p].applied
                                /\ r.status = "PAID" => pay[p].status = "PAID"
        BY <3>2
      <4>2. pay \in [Payments -> PayRow]
        BY DEF PayRow
      <4>3. pay'[q] = IF q = p THEN r ELSE pay[q]
        BY <4>1, <4>2
      <4> QED BY <4>1, <4>3
    <3> QED BY <3>1, <3>2
  <2>2. truth[q] = "charged" => truth'[q] = "charged"
    OBVIOUS
  <2> QED BY <2>1, <2>2
<1>2. GrantedOnce' /\ PaidIsCollected'
  BY <1>1 DEF GrantedOnce, PaidIsCollected
<1>3. \A h \in Hooks : hook[h].at # "free" => hook[h].ref \in Payments
  BY DEF Free
<1>4. OneGrantAtATime' /\ ToldCollected'
  BY <1>1, <1>3 DEF OneGrantAtATime, ToldCollected
<1> QED BY <1>2, <1>4

\* A delivery that ends, or that moves to a step outside the transaction with
\* what it has from the provider, disturbs no other.
LEMMA HookKeeps ==
    ASSUME IInv, TypeOK', NEW h \in Hooks, NEW x \in HookRow,
           hook' = [hook EXCEPT ![h] = x], x.at \notin {"base", "commit"},
           x.at = "pay" => truth'[x.ref] = "charged",
           UNCHANGED <<pay, grants>>,
           \A p \in Payments : truth[p] = "charged" => truth'[p] = "charged"
    PROVE  IInv'
<1> USE DEF IInv, TypeOK
<1>1. GrantedOnce' /\ PaidIsCollected'
  BY DEF GrantedOnce, PaidIsCollected
<1>2. \A g \in Hooks : hook'[g] = IF g = h THEN x ELSE hook[g]
  OBVIOUS
<1>3. OneGrantAtATime'
  BY <1>2 DEF OneGrantAtATime
<1>4. ToldCollected'
  <2> SUFFICES ASSUME NEW g \in Hooks, hook'[g].at = "pay" PROVE truth'[hook'[g].ref] = "charged"
    BY DEF ToldCollected
  <2>1. CASE g = h
    BY <1>2, <2>1
  <2>2. CASE g # h
    BY <1>2, <2>2 DEF ToldCollected, Free
  <2> QED BY <2>1, <2>2
<1> QED BY <1>1, <1>3, <1>4

\* Every step keeps the types.
LEMMA TypeStep == TypeOK /\ [Next]_vars => TypeOK'
<1> SUFFICES ASSUME TypeOK, [Next]_vars PROVE TypeOK'
  OBVIOUS
<1> USE CyclesAssumption
<1>0. /\ pay \in [Payments -> PayRow] /\ hook \in [Hooks -> HookRow] /\ clock \in 1..(MaxClock + 1)
      /\ Free \in HookRow /\ Free.at = "free"
      /\ clock \in 0..(MaxClock + 1)
  BY DEF TypeOK, PayRow, HookRow, Free, Steps
<1>1. CASE Tick
  BY <1>1 DEF Tick, TypeOK
<1>2. ASSUME NEW p \in Payments,
             Start(p) \/ AskProvider(p) \/ SaveProof(p) \/ StartFails(p)
             \/ Collect(p) \/ Refuse(p) \/ Approve(p)
      PROVE  TypeOK'
  <2>1. UNCHANGED <<clock, end, hook, grants>>
    BY <1>2 DEF Start, AskProvider, SaveProof, StartFails, Collect, Refuse, Approve
  <2>2. truth' \in [Payments -> {"none", "asked", "open", "approved", "refused", "charged"}]
    BY <1>2 DEF Start, AskProvider, SaveProof, StartFails, Collect, Refuse, Approve, TypeOK
  <2>3. pay' \in [Payments -> PayRow]
    <3>1. pay[p] \in PayRow
      BY <1>0
    <3>2. /\ [pay[p] EXCEPT !.proof = TRUE] \in PayRow
          /\ \A st \in {"PENDING", "FAILED"} : [pay[p] EXCEPT !.status = st] \in PayRow
      BY <3>1 DEF PayRow
    <3>3. \/ pay' = pay \/ pay' = [pay EXCEPT ![p] = [pay[p] EXCEPT !.proof = TRUE]]
          \/ \E st \in {"PENDING", "FAILED"} : pay' = [pay EXCEPT ![p] = [pay[p] EXCEPT !.status = st]]
      BY <1>0, <1>2 DEF Start, AskProvider, SaveProof, StartFails, Collect, Refuse, Approve, StatusUnlessPaid
    <3> QED BY <1>0, <3>2, <3>3
  <2> QED BY <2>1, <2>2, <2>3 DEF TypeOK, PayRow
<1>3. ASSUME NEW p \in Payments, NEW h \in Hooks, StartFree(p, h) PROVE TypeOK'
  <2>1. [Free EXCEPT !.at = "read", !.ref = p] \in HookRow
    BY <1>0 DEF Free, HookRow, Steps
  <2>2. [pay[p] EXCEPT !.status = "PAID", !.paidAt = clock] \in PayRow
    BY <1>0 DEF PayRow
  <2>3. pay' \in [Payments -> PayRow] /\ hook' \in [Hooks -> HookRow]
    BY <1>0, <1>3, <2>1, <2>2 DEF StartFree
  <2>4. \A g \in Hooks : hook'[g] = Free \/ (hook'[g].at # "free" /\ hook'[g].ref \in Payments)
    BY <1>0, <1>3 DEF StartFree, TypeOK, Free
  <2> QED BY <1>3, <2>3, <2>4 DEF StartFree, TypeOK, PayRow, HookRow
<1>4. ASSUME NEW h \in Hooks, NEW p \in Payments,
             Notify(h, p) \/ Capture(h, p) \/ CaptureCompleted(h, p)
      PROVE  TypeOK'
  <2>1. \A at \in {"read", "verify", "pay"} : [Free EXCEPT !.ref = p, !.at = at] \in HookRow
    BY <1>0 DEF Free, HookRow, Steps
  <2>2. UNCHANGED hook \/ \E at \in {"read", "verify", "pay"} :
            hook' = [hook EXCEPT ![h] = [Free EXCEPT !.ref = p, !.at = at]]
    BY <1>4 DEF Notify, Capture, CaptureCompleted
  <2>3. hook' \in [Hooks -> HookRow]
    BY <1>0, <2>1, <2>2
  <2>4. \A g \in Hooks : hook'[g] = Free \/ (hook'[g].at # "free" /\ hook'[g].ref \in Payments)
    <3>1. \A at \in {"read", "verify", "pay"} :
              [Free EXCEPT !.ref = p, !.at = at].at = at /\ [Free EXCEPT !.ref = p, !.at = at].ref = p
      BY DEF Free
    <3>2. \A g \in Hooks : hook[g] = Free \/ (hook[g].at # "free" /\ hook[g].ref \in Payments)
      BY DEF TypeOK
    <3>3. CASE UNCHANGED hook
      BY <3>2, <3>3
    <3>4. ASSUME NEW at \in {"read", "verify", "pay"},
                 hook' = [hook EXCEPT ![h] = [Free EXCEPT !.ref = p, !.at = at]]
          PROVE  \A g \in Hooks : hook'[g] = Free \/ (hook'[g].at # "free" /\ hook'[g].ref \in Payments)
      <4>1. hook'[h].at = at /\ hook'[h].ref = p
        BY <1>0, <3>1, <3>4
      <4>2. \A g \in Hooks \ {h} : hook'[g] = hook[g]
        BY <1>0, <3>4
      <4> QED BY <3>2, <4>1, <4>2
    <3> QED BY <2>2, <3>3, <3>4
  <2>5. truth' \in [Payments -> {"none", "asked", "open", "approved", "refused", "charged"}]
    BY <1>4 DEF Notify, Capture, CaptureCompleted, TypeOK
  <2>6. UNCHANGED <<clock, pay, end, grants>>
    BY <1>4 DEF Notify, Capture, CaptureCompleted
  <2> QED BY <2>3, <2>4, <2>5, <2>6 DEF TypeOK, HookRow
<1>5. ASSUME NEW h \in Hooks, Handle(h) \/ Cut(h) PROVE TypeOK'
  <2> DEFINE p == hook[h].ref
  <2>0. p \in Payments /\ hook[h].at # "free"
    BY <1>0, <1>5 DEF Handle, Cut, Verify, RecordRefusal, ClaimPaid, ReadPayment, ClaimCycle, ReadEnd,
                Extend, Free, TypeOK
  <2>1. UNCHANGED <<clock, truth>>
    BY <1>5 DEF Handle, Cut, Verify, RecordRefusal, ClaimPaid, ReadPayment, ClaimCycle, ReadEnd, Extend
  <2>2. hook[h] \in HookRow /\ pay[p] \in PayRow
    BY <1>0, <2>0
  <2>3. \/ End(h)
        \/ \E at \in Steps \ {"free"} : Go(h, at)
        \/ hook' = [hook EXCEPT ![h] = [hook[h] EXCEPT !.at = "claim", !.paidAt = pay[p].paidAt]]
        \/ hook' = [hook EXCEPT ![h] = [hook[h] EXCEPT !.at = "commit", !.seen = end]]
    <3>1. CASE Verify(h) \/ ClaimPaid(h) \/ ClaimCycle(h)
      BY <3>1 DEF Verify, ClaimPaid, ClaimCycle, Steps
    <3>2. CASE RecordRefusal(h) \/ Extend(h) \/ Cut(h)
      BY <3>2 DEF RecordRefusal, Extend, Cut
    <3>3. CASE ReadPayment(h) \/ ReadEnd(h)
      BY <3>3 DEF ReadPayment, ReadEnd
    <3> QED BY <1>5, <3>1, <3>2, <3>3 DEF Handle
  <2>4. PICK x \in HookRow : hook' = [hook EXCEPT ![h] = x] /\ (x = Free \/ (x.at # "free" /\ x.ref = p))
    <3>1. CASE End(h)
      BY <1>0, <3>1 DEF End
    <3>2. CASE \E at \in Steps \ {"free"} : Go(h, at)
      <4>1. PICK at \in Steps \ {"free"} : Go(h, at)
        BY <3>2
      <4>2. [hook[h] EXCEPT !.at = at] \in HookRow
        BY <2>2 DEF HookRow
      <4> QED BY <4>1, <4>2, <2>2 DEF Go, HookRow
    <3>3. CASE hook' = [hook EXCEPT ![h] = [hook[h] EXCEPT !.at = "claim", !.paidAt = pay[p].paidAt]]
      <4>1. [hook[h] EXCEPT !.at = "claim", !.paidAt = pay[p].paidAt] \in HookRow
        BY <2>2 DEF HookRow, PayRow, Steps
      <4> QED BY <3>3, <4>1, <2>2 DEF HookRow
    <3>4. CASE hook' = [hook EXCEPT ![h] = [hook[h] EXCEPT !.at = "commit", !.seen = end]]
      <4>1. [hook[h] EXCEPT !.at = "commit", !.seen = end] \in HookRow
        BY <2>2 DEF HookRow, Steps, TypeOK
      <4> QED BY <3>4, <4>1, <2>2 DEF HookRow
    <3> QED BY <2>3, <3>1, <3>2, <3>3, <3>4
  <2>5. hook' \in [Hooks -> HookRow] /\ \A g \in Hooks : hook'[g] = Free \/ (hook'[g].at # "free" /\ hook'[g].ref \in Payments)
    BY <1>0, <2>0, <2>4 DEF TypeOK
  <2>6. pay' \in [Payments -> PayRow]
    <3>1. CASE RecordRefusal(h)
      BY <1>0, <2>0, <3>1 DEF RecordRefusal, StatusUnlessPaid, PayRow
    <3>2. CASE ClaimPaid(h)
      <4>1. [pay[p] EXCEPT !.status = "PAID", !.paidAt = clock] \in PayRow
        BY <1>0, <2>2 DEF PayRow
      <4> QED BY <1>0, <2>0, <3>2, <4>1 DEF ClaimPaid
    <3>3. CASE Extend(h)
      BY <1>0, <2>0, <3>3 DEF Extend, PayRow
    <3>4. CASE Verify(h) \/ ReadPayment(h) \/ ClaimCycle(h) \/ ReadEnd(h) \/ Cut(h)
      BY <1>0, <3>4 DEF Verify, ReadPayment, ClaimCycle, ReadEnd, Cut
    <3> QED BY <1>5, <3>1, <3>2, <3>3, <3>4 DEF Handle
  <2>7. end' \in Nat /\ grants' \in [Payments -> Nat]
    <3>1. CASE Extend(h)
      <4>1. Base(hook[h].seen, hook[h].paidAt) \in Nat
        BY <2>2 DEF Base, HookRow
      <4> QED BY <2>0, <3>1, <4>1 DEF Extend, TypeOK
    <3>2. CASE ~Extend(h)
      BY <1>5, <3>2 DEF Handle, Cut, Verify, RecordRefusal, ClaimPaid, ReadPayment, ClaimCycle, ReadEnd, TypeOK
    <3> QED BY <3>1, <3>2
  <2> QED BY <2>1, <2>5, <2>6, <2>7 DEF TypeOK, PayRow, HookRow
<1>6. CASE UNCHANGED vars
  BY <1>6 DEF vars, TypeOK
<1> QED BY <1>1, <1>2, <1>3, <1>4, <1>5, <1>6 DEF Next, Cinetpay, Paypal

\* Every step keeps the inductive invariant.
LEMMA Step == IInv /\ [Next]_vars => IInv'
<1> SUFFICES ASSUME IInv, [Next]_vars PROVE IInv'
  OBVIOUS
<1>t. TypeOK' /\ TypeOK
  BY TypeStep DEF IInv
<1> USE <1>t, CyclesAssumption
<1>0. /\ pay \in [Payments -> PayRow] /\ hook \in [Hooks -> HookRow]
      /\ Free \in HookRow /\ Free.at = "free"
      /\ \A h \in Hooks : hook[h].at # "free" => hook[h].ref \in Payments
  BY DEF TypeOK, PayRow, HookRow, Free, Steps
<1>1. CASE Tick \/ UNCHANGED vars
  BY <1>1 DEF Tick, vars, IInv, GrantedOnce, PaidIsCollected, OneGrantAtATime, ToldCollected
<1>2. ASSUME NEW p \in Payments,
             Start(p) \/ AskProvider(p) \/ SaveProof(p) \/ StartFails(p)
             \/ Collect(p) \/ Refuse(p) \/ Approve(p)
      PROVE  IInv'
  <2>1. UNCHANGED <<end, hook, grants>>
    BY <1>2 DEF Start, AskProvider, SaveProof, StartFails, Collect, Refuse, Approve
  <2>2. \/ truth' = truth
        \/ truth[p] # "charged" /\ \E t : truth' = [truth EXCEPT ![p] = t]
    BY <1>2 DEF Start, AskProvider, SaveProof, StartFails, Collect, Refuse, Approve
  <2>3. \/ pay' = pay
        \/ \E r \in PayRow :
               /\ pay' = [pay EXCEPT ![p] = r]
               /\ r.applied = pay[p].applied
               /\ r.status = "PAID" => pay[p].status = "PAID"
    <3>1. pay[p] \in PayRow
      BY <1>0
    <3>2. CASE Start(p) \/ StartFails(p)
      <4>1. PICK st \in {"PENDING", "FAILED"} : pay' = [pay EXCEPT ![p] = [pay[p] EXCEPT !.status = st]]
        BY <1>0, <3>2 DEF Start, StartFails, StatusUnlessPaid
      <4>2. [pay[p] EXCEPT !.status = st] \in PayRow
        BY <3>1 DEF PayRow
      <4> QED BY <3>1, <4>1, <4>2 DEF PayRow
    <3>3. CASE SaveProof(p)
      <4>1. pay' = [pay EXCEPT ![p] = [pay[p] EXCEPT !.proof = TRUE]]
        BY <1>0, <3>3 DEF SaveProof
      <4>2. [pay[p] EXCEPT !.proof = TRUE] \in PayRow
        BY <3>1 DEF PayRow
      <4> QED BY <3>1, <4>1, <4>2 DEF PayRow
    <3>4. CASE AskProvider(p) \/ Collect(p) \/ Refuse(p) \/ Approve(p)
      BY <3>4 DEF AskProvider, Collect, Refuse, Approve
    <3> QED BY <1>2, <3>2, <3>3, <3>4
  <2> QED BY <2>1, <2>2, <2>3, OutsideKeeps
<1>3. ASSUME NEW p \in Payments, NEW h \in Hooks, StartFree(p, h) PROVE IInv'
  <2>1. \A q \in Payments : /\ pay'[q].applied = pay[q].applied
                            /\ q # p => pay'[q] = pay[q]
    BY <1>0, <1>3 DEF StartFree
  <2>2. hook'[h].at = "read" /\ \A g \in Hooks \ {h} : hook'[g] = hook[g]
    BY <1>0, <1>3 DEF StartFree, Free
  <2>3. GrantedOnce' /\ PaidIsCollected'
    BY <1>3, <2>1 DEF StartFree, IInv, GrantedOnce, PaidIsCollected
  <2>4. OneGrantAtATime'
    BY <1>0, <2>1, <2>2 DEF IInv, OneGrantAtATime
  <2>5. ToldCollected'
    BY <1>0, <1>3, <2>2 DEF StartFree, IInv, ToldCollected
  <2> QED BY <2>3, <2>4, <2>5 DEF IInv
<1>4. ASSUME NEW h \in Hooks, NEW p \in Payments,
             Notify(h, p) \/ Capture(h, p) \/ CaptureCompleted(h, p)
      PROVE  IInv'
  <2>1. UNCHANGED <<pay, grants>> /\ \A q \in Payments : truth[q] = "charged" => truth'[q] = "charged"
    BY <1>4 DEF Notify, Capture, CaptureCompleted, TypeOK
  <2>2. \A at \in {"read", "verify", "pay"} :
            /\ [Free EXCEPT !.ref = p, !.at = at] \in HookRow
            /\ [Free EXCEPT !.ref = p, !.at = at].at = at /\ [Free EXCEPT !.ref = p, !.at = at].ref = p
    BY <1>0 DEF Free, HookRow, Steps
  <2>3. PICK x \in HookRow : /\ hook' = [hook EXCEPT ![h] = x]
                             /\ x.at \notin {"base", "commit"}
                             /\ x.at = "pay" => truth'[x.ref] = "charged"
    <3>1. CASE UNCHANGED hook
      BY <1>0, <1>4, <3>1 DEF Notify, Capture, CaptureCompleted
    <3>2. CASE hook' # hook
      <4>1. PICK at \in {"read", "verify", "pay"} :
                /\ hook' = [hook EXCEPT ![h] = [Free EXCEPT !.ref = p, !.at = at]]
                /\ at = "pay" => truth'[p] = "charged"
        BY <1>4, <3>2 DEF Notify, Capture, CaptureCompleted, TypeOK
      <4> QED BY <2>2, <4>1
    <3> QED BY <3>1, <3>2
  <2> QED BY <2>1, <2>3, HookKeeps
<1>5. ASSUME NEW h \in Hooks, Verify(h) \/ ReadPayment(h) \/ Cut(h) PROVE IInv'
  <2>1. UNCHANGED <<pay, grants, truth>>
    BY <1>5 DEF Verify, ReadPayment, Cut
  <2>2. PICK x \in HookRow : /\ hook' = [hook EXCEPT ![h] = x]
                             /\ x.at \notin {"base", "commit"}
                             /\ x.at = "pay" => truth'[x.ref] = "charged"
    <3>1. CASE End(h)
      BY <1>0, <3>1 DEF End
    <3>2. CASE Verify(h) /\ ~End(h)
      <4>1. PICK at \in {"pay", "refuse"} :
                hook' = [hook EXCEPT ![h] = [hook[h] EXCEPT !.at = at]]
                /\ (at = "pay" => truth'[hook[h].ref] = "charged")
        BY <1>0, <3>2 DEF Verify, Go
      <4>2. /\ [hook[h] EXCEPT !.at = at] \in HookRow
            /\ [hook[h] EXCEPT !.at = at].at = at /\ [hook[h] EXCEPT !.at = at].ref = hook[h].ref
        BY <1>0 DEF HookRow, Steps
      <4> QED BY <4>1, <4>2
    <3>3. CASE ReadPayment(h) /\ ~End(h)
      <4> DEFINE x == [hook[h] EXCEPT !.at = "claim", !.paidAt = pay[hook[h].ref].paidAt]
      <4>1. hook' = [hook EXCEPT ![h] = x]
        BY <1>0, <3>3 DEF ReadPayment
      <4>2. hook[h].ref \in Payments
        BY <1>0, <3>3 DEF ReadPayment
      <4>3. pay[hook[h].ref].paidAt \in 0..(MaxClock + 1)
        BY <1>0, <4>2 DEF PayRow
      <4>4. x \in HookRow /\ x.at = "claim"
        BY <1>0, <4>3 DEF HookRow, Steps
      <4> QED BY <4>1, <4>4
    <3> QED BY <1>5, <3>1, <3>2, <3>3 DEF Cut
  <2> QED BY <2>1, <2>2, HookKeeps
<1>6. ASSUME NEW h \in Hooks, RecordRefusal(h) \/ ClaimPaid(h) PROVE IInv'
  <2> DEFINE p == hook[h].ref
  <2>0. p \in Payments /\ hook[h].at \in {"refuse", "pay"}
    BY <1>0, <1>6 DEF RecordRefusal, ClaimPaid
  <2>p. pay[p] \in PayRow /\ hook[h] \in HookRow
    BY <1>0, <2>0
  <2>r. PICK r \in PayRow : /\ pay' = [pay EXCEPT ![p] = r] /\ r.applied = pay[p].applied
                            /\ r.status = "PAID" => pay[p].status = "PAID" \/ truth[p] = "charged"
    <3>1. CASE pay' = pay
      BY <1>0, <2>p, <3>1
    <3>2. CASE RecordRefusal(h) /\ pay' # pay
      <4>1. [pay[p] EXCEPT !.status = "FAILED"] \in PayRow
        BY <2>p DEF PayRow
      <4>2. pay' = [pay EXCEPT ![p] = [pay[p] EXCEPT !.status = "FAILED"]]
        BY <1>0, <3>2 DEF RecordRefusal, StatusUnlessPaid
      <4> QED BY <2>p, <4>1, <4>2 DEF PayRow
    <3>3. CASE ClaimPaid(h) /\ pay' # pay
      <4>1. [pay[p] EXCEPT !.status = "PAID", !.paidAt = clock] \in PayRow
        <5>1. clock \in 0..(MaxClock + 1)
          BY DEF TypeOK
        <5> HIDE <1>t
        <5> QED BY <2>p, <5>1 DEF PayRow
      <4>2. pay' = [pay EXCEPT ![p] = [pay[p] EXCEPT !.status = "PAID", !.paidAt = clock]]
        BY <1>0, <3>3 DEF ClaimPaid
      <4>3. truth[p] = "charged"
        BY <3>3 DEF ClaimPaid, IInv, ToldCollected
      <4> QED BY <2>p, <4>1, <4>2, <4>3 DEF PayRow
    <3> QED BY <1>6, <3>1, <3>2, <3>3
  <2>1. \A q \in Payments : pay'[q].applied = pay[q].applied /\ (q # p => pay'[q] = pay[q])
    BY <1>0, <2>r
  <2>2. pay'[p].status = "PAID" => pay[p].status = "PAID" \/ truth[p] = "charged"
    BY <1>0, <2>0, <2>r
  <2>3. hook'[h].at \in {"free", "read"} /\ \A g \in Hooks \ {h} : hook'[g] = hook[g]
    <3>1. CASE End(h)
      BY <1>0, <3>1 DEF End
    <3>2. CASE Go(h, "read")
      BY <1>0, <2>p, <3>2 DEF Go, HookRow
    <3> QED BY <1>6, <3>1, <3>2 DEF RecordRefusal, ClaimPaid
  <2>4. UNCHANGED <<truth, grants>>
    BY <1>6 DEF RecordRefusal, ClaimPaid
  <2>5. GrantedOnce' /\ PaidIsCollected'
    BY <2>0, <2>1, <2>2, <2>4 DEF IInv, GrantedOnce, PaidIsCollected
  <2>6. OneGrantAtATime'
    BY <1>0, <2>1, <2>3 DEF IInv, OneGrantAtATime
  <2>7. ToldCollected'
    BY <1>0, <2>3, <2>4 DEF IInv, ToldCollected
  <2> QED BY <2>5, <2>6, <2>7 DEF IInv
<1>7. ASSUME NEW h \in Hooks, ClaimCycle(h) PROVE IInv'
  <2>0. hook[h].ref \in Payments /\ UNCHANGED <<pay, truth, grants>>
    BY <1>0, <1>7 DEF ClaimCycle
  <2>1. /\ \A g \in Hooks \ {h} : hook'[g] = hook[g]
        /\ \/ hook'[h].at = "free"
           \/ /\ hook'[h].at = "base" /\ hook'[h].ref = hook[h].ref
              /\ ~pay[hook[h].ref].applied
    <3>1. CASE End(h)
      BY <1>0, <3>1 DEF End
    <3>2. CASE ~End(h)
      <4>1. Go(h, "base") /\ ~pay[hook[h].ref].applied /\ hook[h] \in HookRow
        BY <1>0, <1>7, <3>2 DEF ClaimCycle
      <4> QED BY <1>0, <4>1 DEF Go, HookRow
    <3> QED BY <3>1, <3>2
  <2>2. \A g \in Hooks : hook[g].at \in {"base", "commit"} => hook[g].ref # hook[h].ref
    BY <1>7 DEF ClaimCycle, Holds
  <2>3. OneGrantAtATime'
    BY <1>0, <2>0, <2>1, <2>2 DEF IInv, OneGrantAtATime
  <2>4. GrantedOnce' /\ PaidIsCollected' /\ ToldCollected'
    BY <2>0, <2>1 DEF IInv, GrantedOnce, PaidIsCollected, ToldCollected
  <2> QED BY <2>3, <2>4 DEF IInv
<1>8. ASSUME NEW h \in Hooks, ReadEnd(h) PROVE IInv'
  <2>0. UNCHANGED <<pay, truth, grants>>
    BY <1>8 DEF ReadEnd
  <2>1. /\ \A g \in Hooks \ {h} : hook'[g] = hook[g]
        /\ hook[h].at = "base" /\ hook'[h].at = "commit" /\ hook'[h].ref = hook[h].ref
    BY <1>0, <1>8 DEF ReadEnd, HookRow
  <2>2. OneGrantAtATime'
    BY <1>0, <2>0, <2>1 DEF IInv, OneGrantAtATime
  <2>3. GrantedOnce' /\ PaidIsCollected' /\ ToldCollected'
    BY <2>0, <2>1 DEF IInv, GrantedOnce, PaidIsCollected, ToldCollected
  <2> QED BY <2>2, <2>3 DEF IInv
<1>9. ASSUME NEW h \in Hooks, Extend(h) PROVE IInv'
  <2> DEFINE p == hook[h].ref
  <2>0. p \in Payments /\ hook[h].at = "commit" /\ UNCHANGED truth
    BY <1>0, <1>9 DEF Extend
  <2>1. /\ pay'[p].applied = TRUE /\ pay'[p].status = pay[p].status
        /\ \A q \in Payments \ {p} : pay'[q] = pay[q]
    BY <1>0, <1>9, <2>0 DEF Extend, PayRow
  <2>2. grants'[p] = grants[p] + 1 /\ \A q \in Payments \ {p} : grants'[q] = grants[q]
    BY <1>9, <2>0 DEF Extend, TypeOK
  <2>3. hook'[h].at = "free" /\ \A g \in Hooks \ {h} : hook'[g] = hook[g]
    BY <1>0, <1>9 DEF Extend, End
  <2>4. ~pay[p].applied /\ \A g \in Hooks \ {h} : hook[g].at \in {"base", "commit"} => hook[g].ref # p
    BY <2>0 DEF IInv, OneGrantAtATime
  <2>5. GrantedOnce'
    BY <2>0, <2>1, <2>2, <2>4 DEF IInv, GrantedOnce
  <2>6. PaidIsCollected' /\ ToldCollected'
    BY <1>0, <2>0, <2>1, <2>3 DEF IInv, PaidIsCollected, ToldCollected
  <2>7. OneGrantAtATime'
    BY <1>0, <2>1, <2>3, <2>4 DEF IInv, OneGrantAtATime
  <2> QED BY <2>5, <2>6, <2>7 DEF IInv
<1> QED BY <1>1, <1>2, <1>3, <1>4, <1>5, <1>6, <1>7, <1>8, <1>9 DEF Next, Handle, Cinetpay, Paypal

LEMMA Invariance == Spec => []IInv
<1> QED BY InitEstablishes, Step, PTL DEF Spec

-----------------------------------------------------------------------------
\* The types of the rows and of the deliveries hold in every state.
THEOREM TypeCorrect == Spec => []TypeOK
<1>1. IInv => TypeOK
  BY DEF IInv
<1> QED BY Invariance, <1>1, PTL

\* applySubscriptionCycleIfPaid extends the period once for a payment, however
\* many deliveries are handled at once, repeated or cut off.
THEOREM CyclesGrantedOnce == Spec => []GrantedOnce
<1>1. IInv => GrantedOnce
  BY DEF IInv
<1> QED BY Invariance, <1>1, PTL

\* The web hooks mark PAID only what the provider collected.
THEOREM OnlyCollectedIsPaid == Spec => []PaidIsCollected
<1>1. IInv => PaidIsCollected
  BY DEF IInv
<1> QED BY Invariance, <1>1, PTL

\* Neither a late refusal nor a start that fails takes PAID back.
THEOREM PaidStays == Spec => PaidIsFinal
<1>1. ASSUME TypeOK, [Next]_vars, NEW p \in Payments, pay[p].status = "PAID"
      PROVE  pay'[p].status = "PAID"
  <2>0. pay \in [Payments -> PayRow] /\ \A h \in Hooks : hook[h].at # "free" => hook[h].ref \in Payments
    BY <1>1 DEF TypeOK, PayRow, Free
  <2>1. CASE \E q \in Payments : Start(q) \/ AskProvider(q) \/ SaveProof(q) \/ StartFails(q)
                                 \/ Collect(q) \/ Refuse(q) \/ Approve(q)
    BY <1>1, <2>0, <2>1 DEF Start, AskProvider, SaveProof, StartFails, Collect, Refuse, Approve,
                            StatusUnlessPaid, PayRow
  <2>2. CASE \E q \in Payments, h \in Hooks :
                 StartFree(q, h) \/ Notify(h, q) \/ Capture(h, q) \/ CaptureCompleted(h, q)
    BY <1>1, <2>0, <2>2 DEF StartFree, Notify, Capture, CaptureCompleted, PayRow
  <2>3. CASE \E h \in Hooks : RecordRefusal(h) \/ ClaimPaid(h) \/ Extend(h)
    BY <1>1, <2>0, <2>3 DEF RecordRefusal, ClaimPaid, Extend, StatusUnlessPaid, PayRow
  <2>4. CASE \E h \in Hooks : Verify(h) \/ ReadPayment(h) \/ ClaimCycle(h) \/ ReadEnd(h) \/ Cut(h)
    BY <1>1, <2>4 DEF Verify, ReadPayment, ClaimCycle, ReadEnd, Cut
  <2>5. CASE Tick \/ UNCHANGED vars
    BY <1>1, <2>5 DEF Tick, vars
  <2> QED BY <1>1, <2>1, <2>2, <2>3, <2>4, <2>5 DEF Next, Handle, Cinetpay, Paypal
<1>2. TypeOK /\ [Next]_vars => [\A p \in Payments : pay[p].status = "PAID" => pay'[p].status = "PAID"]_vars
  BY <1>1
<1> QED BY TypeCorrect, <1>2, PTL DEF Spec, PaidIsFinal

-----------------------------------------------------------------------------
\* The days: what was paid for, and what a delivery has read of it.
Applied == {p \in Payments : pay[p].applied}
Limit == clock + Cycle * Cardinality(Applied)
Bought ==
    /\ end <= Limit
    /\ \A p \in Payments : pay[p].paidAt <= clock
    /\ \A h \in Hooks : hook[h].paidAt <= clock /\ hook[h].seen <= Limit

\* Every step but a commit leaves the cycles alone; what a delivery reads is the
\* date of a payment or the end of the period.
Calm ==
    /\ clock' \in {clock, clock + 1} /\ end' = end
    /\ \A p \in Payments : pay'[p].applied = pay[p].applied /\ pay'[p].paidAt \in {pay[p].paidAt, clock}
    /\ \A h \in Hooks :
           /\ hook'[h].paidAt \in {hook[h].paidAt, 0} \cup {pay[p].paidAt : p \in Payments}
           /\ hook'[h].seen \in {hook[h].seen, 0, end}

LEMMA CalmOrExtend ==
    ASSUME TypeOK, [Next]_vars
    PROVE  Calm \/ \E h \in Hooks : Extend(h)
<1>0. /\ pay \in [Payments -> PayRow] /\ hook \in [Hooks -> HookRow]
      /\ \A h \in Hooks : hook[h].at # "free" => hook[h].ref \in Payments
  BY DEF TypeOK, PayRow, HookRow, Free
<1>1. CASE \E q \in Payments : Start(q) \/ AskProvider(q) \/ SaveProof(q) \/ StartFails(q)
                               \/ Collect(q) \/ Refuse(q) \/ Approve(q)
  BY <1>0, <1>1 DEF Start, AskProvider, SaveProof, StartFails, Collect, Refuse, Approve,
                    StatusUnlessPaid, PayRow, Calm
<1>2. ASSUME NEW q \in Payments, NEW h \in Hooks, StartFree(q, h) PROVE Calm
  <2>1. /\ pay' = [pay EXCEPT ![q] = [pay[q] EXCEPT !.status = "PAID", !.paidAt = clock]]
        /\ UNCHANGED <<clock, end>>
    BY <1>2 DEF StartFree
  <2>2. /\ hook'[h].paidAt = 0 /\ hook'[h].seen = 0
        /\ \A g \in Hooks : g # h => hook'[g] = hook[g]
    BY <1>0, <1>2 DEF StartFree, Free, HookRow
  <2> QED BY <1>0, <2>1, <2>2 DEF PayRow, HookRow, Calm
<1>3. ASSUME NEW q \in Payments, NEW h \in Hooks,
             Notify(h, q) \/ Capture(h, q) \/ CaptureCompleted(h, q)
      PROVE  Calm
  <2>1. UNCHANGED <<clock, pay, end>>
    BY <1>3 DEF Notify, Capture, CaptureCompleted
  <2>2. /\ hook' = hook \/ (hook'[h].paidAt = 0 /\ hook'[h].seen = 0)
        /\ \A g \in Hooks : g # h => hook'[g] = hook[g]
    BY <1>0, <1>3 DEF Notify, Capture, CaptureCompleted, Free, HookRow
  <2> QED BY <1>0, <2>1, <2>2 DEF PayRow, HookRow, Calm
<1>4. ASSUME NEW h \in Hooks, RecordRefusal(h) \/ ClaimPaid(h) PROVE Calm
  <2>1. hook[h].ref \in Payments /\ UNCHANGED <<clock, end>>
    BY <1>0, <1>4 DEF RecordRefusal, ClaimPaid
  <2>2. \/ UNCHANGED pay
        \/ pay' = [pay EXCEPT ![hook[h].ref] = [pay[hook[h].ref] EXCEPT !.status = "FAILED"]]
        \/ pay' = [pay EXCEPT ![hook[h].ref] =
                      [pay[hook[h].ref] EXCEPT !.status = "PAID", !.paidAt = clock]]
    BY <1>0, <1>4 DEF RecordRefusal, ClaimPaid, StatusUnlessPaid
  <2>3. \A g \in Hooks : /\ hook'[g].paidAt \in {hook[g].paidAt, 0}
                         /\ hook'[g].seen \in {hook[g].seen, 0}
    <3>1. hook' = [hook EXCEPT ![h] = Free] \/ hook' = [hook EXCEPT ![h].at = "read"]
      BY <1>4 DEF RecordRefusal, ClaimPaid, End, Go
    <3> QED BY <1>0, <3>1 DEF HookRow, Free
  <2>4. \A p \in Payments : /\ pay'[p].applied = pay[p].applied
                            /\ pay'[p].paidAt \in {pay[p].paidAt, clock}
    <3>1. CASE UNCHANGED pay
      BY <3>1
    <3>2. CASE pay' = [pay EXCEPT ![hook[h].ref] = [pay[hook[h].ref] EXCEPT !.status = "FAILED"]]
      BY <1>0, <2>1, <3>2 DEF PayRow
    <3>3. CASE pay' = [pay EXCEPT ![hook[h].ref] =
                          [pay[hook[h].ref] EXCEPT !.status = "PAID", !.paidAt = clock]]
      BY <1>0, <2>1, <3>3 DEF PayRow
    <3> QED BY <2>2, <3>1, <3>2, <3>3
  <2> QED BY <2>1, <2>3, <2>4 DEF Calm
<1>5. ASSUME NEW h \in Hooks, Verify(h) \/ ReadPayment(h) \/ ClaimCycle(h) \/ ReadEnd(h) \/ Cut(h)
      PROVE  Calm
  <2>1. UNCHANGED <<clock, pay, end>>
    BY <1>5 DEF Verify, ReadPayment, ClaimCycle, ReadEnd, Cut
  <2>2. \/ hook' = [hook EXCEPT ![h] = Free]
        \/ \E at : hook' = [hook EXCEPT ![h].at = at]
        \/ /\ hook[h].ref \in Payments
           /\ hook' = [hook EXCEPT ![h] = [@ EXCEPT !.at = "claim", !.paidAt = pay[hook[h].ref].paidAt]]
        \/ hook' = [hook EXCEPT ![h] = [@ EXCEPT !.at = "commit", !.seen = end]]
    BY <1>0, <1>5 DEF Verify, ReadPayment, ClaimCycle, ReadEnd, Cut, End, Go
  <2>3. ASSUME NEW g \in Hooks
        PROVE  /\ hook'[g].paidAt \in {hook[g].paidAt, 0} \cup {pay[p].paidAt : p \in Payments}
               /\ hook'[g].seen \in {hook[g].seen, 0, end}
    <3>1. CASE hook' = [hook EXCEPT ![h] = Free]
      BY <1>0, <3>1 DEF HookRow, Free
    <3>2. CASE \E at : hook' = [hook EXCEPT ![h].at = at]
      BY <1>0, <3>2 DEF HookRow
    <3>3. CASE /\ hook[h].ref \in Payments
               /\ hook' = [hook EXCEPT ![h] = [@ EXCEPT !.at = "claim", !.paidAt = pay[hook[h].ref].paidAt]]
      BY <1>0, <3>3 DEF HookRow
    <3>4. CASE hook' = [hook EXCEPT ![h] = [@ EXCEPT !.at = "commit", !.seen = end]]
      BY <1>0, <3>4 DEF HookRow
    <3> QED BY <2>2, <3>1, <3>2, <3>3, <3>4
  <2> QED BY <2>1, <2>3 DEF Calm
<1>6. CASE Tick \/ UNCHANGED vars
  BY <1>0, <1>6 DEF Tick, vars, PayRow, HookRow, Calm
<1> QED BY <1>1, <1>2, <1>3, <1>4, <1>5, <1>6 DEF Next, Handle, Cinetpay, Paypal

LEMMA BoughtStep ==
    ASSUME IsFiniteSet(Payments), IInv, TypeOK', Bought, [Next]_vars
    PROVE  Bought'
<1> DEFINE n == Cardinality(Applied)
<1>1. IsFiniteSet(Applied) /\ n \in Nat
  BY FS_Subset, FS_CardinalityType DEF Applied
<1>2. /\ clock \in Nat /\ end \in Nat /\ Cycle \in Nat /\ Limit \in Nat /\ Limit = clock + Cycle * n
  <2>1. clock \in Nat /\ end \in Nat /\ Cycle \in Nat
    BY CyclesAssumption DEF IInv, TypeOK
  <2>2. Limit = clock + Cycle * n
    BY DEF Limit
  <2> HIDE DEF n
  <2>3. Cycle * n \in Nat
    BY <1>1, <2>1
  <2> QED BY <2>1, <2>2, <2>3
<1>3. CASE Calm
  <2>1. Applied' = Applied
    BY <1>3 DEF Calm, Applied
  <2>2. Limit' \in {Limit, Limit + 1} /\ clock' \in {clock, clock + 1} /\ end' = end
    <3>1. Limit' = clock' + Cycle * n
      BY <2>1 DEF Limit
    <3>2. Cycle * n \in Nat
      <4> HIDE DEF n
      <4> QED BY <1>1, <1>2
    <3> HIDE DEF n
    <3> QED BY <1>2, <1>3, <3>1, <3>2 DEF Calm
  <2>3. /\ \A p \in Payments : pay[p].paidAt \in Nat /\ pay[p].paidAt <= clock
        /\ \A h \in Hooks : /\ hook[h].paidAt \in Nat /\ hook[h].paidAt <= clock
                            /\ hook[h].seen \in Nat /\ hook[h].seen <= Limit
    BY <1>2, CyclesAssumption DEF IInv, TypeOK, Bought
  <2>4. \A p \in Payments : pay'[p].paidAt <= clock'
    BY <1>2, <1>3, <2>2, <2>3 DEF Calm
  <2>5. \A h \in Hooks : hook'[h].paidAt <= clock' /\ hook'[h].seen <= Limit'
    <3> SUFFICES ASSUME NEW h \in Hooks PROVE hook'[h].paidAt <= clock' /\ hook'[h].seen <= Limit'
      OBVIOUS
    <3>1. hook'[h].paidAt <= clock'
      BY <1>2, <1>3, <2>2, <2>3 DEF Calm
    <3>2. hook'[h].seen <= Limit'
      BY <1>2, <1>3, <2>2, <2>3 DEF Calm, Bought
    <3> QED BY <3>1, <3>2
  <2> QED BY <1>2, <2>2, <2>4, <2>5 DEF Bought
<1>4. ASSUME NEW g \in Hooks, Extend(g) PROVE Bought'
  <2> DEFINE p == hook[g].ref
  <2>1. /\ p \in Payments /\ ~ pay[p].applied /\ pay \in [Payments -> PayRow]
        /\ hook \in [Hooks -> HookRow]
    BY <1>4 DEF IInv, TypeOK, OneGrantAtATime, Extend, Free, PayRow, HookRow
  <2>2. /\ pay' = [pay EXCEPT ![p].applied = TRUE] /\ hook' = [hook EXCEPT ![g] = Free]
        /\ end' = Base(hook[g].seen, hook[g].paidAt) + Cycle /\ clock' = clock
    BY <1>4 DEF Extend, End
  <2>3. Applied' = Applied \cup {p} /\ p \notin Applied
    BY <2>1, <2>2 DEF Applied, PayRow
  <2>4. Cardinality(Applied') = n + 1
    BY <1>1, <2>3, FS_AddElement
  <2>5. Limit' = Limit + Cycle
    <3>1. Limit' = clock + Cycle * (n + 1)
      BY <2>2, <2>4 DEF Limit
    <3> HIDE DEF n
    <3>2. Cycle * (n + 1) = Cycle * n + Cycle
      BY <1>1, <1>2
    <3> QED BY <1>1, <1>2, <3>1, <3>2
  <2>6. /\ hook[g].paidAt \in Nat /\ hook[g].paidAt <= clock
        /\ hook[g].seen \in Nat /\ hook[g].seen <= Limit /\ clock <= Limit
    <3>1. Cycle * n \in Nat
      BY <1>1, <1>2
    <3>2. hook[g].paidAt \in Nat /\ hook[g].seen \in Nat
      BY <2>1, CyclesAssumption DEF HookRow
    <3> HIDE DEF n
    <3> QED BY <1>2, <3>1, <3>2 DEF Bought
  <2>7. end' <= Limit'
    BY <1>2, <2>2, <2>5, <2>6 DEF Base
  <2>8. \A q \in Payments : pay'[q].paidAt <= clock'
    BY <2>1, <2>2 DEF Bought, PayRow
  <2>9. \A h \in Hooks : hook'[h].paidAt <= clock' /\ hook'[h].seen <= Limit'
    <3> SUFFICES ASSUME NEW h \in Hooks PROVE hook'[h].paidAt <= clock' /\ hook'[h].seen <= Limit'
      OBVIOUS
    <3>1. CASE h = g
      BY <1>2, <2>1, <2>2, <2>5, <3>1 DEF Free
    <3>2. CASE h # g
      <4>1. hook'[h] = hook[h] /\ hook[h].paidAt <= clock /\ hook[h].seen <= Limit /\ hook[h].seen \in Nat
        BY <2>1, <2>2, <3>2 DEF Bought, HookRow
      <4> QED BY <1>2, <2>2, <2>5, <4>1
    <3> QED BY <3>1, <3>2
  <2> QED BY <2>7, <2>8, <2>9 DEF Bought
<1> QED BY <1>3, <1>4, CalmOrExtend DEF IInv

\* However payments overlap, are repeated and delivered again, nobody is granted a
\* day that was not paid for.
THEOREM NoFreeDays == ASSUME IsFiniteSet(Payments) PROVE Spec => []DaysAreBought
<1>1. Init => Bought
  <2> SUFFICES ASSUME Init PROVE Bought
    OBVIOUS
  <2>1. Applied = {}
    BY DEF Init, Applied
  <2>2. Limit = 1
    BY <2>1, FS_EmptySet, CyclesAssumption DEF Init, Limit
  <2> QED BY <2>2 DEF Init, Bought, Free
<1>2. IInv /\ IInv' /\ Bought /\ [Next]_vars => Bought'
  BY BoughtStep DEF IInv
<1>3. Bought => DaysAreBought
  BY DEF Bought, Limit, Applied, DaysAreBought
<1> QED BY <1>1, <1>2, <1>3, Invariance, PTL DEF Spec
=============================================================================
