--------------------------- MODULE EmissionChain ---------------------------
(***************************************************************************)
(* Opening of emissions: openEmission of                                   *)
(* src/server/governance/emission-spine.ts.                                *)
(*                                                                         *)
(* Every governed mutation of every process opens one emission.  Opening   *)
(* is a database transaction of three statements: take the advisory lock   *)
(* of the strategy, read the last hashed row, create the new row with that *)
(* row's hash as prevHash.  The statements of different callers interleave *)
(* and a transaction may be aborted between any two of them; the clocks of *)
(* the processes differ and may run backwards.                             *)
(*                                                                         *)
(* A sha-256 digest is represented by the identifier of the row it seals:  *)
(* the identifier is part of the sealed body, so equal digests mean equal  *)
(* rows.                                                                   *)
(***************************************************************************)
EXTENDS Naturals, FiniteSets

CONSTANTS Openings,   \* calls that write a row; the identifier of the row
          Strategies,
          NoBrand,    \* the bucket "(none)"
          Absent,     \* strategyId missing, null or ""
          Locks,      \* the values of hashtext
          LockOf,     \* LockOf[b] = hashtext(b): buckets may collide
          Clock,      \* the readings of new Date(), in milliseconds
          None        \* null

Buckets == Strategies \cup {NoBrand}

ASSUME ClockAssumption == Clock \subseteq Nat
ASSUME LockAssumption == LockOf \in [Buckets -> Locks]
ASSUME NoneAssumption == None \notin Openings
ASSUME BucketAssumption == NoBrand \notin Strategies /\ Absent \notin Buckets

VARIABLES pc,      \* pc[o]: where the call o stands
          bucket,  \* bucket[o]: strategyId after normalisation
          lock,    \* lock[l]: the transaction that holds the advisory lock l
          last,    \* last[o]: the row the transaction of o read as the head
          rows     \* the table IntentEmission

vars == <<pc, bucket, lock, last, rows>>

NoRow == [stored |-> FALSE]
Row == [stored : {TRUE}, strategyId : Buckets, emittedAt : Nat,
        prevHash : Openings \cup {None}, selfHash : Openings \cup {None}]

\* typeof strategyId === "string" && length > 0 ? strategyId : "(none)"
BucketOf(arg) == IF arg = Absent THEN NoBrand ELSE arg

\* where: { strategyId, selfHash: { not: null } }
Hashed(b) == {o \in Openings : /\ rows[o].stored
                               /\ rows[o].strategyId = b
                               /\ rows[o].selfHash # None}

\* Slip: the filter on selfHash is forgotten and the last row of any kind taken.
IsHeadOfAnyKind(h, b) ==
    LET Filed == {o \in Openings : rows[o].stored /\ rows[o].strategyId = b}
    IN  \/ h = None /\ Filed = {}
        \/ h \in Filed /\ \A q \in Filed : rows[q].emittedAt <= rows[h].emittedAt

\* ... orderBy: { emittedAt: "desc" }: any of the rows with the last date.
IsHead(h, b) ==
    \/ h = None /\ Hashed(b) = {}
    \/ h \in Hashed(b) /\ \A q \in Hashed(b) : rows[q].emittedAt <= rows[h].emittedAt

\* Slip: the row is dated by the clock of the writer, whatever the head says.
EmittedAtByClock(now, h) == now

\* Math.max(startedAt, (last?.emittedAt ?? 0) + 1)
EmittedAt(now, h) ==
    LET floor == (IF h = None THEN 0 ELSE rows[h].emittedAt) + 1
    IN  IF now >= floor THEN now ELSE floor

-----------------------------------------------------------------------------
Init ==
    /\ pc = [o \in Openings |-> "idle"]
    /\ bucket = [o \in Openings |-> NoBrand]
    /\ lock = [l \in Locks |-> None]
    /\ last = [o \in Openings |-> None]
    /\ rows = [o \in Openings |-> NoRow]

Call(o) ==
    /\ pc[o] = "idle"
    /\ \E arg \in Strategies \cup {Absent} : bucket' = [bucket EXCEPT ![o] = BucketOf(arg)]
    /\ pc' = [pc EXCEPT ![o] = "waiting"]
    /\ UNCHANGED <<lock, last, rows>>

\* Slip: the lock is not waited for (pg_try_advisory_xact_lock, result ignored).
TakeLockUnguarded(o) ==
    /\ pc[o] = "waiting"
    /\ lock' = [lock EXCEPT ![LockOf[bucket[o]]] = o]
    /\ pc' = [pc EXCEPT ![o] = "locked"]
    /\ UNCHANGED <<bucket, last, rows>>

\* SELECT pg_advisory_xact_lock(hashtext(strategyId))
TakeLock(o) ==
    /\ pc[o] = "waiting"
    /\ lock[LockOf[bucket[o]]] = None
    /\ lock' = [lock EXCEPT ![LockOf[bucket[o]]] = o]
    /\ pc' = [pc EXCEPT ![o] = "locked"]
    /\ UNCHANGED <<bucket, last, rows>>

ReadHead(o) ==
    /\ pc[o] = "locked"
    /\ \E h \in Openings \cup {None} :
          /\ IsHead(h, bucket[o])
          /\ last' = [last EXCEPT ![o] = h]
    /\ pc' = [pc EXCEPT ![o] = "read"]
    /\ UNCHANGED <<bucket, lock, rows>>

\* last?.selfHash ?? null
HashOf(h) == IF h = None THEN None ELSE rows[h].selfHash

SealedRow(o, now) ==
    [stored |-> TRUE, strategyId |-> bucket[o], emittedAt |-> EmittedAt(now, last[o]),
     prevHash |-> HashOf(last[o]), selfHash |-> o]

\* create, then COMMIT, which ends the transaction and with it the lock.  The
\* caller may lose the acknowledgement: it then throws EmissionPersistError.
Commit(o) ==
    /\ pc[o] = "read"
    /\ \E now \in Clock : rows' = [rows EXCEPT ![o] = SealedRow(o, now)]
    /\ lock' = [lock EXCEPT ![LockOf[bucket[o]]] = None]
    /\ \E told \in {"opened", "refused"} : pc' = [pc EXCEPT ![o] = told]
    /\ UNCHANGED <<bucket, last>>

\* Slip: a lock of the session (pg_advisory_lock), which a failure does not free.
AbortKeepsLock(o) ==
    /\ pc[o] \in {"waiting", "locked", "read"}
    /\ pc' = [pc EXCEPT ![o] = "refused"]
    /\ UNCHANGED <<bucket, lock, last, rows>>

\* The transaction fails: database error, timeout, death of the process.
Abort(o) ==
    /\ pc[o] \in {"waiting", "locked", "read"}
    /\ lock' = IF pc[o] = "waiting" THEN lock
               ELSE [lock EXCEPT ![LockOf[bucket[o]]] = None]
    /\ pc' = [pc EXCEPT ![o] = "refused"]
    /\ UNCHANGED <<bucket, last, rows>>

\* Writers that bypass the spine: one create, no lock, no hash, dated now().
WriteUnhashed(o) ==
    /\ pc[o] = "idle"
    /\ \E b \in Strategies, now \in Clock :
          /\ bucket' = [bucket EXCEPT ![o] = b]
          /\ rows' = [rows EXCEPT ![o] =
                [stored |-> TRUE, strategyId |-> b, emittedAt |-> now,
                 prevHash |-> None, selfHash |-> None]]
    /\ pc' = [pc EXCEPT ![o] = "bypassed"]
    /\ UNCHANGED <<lock, last>>

Step(o) == \/ Call(o) \/ TakeLock(o) \/ ReadHead(o)
           \/ Commit(o) \/ Abort(o) \/ WriteUnhashed(o)

Next == \E o \in Openings : Step(o)

\* The database grants a free lock to a waiting transaction and ends every
\* transaction it has begun (interactive transactions have a timeout).
Fairness == \A o \in Openings : /\ WF_vars(TakeLock(o))
                                /\ WF_vars(ReadHead(o))
                                /\ WF_vars(Commit(o))

Spec == Init /\ [][Next]_vars
FairSpec == Spec /\ Fairness

-----------------------------------------------------------------------------
\* The state of the spine is well typed; in particular no row is filed under
\* a missing strategyId (openEmission normalises it to "(none)").
TypeOK ==
    /\ pc \in [Openings -> {"idle", "waiting", "locked", "read",
                            "opened", "refused", "bypassed"}]
    /\ bucket \in [Openings -> Buckets]
    /\ lock \in [Locks -> Openings \cup {None}]
    /\ last \in [Openings -> Openings \cup {None}]
    /\ rows \in [Openings -> Row \cup {NoRow}]

\* Two sealed rows of a strategy never share their predecessor: concurrent
\* openings do not fork the chain (comment of openEmission on the lock), and
\* the rows of writers that bypass it do not restart it at null.
NoFork ==
    \A b \in Buckets : \A p, q \in Hashed(b) :
        rows[p].prevHash = rows[q].prevHash => p = q

\* A walk over the sealed rows of a strategy by emittedAt is unambiguous and
\* finds in every row the hash of the row before it, null in the first: what
\* verifyChain checks, whatever the clocks of the writers said.
ChainVerifies ==
    \A b \in Buckets : \A r \in Hashed(b) :
        LET Earlier == {q \in Hashed(b) : rows[q].emittedAt < rows[r].emittedAt}
        IN  /\ \A q \in Hashed(b) : rows[q].emittedAt = rows[r].emittedAt => q = r
            /\ \/ rows[r].prevHash = None /\ Earlier = {}
               \/ /\ rows[r].prevHash \in Earlier
                  /\ \A q \in Earlier : rows[q].emittedAt <= rows[rows[r].prevHash].emittedAt

\* Every call of openEmission returns or throws: no transaction keeps a lock
\* the others of its strategy, or of a strategy with the same hashtext, need.
EveryCallAnswered ==
    \A o \in Openings : pc[o] = "waiting" ~> pc[o] \in {"opened", "refused"}

-----------------------------------------------------------------------------
(***************************************************************************)
(* The table read by date, as verify-hash-chain reads it.                  *)
(***************************************************************************)
\* s lists the rows H, each of them once, by date.
IsListing(s, H, date) ==
    /\ \A o \in H : \E k \in DOMAIN s : s[k] = o
    /\ \A i, j \in DOMAIN s : i < j => s[i] # s[j] /\ date[s[i]] <= date[s[j]]

Listing(H, date) == CHOOSE s \in [1..Cardinality(H) -> H] : IsListing(s, H, date)

Walk(b) == Listing(Hashed(b), [o \in Hashed(b) |-> rows[o].emittedAt])

Answer(o) == IF pc[o] \in {"opened", "refused"} THEN pc[o] ELSE "none"

Journal == INSTANCE EmissionJournal WITH
    Emissions <- Openings,
    journal <- [b \in Buckets |-> Walk(b)],
    answer <- [o \in Openings |-> Answer(o)]

\* The statements of the spine implement an append-only journal per strategy:
\* an emission enters at the end, once, and never before the answer is due.
ImplementsJournal == Journal!Spec

IdOf(row) == row.id
Verifier == INSTANCE HashChain WITH Digest <- IdOf

\* The rows of a bucket in the form the verifier takes them.
Table(b) ==
    [k \in DOMAIN Walk(b) |->
        LET o == Walk(b)[k]
        IN  [id |-> o, body |-> rows[o].strategyId, version |-> 2,
             prevHash |-> rows[o].prevHash, selfHash |-> rows[o].selfHash]]

\* verifyChain accepts the whole history and every bounded window of it, in
\* every state the concurrent writers can reach.
HistoryVerifies ==
    \A b \in Buckets :
        /\ Verifier!VerifyAll(Table(b)).ok
        /\ \A n \in 1..Cardinality(Hashed(b)) : Verifier!VerifyWindow(Table(b), n).ok
=============================================================================
