------------------------ MODULE EmissionChainProofs ------------------------
(***************************************************************************)
(* Theorems about EmissionChain, for any number of callers and strategies, *)
(* any hash function on strategy names and any clocks: the chain verifies  *)
(* and never forks, the statements implement EmissionJournal, verifyChain  *)
(* accepts what they wrote.  Then the verifier itself: over the journals   *)
(* of JournalAudit, of any length, and over any table.                     *)
(***************************************************************************)
EXTENDS EmissionChain, JournalAudit, SequenceTheorems, FiniteSetTheorems, WellFoundedInduction, TLAPS

\* A transaction that is past the lock statement is the holder of the lock of
\* its bucket, and only such a transaction holds a lock.
LockHeld ==
    /\ \A o \in Openings : pc[o] \in {"locked", "read"} => lock[LockOf[bucket[o]]] = o
    /\ \A l \in Locks : lock[l] # None =>
          /\ pc[lock[l]] \in {"locked", "read"}
          /\ LockOf[bucket[lock[l]]] = l

\* What a transaction read as the head is still the head.
HeadCurrent == \A o \in Openings : pc[o] = "read" => IsHead(last[o], bucket[o])

\* A call that has not committed owns no row; sealed rows are their own hash.
RowOwned ==
    \A o \in Openings :
        /\ pc[o] \in {"idle", "waiting", "locked", "read"} => rows[o] = NoRow
        /\ rows[o].stored => rows[o].selfHash \in {o, None}

IInv == TypeOK /\ LockHeld /\ HeadCurrent /\ RowOwned /\ ChainVerifies

-----------------------------------------------------------------------------
(***************************************************************************)
(* The invariant is the property that matters, ChainVerifies, and the      *)
(* facts about the transactions in flight that make a commit preserve it:  *)
(* the lock makes the head a transaction has read stay the head until it   *)
(* commits.  TypeOK alone is not inductive: the date of the new row is     *)
(* computed from the date of the head.                                     *)
(***************************************************************************)

\* The statements other than a creation leave the chain as it is.
LEMMA SameRowsSameChain ==
    ASSUME rows' = rows, ChainVerifies
    PROVE  ChainVerifies'
  BY DEF ChainVerifies, Hashed

\* A sealed row has the fields of a row.
LEMMA HashedIsRow ==
    ASSUME TypeOK, NEW b \in Buckets, NEW q \in Hashed(b)
    PROVE  /\ q \in Openings
           /\ rows[q] \in Row
           /\ rows[q].emittedAt \in Nat
           /\ rows[q].strategyId = b
           /\ rows[q].stored
           /\ rows[q].selfHash # None
<1>1. q \in Openings /\ rows[q].stored /\ rows[q].strategyId = b /\ rows[q].selfHash # None
  BY DEF Hashed
<1>2. NoRow.stored = FALSE
  BY DEF NoRow
<1>3. rows[q] \in Row
  BY <1>1, <1>2 DEF TypeOK
<1> QED BY <1>1, <1>3 DEF Row

\* The date of a new row is a number above the date of every row of the chain.
LEMMA DateAboveChain ==
    ASSUME TypeOK, NEW b \in Buckets, NEW h \in Openings \cup {None}, IsHead(h, b),
           NEW now \in Clock
    PROVE  /\ EmittedAt(now, h) \in Nat
           /\ \A q \in Hashed(b) : rows[q].emittedAt < EmittedAt(now, h)
<1> USE ClockAssumption
<1>1. CASE h = None
  <2>1. Hashed(b) = {}
    BY <1>1, NoneAssumption, HashedIsRow DEF IsHead
  <2> QED BY <1>1, <2>1 DEF EmittedAt
<1>2. CASE h # None
  <2>1. h \in Hashed(b) /\ \A q \in Hashed(b) : rows[q].emittedAt <= rows[h].emittedAt
    BY <1>2 DEF IsHead
  <2>2. \A q \in Hashed(b) : rows[q].emittedAt \in Nat
    BY HashedIsRow
  <2> QED BY <1>2, <2>1, <2>2 DEF EmittedAt
<1> QED BY <1>1, <1>2

\* The prevHash the new row gets names the head that was read.
LEMMA HeadHash ==
    ASSUME RowOwned, NEW b \in Buckets, NEW h, IsHead(h, b)
    PROVE  HashOf(h) = h
  BY DEF RowOwned, IsHead, Hashed, HashOf

\* A sealed row appended after the head of its bucket extends the chain.
LEMMA AppendKeepsChain ==
    ASSUME TypeOK, ChainVerifies, RowOwned,
           NEW o \in Openings, pc[o] = "read", IsHead(last[o], bucket[o]),
           NEW now \in Clock, rows' = [rows EXCEPT ![o] = SealedRow(o, now)]
    PROVE  ChainVerifies'
<1> DEFINE b0 == bucket[o]
           at == EmittedAt(now, last[o])
<1>1. b0 \in Buckets /\ last[o] \in Openings \cup {None} /\ rows[o] = NoRow
  BY DEF TypeOK, RowOwned
<1>2. at \in Nat /\ \A q \in Hashed(b0) : rows[q].emittedAt < at
  BY <1>1, DateAboveChain
<1>3. \A b \in Buckets : o \notin Hashed(b)
  BY <1>1 DEF Hashed, NoRow
<1>4. /\ rows'[o].stored /\ rows'[o].strategyId = b0 /\ rows'[o].emittedAt = at
      /\ rows'[o].prevHash = last[o] /\ rows'[o].selfHash = o
      /\ \A q \in Openings \ {o} : rows'[q] = rows[q]
  BY <1>1, HeadHash DEF SealedRow, TypeOK
<1>5. \A b \in Buckets : Hashed(b)' = IF b = b0 THEN Hashed(b) \cup {o} ELSE Hashed(b)
  BY <1>3, <1>4, NoneAssumption DEF Hashed
<1>6. SUFFICES ASSUME NEW b \in Buckets, NEW r \in Hashed(b)'
      PROVE LET Earlier == {q \in Hashed(b)' : rows'[q].emittedAt < rows'[r].emittedAt}
            IN  /\ \A q \in Hashed(b)' : rows'[q].emittedAt = rows'[r].emittedAt => q = r
                /\ \/ rows'[r].prevHash = None /\ Earlier = {}
                   \/ /\ rows'[r].prevHash \in Earlier
                      /\ \A q \in Earlier :
                            rows'[q].emittedAt <= rows'[rows'[r].prevHash].emittedAt
  BY DEF ChainVerifies
<1>7. \A q \in Hashed(b) : q \in Openings \ {o} /\ rows'[q] = rows[q] /\ rows[q].emittedAt \in Nat
  BY <1>3, <1>4, HashedIsRow
<1>8. CASE b # b0
  BY <1>5, <1>7, <1>8 DEF ChainVerifies
<1>9. CASE b = b0 /\ r # o
  <2>1. r \in Hashed(b) /\ rows[r].emittedAt < at
    BY <1>2, <1>5, <1>9
  <2>2. {q \in Hashed(b)' : rows'[q].emittedAt < rows'[r].emittedAt}
          = {q \in Hashed(b) : rows[q].emittedAt < rows[r].emittedAt}
    BY <1>2, <1>4, <1>5, <1>7, <1>9, <2>1
  <2>3. \A q \in Hashed(b)' : rows'[q].emittedAt = rows'[r].emittedAt => q = r
    BY <1>2, <1>4, <1>5, <1>7, <1>9, <2>1 DEF ChainVerifies
  <2> QED BY <1>7, <2>1, <2>2, <2>3 DEF ChainVerifies
<1>10. CASE b = b0 /\ r = o
  <2>1. {q \in Hashed(b)' : rows'[q].emittedAt < rows'[r].emittedAt} = Hashed(b)
    BY <1>2, <1>4, <1>5, <1>7, <1>10
  <2>2. \A q \in Hashed(b)' : rows'[q].emittedAt = rows'[r].emittedAt => q = r
    BY <1>2, <1>4, <1>5, <1>7, <1>10
  <2>3. \/ last[o] = None /\ Hashed(b) = {}
        \/ last[o] \in Hashed(b) /\ \A q \in Hashed(b) : rows[q].emittedAt <= rows[last[o]].emittedAt
    BY <1>10 DEF IsHead
  <2> QED BY <1>4, <1>7, <1>10, <2>1, <2>2, <2>3
<1> QED BY <1>8, <1>9, <1>10

-----------------------------------------------------------------------------
\* Initially there is no row and no transaction.
LEMMA InitEstablishes == Init => IInv
<1> SUFFICES ASSUME Init PROVE IInv
  OBVIOUS
<1>1. TypeOK
  BY BucketAssumption DEF Init, TypeOK, Buckets
<1>2. \A o \in Openings : rows[o] = NoRow /\ ~ rows[o].stored
  BY DEF Init, NoRow
<1>3. \A b \in Buckets : Hashed(b) = {}
  BY <1>2 DEF Hashed
<1>4. LockHeld /\ HeadCurrent
  BY DEF Init, LockHeld, HeadCurrent
<1>5. RowOwned
  BY <1>2 DEF RowOwned
<1>6. ChainVerifies
  BY <1>3 DEF ChainVerifies
<1> QED BY <1>1, <1>4, <1>5, <1>6 DEF IInv

\* Calling openEmission changes no row and no lock.
LEMMA CallPreserves == ASSUME IInv, NEW o \in Openings, Call(o) PROVE IInv'
<1> USE DEF IInv
<1>1. TypeOK'
  BY DEF TypeOK, Call, BucketOf, Buckets
<1>2. LockHeld'
  BY DEF TypeOK, Call, LockHeld
<1>3. HeadCurrent'
  BY DEF TypeOK, Call, HeadCurrent, IsHead, Hashed
<1>4. RowOwned'
  BY DEF TypeOK, Call, RowOwned
<1>5. ChainVerifies'
  BY SameRowsSameChain DEF Call
<1> QED BY <1>1, <1>2, <1>3, <1>4, <1>5

\* Taking the free lock of a bucket makes the caller its only holder.
LEMMA TakeLockPreserves == ASSUME IInv, NEW o \in Openings, TakeLock(o) PROVE IInv'
<1> USE DEF IInv
<1>1. TypeOK'
  BY DEF TypeOK, TakeLock
<1>2. LockOf[bucket[o]] \in Locks
  BY LockAssumption DEF TypeOK
<1>3. LockHeld'
  BY <1>2, NoneAssumption, LockAssumption DEF TypeOK, TakeLock, LockHeld
<1>4. HeadCurrent'
  BY DEF TypeOK, TakeLock, HeadCurrent, IsHead, Hashed
<1>5. RowOwned'
  BY DEF TypeOK, TakeLock, RowOwned
<1>6. ChainVerifies'
  BY SameRowsSameChain DEF TakeLock
<1> QED BY <1>1, <1>3, <1>4, <1>5, <1>6

\* What is read as the head is the head.
LEMMA ReadHeadPreserves == ASSUME IInv, NEW o \in Openings, ReadHead(o) PROVE IInv'
<1> USE DEF IInv
<1>1. TypeOK'
  BY DEF TypeOK, ReadHead
<1>2. LockHeld'
  BY DEF TypeOK, ReadHead, LockHeld
<1>3. HeadCurrent'
  <2>1. PICK h \in Openings \cup {None} :
           IsHead(h, bucket[o]) /\ last' = [last EXCEPT ![o] = h]
    BY DEF ReadHead
  <2>2. rows' = rows /\ bucket' = bucket /\ \A b \in Buckets : Hashed(b)' = Hashed(b)
    BY DEF ReadHead, Hashed
  <2>3. \A p \in Openings \ {o} : pc'[p] = pc[p] /\ last'[p] = last[p]
    BY <2>1 DEF TypeOK, ReadHead
  <2>4. ASSUME NEW p \in Openings, pc'[p] = "read" PROVE IsHead(last[p], bucket[p])'
    BY <2>1, <2>2, <2>3, <2>4 DEF TypeOK, HeadCurrent, IsHead
  <2> QED BY <2>4 DEF HeadCurrent
<1>4. RowOwned'
  BY DEF TypeOK, ReadHead, RowOwned
<1>5. ChainVerifies'
  BY SameRowsSameChain DEF ReadHead
<1> QED BY <1>1, <1>2, <1>3, <1>4, <1>5

\* An aborted transaction gives its lock back and leaves no row.
LEMMA AbortPreserves == ASSUME IInv, NEW o \in Openings, Abort(o) PROVE IInv'
<1> USE DEF IInv
<1>1. TypeOK'
  BY DEF TypeOK, Abort
<1>2. LockOf[bucket[o]] \in Locks
  BY LockAssumption DEF TypeOK
<1>3. LockHeld'
  BY <1>2, NoneAssumption, LockAssumption DEF TypeOK, Abort, LockHeld
<1>4. HeadCurrent'
  BY DEF TypeOK, Abort, HeadCurrent, IsHead, Hashed
<1>5. RowOwned'
  BY DEF TypeOK, Abort, RowOwned
<1>6. ChainVerifies'
  BY SameRowsSameChain DEF Abort
<1> QED BY <1>1, <1>3, <1>4, <1>5, <1>6

\* The step that appends: nobody else has read the head of the same bucket,
\* since that would take the lock.
LEMMA CommitPreserves == ASSUME IInv, NEW o \in Openings, Commit(o) PROVE IInv'
<1> USE DEF IInv
<1>1. PICK now \in Clock : rows' = [rows EXCEPT ![o] = SealedRow(o, now)]
  BY DEF Commit
<1>2. bucket[o] \in Buckets /\ LockOf[bucket[o]] \in Locks /\ rows[o] = NoRow
      /\ IsHead(last[o], bucket[o]) /\ last[o] \in Openings \cup {None}
  BY LockAssumption DEF TypeOK, Commit, RowOwned, HeadCurrent
<1>3. SealedRow(o, now) \in Row
  BY <1>2, DateAboveChain, HeadHash DEF SealedRow, Row, TypeOK
<1>4. TypeOK'
  BY <1>1, <1>3 DEF TypeOK, Commit
<1>5. LockHeld'
  BY <1>2, NoneAssumption, LockAssumption DEF TypeOK, Commit, LockHeld
<1>6. RowOwned'
  BY <1>1 DEF TypeOK, Commit, RowOwned, SealedRow
<1>7. HeadCurrent'
  <2> SUFFICES ASSUME NEW p \in Openings, pc'[p] = "read"
               PROVE  IsHead(last[p], bucket[p])'
    BY DEF HeadCurrent
  <2>1. p # o /\ pc[p] = "read"
    BY DEF TypeOK, Commit
  <2>2. bucket[p] # bucket[o]
    BY <2>1 DEF LockHeld, Commit
  <2>3. IsHead(last[p], bucket[p]) /\ bucket' = bucket /\ last' = last
    BY <2>1 DEF HeadCurrent, Commit
  <2>4. /\ rows'[o].strategyId = bucket[o]
        /\ \A q \in Openings \ {o} : rows'[q] = rows[q]
    BY <1>1 DEF TypeOK, SealedRow
  <2>5. o \notin Hashed(bucket[p]) /\ o \notin Hashed(bucket[p])'
    BY <1>2, <2>2, <2>3, <2>4 DEF Hashed, NoRow
  <2>6. Hashed(bucket[p])' = Hashed(bucket[p])
    BY <2>3, <2>4, <2>5 DEF Hashed
  <2>7. \A q \in Hashed(bucket[p]) : rows'[q] = rows[q]
    BY <2>4, <2>5 DEF Hashed
  <2> QED BY <2>3, <2>6, <2>7 DEF IsHead
<1>8. ChainVerifies'
  BY <1>1, <1>2, AppendKeepsChain DEF Commit
<1> QED BY <1>4, <1>5, <1>6, <1>7, <1>8

\* A row without a hash is on no chain.
LEMMA WriteUnhashedPreserves ==
    ASSUME IInv, NEW o \in Openings, WriteUnhashed(o) PROVE IInv'
<1> USE DEF IInv
<1>1. PICK s \in Strategies, now \in Clock :
         /\ bucket' = [bucket EXCEPT ![o] = s]
         /\ rows' = [rows EXCEPT ![o] =
               [stored |-> TRUE, strategyId |-> s, emittedAt |-> now,
                prevHash |-> None, selfHash |-> None]]
  BY DEF WriteUnhashed
<1>2. TypeOK'
  BY <1>1, ClockAssumption DEF TypeOK, WriteUnhashed, Row, Buckets
<1>3. LockHeld'
  BY <1>1 DEF TypeOK, WriteUnhashed, LockHeld
<1>4. RowOwned'
  BY <1>1 DEF TypeOK, WriteUnhashed, RowOwned
<1>5. rows[o] = NoRow
  BY DEF RowOwned, WriteUnhashed
<1>6. /\ rows'[o].selfHash = None
      /\ \A q \in Openings \ {o} : rows'[q] = rows[q]
  BY <1>1 DEF TypeOK
<1>7. ASSUME NEW b \in Buckets
      PROVE  /\ Hashed(b)' = Hashed(b)
             /\ \A q \in Hashed(b) : q \in Openings /\ rows'[q] = rows[q]
  BY <1>5, <1>6 DEF Hashed, NoRow
<1>8. HeadCurrent'
  BY <1>1, <1>7 DEF TypeOK, WriteUnhashed, HeadCurrent, IsHead
<1>9. ChainVerifies'
  BY <1>7 DEF ChainVerifies
<1> QED BY <1>2, <1>3, <1>4, <1>8, <1>9

\* Every step of every caller preserves the invariant.
LEMMA NextPreserves == IInv /\ [Next]_vars => IInv'
<1> SUFFICES ASSUME IInv, [Next]_vars PROVE IInv'
  OBVIOUS
<1>1. ASSUME NEW o \in Openings, Step(o) PROVE IInv'
  BY <1>1, CallPreserves, TakeLockPreserves, ReadHeadPreserves, CommitPreserves,
     AbortPreserves, WriteUnhashedPreserves DEF Step
<1>2. CASE UNCHANGED vars
  <2>1. TypeOK' /\ LockHeld' /\ RowOwned' /\ HeadCurrent'
    BY <1>2 DEF vars, IInv, TypeOK, LockHeld, RowOwned, HeadCurrent, IsHead, Hashed
  <2> QED BY <1>2, <2>1, SameRowsSameChain DEF IInv, vars
<1> QED BY <1>1, <1>2 DEF Next

\* The strengthened invariant holds in every state of the specification.
THEOREM Invariance == Spec => []IInv
  BY InitEstablishes, NextPreserves, PTL DEF Spec

\* openEmission keeps the state well typed, for every value of the constants.
THEOREM TypeCorrect == Spec => []TypeOK
  BY Invariance, PTL DEF IInv

\* Whatever the interleaving of the callers, their failures and their clocks,
\* and however hashtext collides, verify-hash-chain finds an unbroken chain.
THEOREM ChainAlwaysVerifies == Spec => []ChainVerifies
  BY Invariance, PTL DEF IInv

\* A chain that verifies has no fork.
LEMMA VerifiedHasNoFork == ASSUME TypeOK, ChainVerifies PROVE NoFork
<1> SUFFICES ASSUME NEW b \in Buckets, NEW p \in Hashed(b), NEW q \in Hashed(b),
                    rows[p].prevHash = rows[q].prevHash
             PROVE  p = q
  BY DEF NoFork
<1>1. rows[p].emittedAt \in Nat /\ rows[q].emittedAt \in Nat
  BY HashedIsRow
<1>2. ~ (rows[p].emittedAt < rows[q].emittedAt)
  BY <1>1, NoneAssumption, HashedIsRow DEF ChainVerifies
<1>3. ~ (rows[q].emittedAt < rows[p].emittedAt)
  BY <1>1, NoneAssumption, HashedIsRow DEF ChainVerifies
<1>4. rows[p].emittedAt = rows[q].emittedAt
  BY <1>1, <1>2, <1>3
<1> QED BY <1>4 DEF ChainVerifies

\* Concurrent openings never fork the chain of a strategy.
THEOREM NeverForks == Spec => []NoFork
<1>1. IInv => NoFork
  BY VerifiedHasNoFork DEF IInv
<1> QED BY <1>1, Invariance, PTL

-----------------------------------------------------------------------------
(***************************************************************************)
(* The journal of a bucket.  Walk is a CHOOSE over listings of the sealed  *)
(* rows; since their dates differ there is one listing at most, and the    *)
(* invariant Listed says that there is one: it grows by the row a commit   *)
(* adds.  That is the refinement of EmissionJournal, and what verifyChain  *)
(* walks over.                                                             *)
(***************************************************************************)

\* Every nonempty set of numbers has a least element.
LEMMA SetHasLeast ==
    ASSUME NEW S \in SUBSET Nat, S # {}
    PROVE  \E m \in S : \A k \in S : m <= k
<1>1. IsWellFoundedOn(OpToRel(<, Nat), Nat)
  BY NatLessThanWellFounded
<1>2. \E m \in S : \A k \in S : <<k, m>> \notin OpToRel(<, Nat)
  BY <1>1, WFMin
<1>3. \A k, m \in Nat : <<k, m>> \in OpToRel(<, Nat) <=> k < m
  BY DEF OpToRel
<1>4. \E m \in S : \A k \in S : ~ (k < m)
  BY <1>2, <1>3, Zenon
<1> QED BY <1>4

\* The rows of a listing are in strict order when their dates differ.
LEMMA ListingIsStrict ==
    ASSUME NEW H, NEW date \in [H -> Nat], \A p, q \in H : date[p] = date[q] => p = q,
           NEW n \in Nat, NEW s \in [1..n -> H], IsListing(s, H, date),
           NEW i \in 1..n, NEW j \in 1..n, i < j
    PROVE  date[s[i]] < date[s[j]]
<1>1. s[i] \in H /\ s[j] \in H /\ date[s[i]] \in Nat /\ date[s[j]] \in Nat
  OBVIOUS
<1>2. s[i] # s[j] /\ date[s[i]] <= date[s[j]]
  BY DEF IsListing
<1> QED BY <1>1, <1>2

\* Where two listings first differ, the one has the earlier row and the other
\* has it too, later.
LEMMA EarlierInOther ==
    ASSUME NEW H, NEW date \in [H -> Nat], \A p, q \in H : date[p] = date[q] => p = q,
           NEW n \in Nat,
           NEW s \in [1..n -> H], IsListing(s, H, date),
           NEW t \in [1..n -> H], IsListing(t, H, date),
           NEW k \in 1..n, s[k] # t[k], \A j \in 1..n : j < k => s[j] = t[j]
    PROVE  date[t[k]] < date[s[k]]
<1>1. PICK m \in 1..n : t[m] = s[k]
  BY DEF IsListing
<1>2. ~ (m < k)
  <2> SUFFICES ASSUME m < k PROVE FALSE
    OBVIOUS
  <2>1. s[m] = s[k]
    BY <1>1
  <2> QED BY <2>1 DEF IsListing
<1>3. k < m
  BY <1>1, <1>2
<1>4. date[t[k]] < date[t[m]]
  BY <1>3, ListingIsStrict
<1> QED BY <1>1, <1>4

\* There is one listing at most.
LEMMA OneListing ==
    ASSUME NEW H, NEW date \in [H -> Nat], \A p, q \in H : date[p] = date[q] => p = q,
           NEW n \in Nat,
           NEW s \in [1..n -> H], IsListing(s, H, date),
           NEW t \in [1..n -> H], IsListing(t, H, date)
    PROVE  s = t
<1> DEFINE D == {k \in 1..n : s[k] # t[k]}
<1> SUFFICES ASSUME s # t PROVE FALSE
  OBVIOUS
<1>0. D \in SUBSET Nat /\ D # {}
  OBVIOUS
<1>1. PICK k \in D : \A j \in D : k <= j
  BY <1>0, SetHasLeast
<1>2. k \in 1..n /\ s[k] # t[k] /\ \A j \in 1..n : j < k => s[j] = t[j]
  BY <1>1
<1>3. date[t[k]] < date[s[k]]
  BY <1>2, EarlierInOther
<1>4. date[s[k]] < date[t[k]]
  BY <1>2, EarlierInOther
<1>5. date[s[k]] \in Nat /\ date[t[k]] \in Nat
  BY <1>2
<1> QED BY <1>3, <1>4, <1>5

\* A listing is the one that Listing chooses.
LEMMA ListingChosen ==
    ASSUME NEW H, NEW date \in [H -> Nat], \A p, q \in H : date[p] = date[q] => p = q,
           Cardinality(H) \in Nat,
           NEW s \in [1..Cardinality(H) -> H], IsListing(s, H, date)
    PROVE  Listing(H, date) = s
<1> DEFINE t == Listing(H, date)
<1>1. t \in [1..Cardinality(H) -> H] /\ IsListing(t, H, date)
  BY DEF Listing
<1> QED BY <1>1, OneListing

\* A row dated after all others goes to the end of the listing.
LEMMA ListingGrows ==
    ASSUME NEW H, NEW date \in [H -> Nat], IsFiniteSet(H),
           NEW s \in [1..Cardinality(H) -> H], IsListing(s, H, date),
           NEW o, o \notin H, NEW after \in [H \cup {o} -> Nat],
           \A p \in H : after[p] = date[p] /\ date[p] < after[o]
    PROVE  /\ Cardinality(H \cup {o}) = Cardinality(H) + 1
           /\ Append(s, o) \in [1..Cardinality(H \cup {o}) -> H \cup {o}]
           /\ IsListing(Append(s, o), H \cup {o}, after)
<1> DEFINE n == Cardinality(H)
           u == Append(s, o)
<1>1. n \in Nat /\ Cardinality(H \cup {o}) = n + 1
  BY FS_CardinalityType, FS_AddElement
<1>2. s \in Seq(H \cup {o}) /\ Len(s) = n /\ DOMAIN s = 1..n
  BY <1>1
<1>3. u \in [1..(n + 1) -> H \cup {o}] /\ u[n + 1] = o /\ \A k \in 1..n : u[k] = s[k]
  <2>1. u \in Seq(H \cup {o}) /\ Len(u) = n + 1
    BY <1>2, AppendProperties
  <2>2. \A k \in 1..(n + 1) : u[k] = IF k <= n THEN s[k] ELSE o
    BY <1>2, AppendProperties
  <2>3. u \in [1..(n + 1) -> H \cup {o}]
    BY <2>1, LenProperties
  <2> QED BY <1>1, <2>2, <2>3
<1>4. \A p \in H \cup {o} : \E k \in DOMAIN u : u[k] = p
  BY <1>1, <1>3 DEF IsListing
<1>5. ASSUME NEW i \in 1..(n + 1), NEW j \in 1..(n + 1), i < j
      PROVE  u[i] # u[j] /\ after[u[i]] <= after[u[j]]
  <2>1. i \in 1..n /\ u[i] = s[i] /\ s[i] \in H
    BY <1>1, <1>3, <1>5
  <2>2. CASE j = n + 1
    BY <1>3, <2>1, <2>2
  <2>3. CASE j # n + 1
    <3>1. j \in 1..n /\ u[j] = s[j] /\ s[j] \in H
      BY <1>1, <1>3, <2>3
    <3> QED BY <1>2, <1>5, <2>1, <3>1 DEF IsListing
  <2> QED BY <2>2, <2>3
<1> QED BY <1>1, <1>3, <1>4, <1>5 DEF IsListing


Dates(b) == [o \in Hashed(b) |-> rows[o].emittedAt]

\* The sealed rows of a bucket are finitely many and can be listed by date.
Listed ==
    \A b \in Buckets :
        /\ IsFiniteSet(Hashed(b))
        /\ \E s \in [1..Cardinality(Hashed(b)) -> Hashed(b)] : IsListing(s, Hashed(b), Dates(b))

\* The dates of a bucket are numbers and differ.
LEMMA DatesDiffer ==
    ASSUME IInv, NEW b \in Buckets
    PROVE  /\ Dates(b) \in [Hashed(b) -> Nat]
           /\ \A p, q \in Hashed(b) : Dates(b)[p] = Dates(b)[q] => p = q
           /\ \A p \in Hashed(b) : Dates(b)[p] = rows[p].emittedAt
<1>1. \A p \in Hashed(b) : rows[p].emittedAt \in Nat
  BY HashedIsRow DEF IInv
<1>2. \A p, q \in Hashed(b) : rows[p].emittedAt = rows[q].emittedAt => p = q
  BY DEF IInv, ChainVerifies
<1> QED BY <1>1, <1>2 DEF Dates

\* Walk is a listing of the bucket.
LEMMA WalkIsListing ==
    ASSUME IInv, Listed, NEW b \in Buckets
    PROVE  /\ Cardinality(Hashed(b)) \in Nat
           /\ Walk(b) \in [1..Cardinality(Hashed(b)) -> Hashed(b)]
           /\ IsListing(Walk(b), Hashed(b), Dates(b))
<1>1. PICK s \in [1..Cardinality(Hashed(b)) -> Hashed(b)] : IsListing(s, Hashed(b), Dates(b))
  BY DEF Listed
<1>2. Cardinality(Hashed(b)) \in Nat
  BY FS_CardinalityType DEF Listed
<1>3. Walk(b) = s
  BY <1>1, <1>2, DatesDiffer, ListingChosen DEF Walk, Dates
<1> QED BY <1>1, <1>2, <1>3

\* A step that leaves the sealed rows of a bucket alone leaves its journal alone.
LEMMA WalkKept ==
    ASSUME NEW b \in Buckets, Hashed(b)' = Hashed(b),
           \A q \in Hashed(b) : rows'[q] = rows[q]
    PROVE  Dates(b)' = Dates(b) /\ Walk(b)' = Walk(b)
<1>1. Dates(b)' = Dates(b)
  BY DEF Dates
<1> QED BY <1>1 DEF Walk, Dates

\* Of the sealed rows, only the commits touch any.
LEMMA OnlyCommitSeals ==
    ASSUME IInv, [Next]_vars, ~ \E o \in Openings : Commit(o), NEW b \in Buckets
    PROVE  Hashed(b)' = Hashed(b) /\ \A q \in Hashed(b) : rows'[q] = rows[q]
<1>1. CASE UNCHANGED rows
  BY <1>1 DEF Hashed
<1>2. ASSUME NEW o \in Openings, WriteUnhashed(o)
      PROVE  Hashed(b)' = Hashed(b) /\ \A q \in Hashed(b) : rows'[q] = rows[q]
  <2>1. rows[o] = NoRow
    BY <1>2 DEF WriteUnhashed, IInv, RowOwned
  <2>2. rows'[o].selfHash = None /\ \A q \in Openings \ {o} : rows'[q] = rows[q]
    BY <1>2 DEF WriteUnhashed, IInv, TypeOK
  <2> QED BY <2>1, <2>2 DEF Hashed, NoRow
<1> QED BY <1>1, <1>2 DEF Next, Step, Call, TakeLock, ReadHead, Abort, vars

\* A commit seals one new row, dated after all others of its bucket.
LEMMA CommitSeals ==
    ASSUME IInv, NEW o \in Openings, Commit(o), NEW b \in Buckets
    PROVE  /\ bucket[o] \in Buckets /\ o \notin Hashed(b)
           /\ Hashed(b)' = IF b = bucket[o] THEN Hashed(b) \cup {o} ELSE Hashed(b)
           /\ \A q \in Hashed(b) : rows'[q] = rows[q]
           /\ b = bucket[o] => \A q \in Hashed(b) : rows[q].emittedAt < rows'[o].emittedAt
<1>1. PICK now \in Clock : rows' = [rows EXCEPT ![o] = SealedRow(o, now)]
  BY DEF Commit
<1>2. /\ bucket[o] \in Buckets /\ rows[o] = NoRow
      /\ IsHead(last[o], bucket[o]) /\ last[o] \in Openings \cup {None}
  BY DEF Commit, IInv, TypeOK, RowOwned, HeadCurrent
<1>3. rows'[o] = SealedRow(o, now) /\ \A q \in Openings \ {o} : rows'[q] = rows[q]
  BY <1>1 DEF IInv, TypeOK
<1>4. o \notin Hashed(b)
  BY <1>2 DEF Hashed, NoRow
<1>5. rows'[o].stored /\ rows'[o].strategyId = bucket[o] /\ rows'[o].selfHash = o
      /\ rows'[o].emittedAt = EmittedAt(now, last[o])
  BY <1>3 DEF SealedRow
<1>6. Hashed(b)' = IF b = bucket[o] THEN Hashed(b) \cup {o} ELSE Hashed(b)
  BY <1>3, <1>4, <1>5, NoneAssumption DEF Hashed
<1>7. \A q \in Hashed(b) : rows'[q] = rows[q]
  BY <1>3, <1>4 DEF Hashed
<1>8. b = bucket[o] => \A q \in Hashed(b) : rows[q].emittedAt < rows'[o].emittedAt
  BY <1>2, <1>5, DateAboveChain DEF IInv
<1> QED BY <1>2, <1>4, <1>6, <1>7, <1>8

\* The journal of the bucket of a commit grows at its end, the others stay.
LEMMA CommitAppends ==
    ASSUME IInv, IInv', Listed, NEW o \in Openings, Commit(o), NEW b \in Buckets
    PROVE  /\ IsFiniteSet(Hashed(b))'
           /\ (\E s \in [1..Cardinality(Hashed(b)) -> Hashed(b)] :
                  IsListing(s, Hashed(b), Dates(b)))'
           /\ Walk(b)' = IF b = bucket[o] THEN Append(Walk(b), o) ELSE Walk(b)
<1>1. CASE b # bucket[o]
  <2>1. Hashed(b)' = Hashed(b) /\ Dates(b)' = Dates(b) /\ Walk(b)' = Walk(b)
    BY <1>1, CommitSeals, WalkKept
  <2> QED BY <1>1, <2>1 DEF Listed
<1>2. CASE b = bucket[o]
  <2> DEFINE H == Hashed(b)
             s == Walk(b)
             after == [p \in Hashed(b)' |-> rows'[p].emittedAt]
  <2>1. IsFiniteSet(H) /\ Cardinality(H) \in Nat /\ s \in [1..Cardinality(H) -> H]
        /\ IsListing(s, H, Dates(b)) /\ Dates(b) \in [H -> Nat]
    BY WalkIsListing, DatesDiffer DEF Listed
  <2>2. o \notin H /\ Hashed(b)' = H \cup {o} /\ \A p \in H : rows'[p] = rows[p]
    BY <1>2, CommitSeals
  <2>3. Dates(b)' = after
    BY DEF Dates
  <2>4. /\ after \in [Hashed(b)' -> Nat]
        /\ \A p, q \in Hashed(b)' : after[p] = after[q] => p = q
    <3>1. \A p \in Hashed(b)' : rows'[p].emittedAt \in Nat
      <4>1. \A p \in Hashed(b)' : p \in Openings /\ rows'[p].stored
        BY DEF Hashed
      <4>2. NoRow.stored = FALSE
        BY DEF NoRow
      <4>3. \A p \in Hashed(b)' : rows'[p] \in Row
        BY <4>1, <4>2 DEF IInv, TypeOK
      <4> QED BY <4>3 DEF Row
    <3>2. \A p, q \in Hashed(b)' : rows'[p].emittedAt = rows'[q].emittedAt => p = q
      BY DEF IInv, ChainVerifies
    <3> QED BY <3>1, <3>2
  <2>5. \A p \in H : after[p] = Dates(b)[p] /\ Dates(b)[p] < after[o]
    BY <1>2, <2>2, CommitSeals DEF Dates
  <2>6. /\ Cardinality(H \cup {o}) = Cardinality(H) + 1
        /\ Append(s, o) \in [1..Cardinality(H \cup {o}) -> H \cup {o}]
        /\ IsListing(Append(s, o), H \cup {o}, after)
    BY <2>1, <2>2, <2>4, <2>5, ListingGrows
  <2>7. Listing(Hashed(b)', after) = Append(s, o)
    <3>1. Cardinality(Hashed(b)') \in Nat
      BY <2>1, <2>2, <2>6
    <3>2. /\ Append(s, o) \in [1..Cardinality(Hashed(b)') -> Hashed(b)']
          /\ IsListing(Append(s, o), Hashed(b)', after)
      BY <2>2, <2>6
    <3> HIDE DEF after
    <3> QED BY <2>4, <3>1, <3>2, ListingChosen
  <2>8. Walk(b)' = Listing(Hashed(b)', after)
    BY DEF Walk
  <2>9. IsFiniteSet(Hashed(b)')
    BY <2>1, <2>2, FS_AddElement
  <2> QED BY <1>2, <2>2, <2>3, <2>6, <2>7, <2>8, <2>9
<1> QED BY <1>1, <1>2


LEMMA NothingToList == ASSUME Init, NEW b \in Buckets PROVE Hashed(b) = {} /\ Walk(b) = <<>>
<1>1. Hashed(b) = {}
  BY DEF Init, Hashed, NoRow
<1>2. Dates(b) \in [{} -> Nat] /\ Cardinality({}) \in Nat /\ <<>> \in [1..Cardinality({}) -> {}]
  <2>1. Cardinality({}) = 0
    BY FS_EmptySet
  <2> QED BY <1>1, <2>1 DEF Dates
<1>3. IsListing(<<>>, {}, Dates(b))
  BY DEF IsListing
<1>4. \A p, q \in {} : Dates(b)[p] = Dates(b)[q] => p = q
  OBVIOUS
<1>5. Listing({}, Dates(b)) = <<>>
  BY <1>2, <1>3, <1>4, ListingChosen
<1> QED BY <1>1, <1>5 DEF Walk, Dates

\* The rows of every bucket can be listed by date, in every state.
LEMMA AlwaysListed == Spec => [](IInv /\ Listed)
<1>1. Init => Listed
  <2> SUFFICES ASSUME Init, NEW b \in Buckets
               PROVE  /\ IsFiniteSet(Hashed(b))
                      /\ \E s \in [1..Cardinality(Hashed(b)) -> Hashed(b)] :
                             IsListing(s, Hashed(b), Dates(b))
    BY DEF Listed
  <2>1. Hashed(b) = {} /\ IsFiniteSet({}) /\ Cardinality({}) = 0
    BY NothingToList, FS_EmptySet
  <2>2. <<>> \in [1..0 -> {}] /\ IsListing(<<>>, {}, Dates(b))
    BY DEF IsListing
  <2> QED BY <2>1, <2>2
<1>2. ASSUME IInv, IInv', Listed, [Next]_vars PROVE Listed'
  <2>1. CASE \E o \in Openings : Commit(o)
    BY <1>2, <2>1, CommitAppends DEF Listed
  <2>2. CASE ~ \E o \in Openings : Commit(o)
    <3>1. \A b \in Buckets : Hashed(b)' = Hashed(b) /\ Dates(b)' = Dates(b)
      BY <1>2, <2>2, OnlyCommitSeals, WalkKept
    <3> QED BY <1>2, <3>1 DEF Listed
  <2> QED BY <2>1, <2>2
<1>3. IInv /\ IInv' /\ Listed /\ [Next]_vars => Listed'
  BY <1>2
<1> QED BY <1>1, <1>3, Invariance, PTL DEF Spec

-----------------------------------------------------------------------------
(***************************************************************************)
(* EmissionChain implements EmissionJournal.                               *)
(***************************************************************************)

\* A commit enters the emission into the journal of its bucket, at the end, and
\* tells the caller.
LEMMA CommitEnters ==
    ASSUME IInv, IInv', Listed, NEW o \in Openings, Commit(o)
    PROVE  Journal!Enter(o, bucket[o])
<1>1. Answer(o) = "none" /\ bucket[o] \in Buckets
  BY DEF Commit, Answer, IInv, TypeOK
<1>2. [b \in Buckets |-> Walk(b)]'
        = [[b \in Buckets |-> Walk(b)] EXCEPT ![bucket[o]] = Append(Walk(bucket[o]), o)]
  BY <1>1, CommitAppends
<1>3. PICK told \in {"opened", "refused"} : pc' = [pc EXCEPT ![o] = told]
  BY DEF Commit
<1>4. \A p \in Openings : Answer(p)' = IF p = o THEN told ELSE Answer(p)
  BY <1>3 DEF Answer, IInv, TypeOK
<1>5. [p \in Openings |-> Answer(p)]' = [[p \in Openings |-> Answer(p)] EXCEPT ![o] = told]
  BY <1>4
<1> QED BY <1>1, <1>2, <1>5 DEF Journal!Enter

\* An abort refuses, and leaves every journal as it is.
LEMMA AbortRefuses ==
    ASSUME IInv, NEW o \in Openings, Abort(o)
    PROVE  Journal!Refuse(o)
<1>1. Answer(o) = "none" /\ \A p \in Openings : Answer(p)' = IF p = o THEN "refused" ELSE Answer(p)
  BY DEF Abort, Answer, IInv, TypeOK
<1>2. \A b \in Buckets : Walk(b)' = Walk(b)
  BY WalkKept DEF Abort, Hashed
<1> QED BY <1>1, <1>2 DEF Journal!Refuse

\* The other statements are not seen from outside.
LEMMA OthersStutter ==
    ASSUME IInv, NEW o \in Openings,
           Call(o) \/ TakeLock(o) \/ ReadHead(o) \/ WriteUnhashed(o)
    PROVE  UNCHANGED Journal!journalVars
<1>1. \A p \in Openings : Answer(p)' = Answer(p)
  BY DEF Call, TakeLock, ReadHead, WriteUnhashed, Answer, IInv, TypeOK
<1>2. \A b \in Buckets : Walk(b)' = Walk(b)
  <2>1. ~ \E p \in Openings : Commit(p)
    BY DEF Call, TakeLock, ReadHead, WriteUnhashed, Commit, IInv, TypeOK
  <2> QED BY <2>1, OnlyCommitSeals, WalkKept DEF Next, Step
<1> QED BY <1>1, <1>2 DEF Journal!journalVars

\* The lock, the hashes and the dates implement an append-only journal for each
\* strategy: an emission enters it once, at its end, and before any answer.
THEOREM ChainImplementsJournal == Spec => ImplementsJournal
<1>1. Init => Journal!Init
  <2> SUFFICES ASSUME Init PROVE Journal!Init
    OBVIOUS
  <2>1. \A b \in Buckets : Walk(b) = <<>>
    BY NothingToList
  <2>2. \A o \in Openings : Answer(o) = "none"
    BY DEF Init, Answer
  <2> QED BY <2>1, <2>2 DEF Journal!Init
<1>2. ASSUME IInv, IInv', Listed, [Next]_vars PROVE [Journal!Next]_(Journal!journalVars)
  <2>1. ASSUME NEW o \in Openings, Commit(o) PROVE Journal!Next
    BY <1>2, <2>1, CommitEnters DEF Journal!Next, IInv, TypeOK
  <2>2. ASSUME NEW o \in Openings, Abort(o) PROVE Journal!Next
    BY <1>2, <2>2, AbortRefuses DEF Journal!Next
  <2>3. ASSUME NEW o \in Openings, Call(o) \/ TakeLock(o) \/ ReadHead(o) \/ WriteUnhashed(o)
        PROVE  UNCHANGED Journal!journalVars
    BY <1>2, <2>3, OthersStutter
  <2>4. CASE UNCHANGED vars
    BY <2>4, WalkKept DEF vars, Journal!journalVars, Answer, Hashed
  <2> QED BY <1>2, <2>1, <2>2, <2>3, <2>4 DEF Next, Step
<1>3. IInv /\ Listed /\ (IInv /\ Listed)' /\ [Next]_vars => [Journal!Next]_(Journal!journalVars)
  BY <1>2
<1> QED BY <1>1, <1>3, AlwaysListed, PTL DEF Spec, ImplementsJournal, Journal!Spec


-----------------------------------------------------------------------------
(***************************************************************************)
(* What verifyChain makes of the journals.                                 *)
(***************************************************************************)

\* A bucket read by date: each row names the one before it, the first none.
LEMMA WalkIsLinked ==
    ASSUME IInv, Listed, NEW b \in Buckets, NEW k \in 1..Cardinality(Hashed(b))
    PROVE  rows[Walk(b)[k]].prevHash = IF k = 1 THEN None ELSE Walk(b)[k - 1]
<1> DEFINE n == Cardinality(Hashed(b))
           w == Walk(b)
           Earlier == {q \in Hashed(b) : rows[q].emittedAt < rows[w[k]].emittedAt}
           prev == rows[w[k]].prevHash
<1>1. n \in Nat /\ w \in [1..n -> Hashed(b)] /\ IsListing(w, Hashed(b), Dates(b))
  BY WalkIsListing
<1>2. \A i, j \in 1..n : i < j => rows[w[i]].emittedAt < rows[w[j]].emittedAt
  <2>1. \A i, j \in 1..n : i < j => Dates(b)[w[i]] < Dates(b)[w[j]]
    BY <1>1, DatesDiffer, ListingIsStrict
  <2> QED BY <1>1, <2>1, DatesDiffer
<1>3. \A i \in 1..n : rows[w[i]].emittedAt \in Nat
  BY <1>1, DatesDiffer
<1>4. \A q \in Hashed(b) : \E i \in 1..n : w[i] = q
  BY <1>1 DEF IsListing
<1>5. \/ prev = None /\ Earlier = {}
      \/ /\ prev \in Earlier
         /\ \A q \in Earlier : rows[q].emittedAt <= rows[prev].emittedAt
  BY <1>1 DEF IInv, ChainVerifies
<1>6. CASE k = 1
  <2>1. Earlier = {}
    <3> SUFFICES ASSUME NEW q \in Earlier PROVE FALSE
      OBVIOUS
    <3>1. PICK i \in 1..n : w[i] = q
      BY <1>4
    <3>2. i = 1 \/ 1 < i
      OBVIOUS
    <3> QED BY <1>1, <1>2, <1>3, <1>6, <3>1, <3>2
  <2> QED BY <1>5, <1>6, <2>1
<1>7. CASE k # 1
  <2>1. k - 1 \in 1..n /\ w[k - 1] \in Earlier
    BY <1>1, <1>2, <1>7
  <2>2. prev \in Earlier /\ rows[w[k - 1]].emittedAt <= rows[prev].emittedAt
    BY <1>5, <2>1
  <2>3. PICK j \in 1..n : w[j] = prev
    BY <1>4, <2>2
  <2>4. ~ (k < j) /\ j # k
    BY <1>2, <1>3, <2>2, <2>3
  <2>5. ~ (j < k - 1)
    BY <1>2, <1>3, <2>1, <2>2, <2>3
  <2>6. j = k - 1
    BY <2>4, <2>5
  <2> QED BY <1>7, <2>3, <2>6
<1> QED BY <1>6, <1>7

\* The rows the verifier is given are sealed by their identifiers and linked.
LEMMA TableIsLinked ==
    ASSUME IInv, Listed, NEW b \in Buckets
    PROVE  /\ Cardinality(Hashed(b)) \in Nat
           /\ Table(b) \in Seq([id : Openings, body : Buckets, version : {2},
                                prevHash : Openings \cup {None}, selfHash : Openings])
           /\ Len(Table(b)) = Cardinality(Hashed(b))
           /\ \A k \in 1..Cardinality(Hashed(b)) :
                  /\ Table(b)[k].selfHash = Table(b)[k].id
                  /\ Table(b)[k].prevHash = IF k = 1 THEN None ELSE Table(b)[k - 1].selfHash
<1> DEFINE n == Cardinality(Hashed(b))
           w == Walk(b)
           T == Table(b)
           S == [id : Openings, body : Buckets, version : {2},
                 prevHash : Openings \cup {None}, selfHash : Openings]
<1>1. n \in Nat /\ w \in [1..n -> Hashed(b)] /\ DOMAIN w = 1..n
  BY WalkIsListing
<1>2. \A q \in Hashed(b) : /\ q \in Openings /\ rows[q].strategyId = b
                           /\ rows[q].prevHash \in Openings \cup {None}
                           /\ rows[q].selfHash = q
  BY HashedIsRow DEF IInv, RowOwned, Row
<1>3. \A k \in 1..n : T[k] = [id |-> w[k], body |-> rows[w[k]].strategyId, version |-> 2,
                              prevHash |-> rows[w[k]].prevHash, selfHash |-> rows[w[k]].selfHash]
  BY <1>1 DEF Table
<1>4. T \in [1..n -> S]
  BY <1>1, <1>2, <1>3 DEF Table
<1>5. T \in Seq(S) /\ Len(T) = n
  <2> HIDE DEF T, S, n
  <2> QED BY <1>1, <1>4
<1>6. ASSUME NEW k \in 1..n
      PROVE  T[k].selfHash = w[k] /\ T[k].id = w[k] /\ T[k].prevHash = rows[w[k]].prevHash
  <2>1. w[k] \in Hashed(b)
    BY <1>1
  <2>2. rows[w[k]].selfHash = w[k]
    BY <1>2, <2>1
  <2>3. T[k] = [id |-> w[k], body |-> rows[w[k]].strategyId, version |-> 2,
                prevHash |-> rows[w[k]].prevHash, selfHash |-> rows[w[k]].selfHash]
    BY <1>3
  <2> HIDE DEF T, w
  <2> QED BY <2>2, <2>3
<1>7. \A k \in 1..n : T[k].prevHash = IF k = 1 THEN None ELSE T[k - 1].selfHash
  BY <1>1, <1>6, WalkIsLinked
<1> QED BY <1>1, <1>5, <1>6, <1>7

\* The greatest number below the end of an interval.
LEMMA MaxOfInterval ==
    ASSUME NEW i \in Nat, NEW j \in Nat, i <= j
    PROVE  Verifier!Max(i..j) = j /\ Verifier!Min(i..j) = i
  BY DEF Verifier!Max, Verifier!Min

\* Every final part of such a table is accepted, anchored on what its first row names.
LEMMA PartAccepted ==
    ASSUME IInv, Listed, NEW b \in Buckets, NEW from \in 1..Cardinality(Hashed(b)), NEW anchor,
           anchor = Table(b)[from].prevHash
    PROVE  /\ Verifier!Sealed(Table(b), from) = from..Cardinality(Hashed(b))
           /\ Verifier!VerifyChain(Table(b), from..Cardinality(Hashed(b)), anchor).ok
<1> DEFINE n == Cardinality(Hashed(b))
           T == Table(b)
           seals == from..n
<1>1. /\ n \in Nat /\ Len(T) = n
      /\ \A k \in 1..n : /\ T[k].selfHash \in Openings /\ T[k].selfHash = T[k].id /\ T[k].version = 2
                         /\ T[k].prevHash = IF k = 1 THEN None ELSE T[k - 1].selfHash
  <2>1. \A k \in 1..n : T[k] \in [id : Openings, body : Buckets, version : {2},
                                   prevHash : Openings \cup {None}, selfHash : Openings]
    BY TableIsLinked, ElementOfSeq
  <2> HIDE DEF T
  <2>2. \A k \in 1..n : T[k].selfHash \in Openings /\ T[k].version = 2
    BY <2>1
  <2> QED BY <2>2, TableIsLinked DEF T
<1> HIDE DEF T
<1>2. Verifier!Sealed(T, from) = seals
  BY <1>1, NoneAssumption DEF Verifier!Sealed
<1>3. \A k \in seals : Verifier!SealState(T[k]) = "VERIFIED"
  BY <1>1, NoneAssumption DEF Verifier!SealState, IdOf
<1>4. ASSUME NEW k \in seals PROVE T[k].prevHash = Verifier!Expected(T, seals, anchor, k)
  <2>1. CASE k = from
    <3>1. {j \in seals : j < k} = {}
      BY <2>1
    <3> QED BY <2>1, <3>1 DEF Verifier!Expected, T
  <2>2. CASE k # from
    <3> DEFINE earlier == {j \in seals : j < k}
    <3>1. earlier = from..(k - 1) /\ from <= k - 1 /\ k - 1 \in Nat
      BY <1>1, <2>2
    <3>2. Verifier!Max(from..(k - 1)) = k - 1
      BY <3>1, MaxOfInterval
    <3>3. Verifier!Expected(T, seals, anchor, k) = T[k - 1].selfHash
      <4>1. Verifier!Expected(T, seals, anchor, k)
              = IF earlier = {} THEN anchor ELSE T[Verifier!Max(earlier)].selfHash
        BY DEF Verifier!Expected
      <4> HIDE DEF earlier
      <4>2. from \in earlier
        BY <1>1, <3>1
      <4> QED BY <3>1, <3>2, <4>1, <4>2
    <3> QED BY <1>1, <2>2, <3>1, <3>3
  <2> QED BY <2>1, <2>2
<1>5. Verifier!Broken(T, seals, anchor) = {}
  BY <1>3, <1>4 DEF Verifier!Broken
<1>6. Verifier!Unverifiable(T, seals) = {}
  BY <1>3 DEF Verifier!Unverifiable
<1> QED BY <1>2, <1>5, <1>6 DEF Verifier!VerifyChain, T

\* verify-hash-chain accepts every journal, whole and in its last rows: of the
\* rows openEmission has sealed none is ever reported as broken or unverifiable.
THEOREM HistoryAlwaysVerifies == Spec => []HistoryVerifies
<1>1. ASSUME IInv, Listed PROVE HistoryVerifies
  <2> SUFFICES ASSUME NEW b \in Buckets
               PROVE  /\ Verifier!VerifyAll(Table(b)).ok
                      /\ \A m \in 1..Cardinality(Hashed(b)) : Verifier!VerifyWindow(Table(b), m).ok
    BY DEF HistoryVerifies
  <2> DEFINE n == Cardinality(Hashed(b))
             T == Table(b)
  <2>1. n \in Nat /\ Len(T) = n
    BY <1>1, TableIsLinked
  <2>2. Verifier!VerifyAll(T).ok
    <3>1. CASE n = 0
      <4>1. Verifier!Sealed(T, 1) = {}
        BY <2>1, <3>1 DEF Verifier!Sealed
      <4> QED BY <4>1 DEF Verifier!VerifyAll, Verifier!VerifyChain, Verifier!Broken, Verifier!Unverifiable
    <3>2. CASE n # 0
      <4>1. 1 \in 1..n /\ T[1].prevHash = None
        BY <1>1, <2>1, <3>2, TableIsLinked
      <4> QED BY <1>1, <4>1, PartAccepted DEF Verifier!VerifyAll
    <3> QED BY <3>1, <3>2
  <2>3. ASSUME NEW m \in 1..n PROVE Verifier!VerifyWindow(T, m).ok
    <3> DEFINE from == IF n > m THEN n - m + 1 ELSE 1
    <3>1. from \in 1..n /\ from <= n
      BY <2>1
    <3>2. Verifier!Window(T, m) = from..n
      BY <1>1, <2>1, <3>1, PartAccepted DEF Verifier!Window
    <3>3. from..n # {} /\ Verifier!Min(from..n) = from
      BY <2>1, <3>1, MaxOfInterval
    <3> QED BY <1>1, <3>1, <3>2, <3>3, PartAccepted DEF Verifier!VerifyWindow
  <2> QED BY <2>2, <2>3
<1>2. IInv /\ Listed => HistoryVerifies
  BY <1>1
<1> QED BY <1>2, AlwaysListed, PTL


-----------------------------------------------------------------------------
(***************************************************************************)
(* The life of one journal: JournalAudit, for any identifiers and bodies.  *)
(***************************************************************************)
\* A record of the table.
IsRow(r) == r = [id |-> r.id, body |-> r.body, prevHash |-> r.prevHash,
                 version |-> r.version, result |-> r.result, selfHash |-> r.selfHash]

\* The ways a row comes into the table: without a hash, sealed by the spine,
\* sealed in the first version over bytes that are still there or are not.
SealedAsWritten(r) ==
    \/ r.version = 1 /\ r.selfHash = Null
    \/ r.version \in {1, 2} /\ r.selfHash = SealOf(r)
    \/ r.version = 1 /\ r.selfHash = <<"v1", r.id>>

\* The row r is e, but for its result.
Kept(e, r) ==
    /\ e.id = r.id /\ e.body = r.body /\ e.version = r.version
    /\ e.prevHash = r.prevHash /\ e.selfHash = r.selfHash

\* Every row descends from one that was emitted; neither a completion nor an
\* edit reaches its identifier, its version and its hashes.
Descends ==
    /\ table \in Seq({table[k] : k \in DOMAIN table})
    /\ \A k \in DOMAIN table :
          /\ IsRow(table[k])
          /\ \E e \in emitted : /\ e.id = table[k].id /\ e.version = table[k].version
                                /\ e.prevHash = table[k].prevHash
                                /\ e.selfHash = table[k].selfHash
    /\ \A e \in emitted : IsRow(e) /\ e.result = Null /\ SealedAsWritten(e)

\* As long as nobody edits or deletes rows, the seals are those of the rows, every
\* sealed row names the sealed row before it, and the rows are those emitted.
Honest ==
    ~ doctored =>
        /\ \A k \in DOMAIN table :
              /\ SealedAsWritten(table[k])
              /\ table[k].selfHash # Null =>
                    table[k].prevHash
                      = Auditor!Expected(table, Auditor!Sealed(table, 1), Null, k)
              /\ \E e \in emitted : Kept(e, table[k])
        /\ \A e \in emitted : \E k \in DOMAIN table : Kept(e, table[k])

AuditInv == Descends /\ Honest


\* The updates of a row, field by field.
LEMMA RowUpdates ==
    ASSUME NEW r, IsRow(r), NEW x
    PROVE  /\ [r EXCEPT !.result = x] = [id |-> r.id, body |-> r.body, prevHash |-> r.prevHash,
                                         version |-> r.version, result |-> x, selfHash |-> r.selfHash]
           /\ [r EXCEPT !.body = x] = [id |-> r.id, body |-> x, prevHash |-> r.prevHash,
                                       version |-> r.version, result |-> r.result,
                                       selfHash |-> r.selfHash]
  BY DEF IsRow

\* The members of a sequence are what it is a sequence of.
LEMMA SeqOfMembers ==
    ASSUME NEW S, NEW t \in Seq(S)
    PROVE  /\ t \in Seq({t[k] : k \in DOMAIN t})
           /\ Len(t) \in Nat /\ DOMAIN t = 1..Len(t)
<1>1. Len(t) \in Nat /\ DOMAIN t = 1..Len(t) /\ t \in [1..Len(t) -> S]
  BY LenProperties
<1>2. t \in [1..Len(t) -> {t[k] : k \in DOMAIN t}]
  BY <1>1
<1> QED BY <1>1, <1>2, SeqDef

\* A bounded nonempty set of numbers has a greatest element, and only one.
LEMMA SetHasGreatest ==
    ASSUME NEW n \in Nat, NEW T \in SUBSET (0..n), T # {}
    PROVE  \E m \in T : \A k \in T : k <= m
<1> DEFINE U == {u \in Nat : \A k \in T : k <= u}
<1>1. U \in SUBSET Nat /\ n \in U
  OBVIOUS
<1>2. PICK m \in U : \A u \in U : m <= u
  BY <1>1, SetHasLeast
<1>3. m \in T
  <2> SUFFICES ASSUME m \notin T PROVE FALSE
    OBVIOUS
  <2>1. \A k \in T : k <= m - 1
    BY <1>2
  <2>2. m - 1 \in Nat
    <3>1. PICK k \in T : TRUE
      OBVIOUS
    <3>2. k \in Nat /\ k <= m - 1
      BY <2>1
    <3> QED BY <1>2, <3>2
  <2>3. m - 1 \in U
    BY <2>1, <2>2
  <2> QED BY <1>2, <2>3
<1> QED BY <1>2, <1>3

LEMMA MaxChosen ==
    ASSUME NEW T \in SUBSET Nat, NEW m \in T, \A k \in T : k <= m
    PROVE  Auditor!Max(T) = m
<1> DEFINE z == Auditor!Max(T)
<1>1. z \in T /\ \A k \in T : k <= z
  BY DEF Auditor!Max
<1>2. z \in Nat /\ m \in Nat
  BY <1>1
<1> HIDE DEF z
<1>3. z = m
  BY <1>1, <1>2
<1> QED BY <1>3 DEF z

LEMMA MinChosen ==
    ASSUME NEW T \in SUBSET Nat, NEW m \in T, \A k \in T : m <= k
    PROVE  Auditor!Min(T) = m
<1> DEFINE z == Auditor!Min(T)
<1>1. z \in T /\ \A k \in T : z <= k
  BY DEF Auditor!Min
<1>2. z \in Nat /\ m \in Nat
  BY <1>1
<1> HIDE DEF z
<1>3. z = m
  BY <1>1, <1>2
<1> QED BY <1>3 DEF z

\* What a row has to name depends on the hashes before it alone.
LEMMA ExpectedKept ==
    ASSUME NEW t, NEW u, NEW k \in Nat, NEW anchor, Len(t) \in Nat, Len(u) \in Nat,
           k - 1 <= Len(t), k - 1 <= Len(u),
           \A j \in 1..(k - 1) : t[j].selfHash = u[j].selfHash
    PROVE  Auditor!Expected(t, Auditor!Sealed(t, 1), anchor, k)
             = Auditor!Expected(u, Auditor!Sealed(u, 1), anchor, k)
<1> DEFINE before == {j \in Auditor!Sealed(t, 1) : j < k}
           after == {j \in Auditor!Sealed(u, 1) : j < k}
<1>1. before = after
  BY DEF Auditor!Sealed
<1>2. before \in SUBSET (0..Len(t)) /\ before \in SUBSET (1..(k - 1))
  BY DEF Auditor!Sealed
<1> HIDE DEF before, after
<1>3. /\ Auditor!Expected(t, Auditor!Sealed(t, 1), anchor, k)
           = IF before = {} THEN anchor ELSE t[Auditor!Max(before)].selfHash
      /\ Auditor!Expected(u, Auditor!Sealed(u, 1), anchor, k)
           = IF after = {} THEN anchor ELSE u[Auditor!Max(after)].selfHash
  BY DEF Auditor!Expected, before, after
<1>4. CASE before = {}
  BY <1>1, <1>3, <1>4
<1>5. CASE before # {}
  <2>1. PICK m \in before : \A j \in before : j <= m
    BY <1>2, <1>5, SetHasGreatest
  <2>2. Auditor!Max(before) = m
    BY <1>2, <2>1, MaxChosen
  <2>3. t[m].selfHash = u[m].selfHash
    BY <1>2, <2>1
  <2> QED BY <1>1, <1>3, <1>5, <2>2, <2>3
<1> QED BY <1>4, <1>5


\* A new row stands after those of the table and names the last sealed one.
LEMMA AddKeeps ==
    ASSUME AuditInv, NEW row, Add(row), IsRow(row), row.result = Null,
           SealedAsWritten(row), row.selfHash # Null => row.prevHash = Top
    PROVE  AuditInv'
<1> DEFINE n == Len(table)
<1>1. n \in Nat /\ DOMAIN table = 1..n /\ table \in Seq({table[k] : k \in DOMAIN table} \cup {row})
  BY SeqOfMembers, SeqMonotonic DEF AuditInv, Descends
<1>2. table' = Append(table, row) /\ emitted' = emitted \cup {row} /\ doctored' = doctored
  BY DEF Add
<1>3. /\ table' \in Seq({table'[k] : k \in DOMAIN table'})
      /\ Len(table') = n + 1 /\ DOMAIN table' = 1..(n + 1)
      /\ table'[n + 1] = row /\ \A k \in 1..n : table'[k] = table[k]
  <2>1. /\ table' \in Seq({table[k] : k \in DOMAIN table} \cup {row})
        /\ Len(table') = n + 1
        /\ table'[n + 1] = row /\ \A k \in 1..n : table'[k] = table[k]
    BY <1>1, <1>2, AppendProperties
  <2> QED BY <2>1, SeqOfMembers
<1>4. Descends'
  <2>1. ASSUME NEW k \in DOMAIN table'
        PROVE  /\ IsRow(table'[k])
               /\ \E e \in emitted' : /\ e.id = table'[k].id /\ e.version = table'[k].version
                                      /\ e.prevHash = table'[k].prevHash
                                      /\ e.selfHash = table'[k].selfHash
    <3>1. CASE k = n + 1
      BY <1>2, <1>3, <3>1
    <3>2. CASE k # n + 1
      <4>1. k \in DOMAIN table /\ table'[k] = table[k]
        BY <1>1, <1>3, <3>2
      <4> QED BY <1>2, <4>1 DEF AuditInv, Descends
    <3> QED BY <3>1, <3>2
  <2>2. \A e \in emitted' : IsRow(e) /\ e.result = Null /\ SealedAsWritten(e)
    BY <1>2 DEF AuditInv, Descends
  <2> QED BY <1>3, <2>1, <2>2 DEF Descends, IsRow, SealedAsWritten
<1>5. ASSUME ~ doctored, NEW k \in DOMAIN table'
      PROVE  /\ SealedAsWritten(table'[k])
             /\ table'[k].selfHash # Null =>
                   table'[k].prevHash
                     = Auditor!Expected(table', Auditor!Sealed(table', 1), Null, k)
             /\ \E e \in emitted' : Kept(e, table'[k])
  <2>1. Auditor!Expected(table', Auditor!Sealed(table', 1), Null, k)
          = Auditor!Expected(table, Auditor!Sealed(table, 1), Null, k)
    BY <1>1, <1>3, ExpectedKept
  <2>2. CASE k = n + 1
    BY <1>2, <1>3, <2>1, <2>2 DEF Top, Kept
  <2>3. CASE k # n + 1
    <3>1. k \in DOMAIN table /\ table'[k] = table[k]
      BY <1>1, <1>3, <2>3
    <3> QED BY <1>2, <1>5, <2>1, <3>1 DEF AuditInv, Honest
  <2> QED BY <2>2, <2>3
<1>6. ASSUME ~ doctored, NEW e \in emitted'
      PROVE  \E k \in DOMAIN table' : Kept(e, table'[k])
  <2>1. CASE e = row
    BY <1>1, <1>3, <2>1 DEF Kept
  <2>2. CASE e # row
    <3>1. PICK k \in DOMAIN table : Kept(e, table[k])
      BY <1>2, <1>6, <2>2 DEF AuditInv, Honest
    <3>2. k \in DOMAIN table' /\ table'[k] = table[k]
      BY <1>1, <1>3
    <3> QED BY <3>1, <3>2
  <2> QED BY <2>1, <2>2
<1>7. Honest'
  BY <1>2, <1>5, <1>6 DEF Honest, SealedAsWritten, Kept
<1> QED BY <1>4, <1>7 DEF AuditInv

\* What an assignment to one position of the table leaves.
InPlace(k, r) ==
    /\ table' \in Seq({table'[j] : j \in DOMAIN table'})
    /\ Len(table') = Len(table) /\ DOMAIN table' = DOMAIN table
    /\ \A j \in DOMAIN table : table'[j] = IF j = k THEN r ELSE table[j]

Assigns(k, r) == table' = [table EXCEPT ![k] = r]

LEMMA Assigned ==
    ASSUME Descends, NEW k \in DOMAIN table, NEW r, Assigns(k, r)
    PROVE  InPlace(k, r)
<1> DEFINE S == {table[j] : j \in DOMAIN table} \cup {r}
<1>1. table \in Seq(S) /\ DOMAIN table = 1..Len(table)
  BY SeqOfMembers, SeqMonotonic DEF Descends
<1>2. r \in S
  OBVIOUS
<1> HIDE DEF S
<1>3. /\ table' \in Seq(S) /\ Len(table') = Len(table)
      /\ \A j \in 1..Len(table) : table'[j] = IF j = k THEN r ELSE table[j]
  BY <1>1, <1>2, ExceptSeq DEF Assigns
<1>4. table' \in Seq({table'[j] : j \in DOMAIN table'}) /\ DOMAIN table' = 1..Len(table')
  BY <1>3, SeqOfMembers
<1> QED BY <1>1, <1>3, <1>4 DEF InPlace

\* A row rewritten in place keeps its identifier, its version and its hashes; if
\* it is not a doctoring its seal still holds.
LEMMA RewriteKeeps ==
    ASSUME AuditInv, NEW k \in DOMAIN table, NEW r, IsRow(r),
           InPlace(k, r), emitted' = emitted,
           r.id = table[k].id, r.version = table[k].version,
           r.prevHash = table[k].prevHash, r.selfHash = table[k].selfHash,
           doctored' \/ (doctored' = doctored /\ r.body = table[k].body)
    PROVE  AuditInv'
<1> DEFINE n == Len(table)
<1>1. n \in Nat /\ DOMAIN table = 1..n
  BY SeqOfMembers DEF AuditInv, Descends
<1>2. /\ table' \in Seq({table'[j] : j \in DOMAIN table'})
      /\ Len(table') = n /\ DOMAIN table' = 1..n
      /\ \A j \in 1..n : table'[j] = IF j = k THEN r ELSE table[j]
  BY <1>1 DEF InPlace
<1>3. \A j \in 1..n : /\ table'[j].id = table[j].id /\ table'[j].version = table[j].version
                      /\ table'[j].prevHash = table[j].prevHash
                      /\ table'[j].selfHash = table[j].selfHash
                      /\ IsRow(table'[j])
                      /\ doctored' \/ table'[j].body = table[j].body
  BY <1>1, <1>2 DEF AuditInv, Descends
<1>4. Descends'
  <2>1. ASSUME NEW j \in DOMAIN table'
        PROVE  /\ IsRow(table'[j])
               /\ \E e \in emitted' : /\ e.id = table'[j].id /\ e.version = table'[j].version
                                      /\ e.prevHash = table'[j].prevHash
                                      /\ e.selfHash = table'[j].selfHash
    <3>1. j \in DOMAIN table /\ j \in 1..n
      BY <1>1, <1>2
    <3>2. \E e \in emitted : /\ e.id = table[j].id /\ e.version = table[j].version
                             /\ e.prevHash = table[j].prevHash
                             /\ e.selfHash = table[j].selfHash
      BY <3>1 DEF AuditInv, Descends
    <3>3. emitted' = emitted
      OBVIOUS
    <3> HIDE DEF n
    <3> QED BY <1>3, <3>1, <3>2, <3>3, Zenon
  <2> QED BY <1>2, <2>1 DEF AuditInv, Descends, IsRow, SealedAsWritten
<1>5. ASSUME ~ doctored', NEW j \in DOMAIN table'
      PROVE  /\ SealedAsWritten(table'[j])
             /\ table'[j].selfHash # Null =>
                   table'[j].prevHash
                     = Auditor!Expected(table', Auditor!Sealed(table', 1), Null, j)
             /\ \E e \in emitted : Kept(e, table'[j])
  <2>1. Auditor!Expected(table', Auditor!Sealed(table', 1), Null, j)
          = Auditor!Expected(table, Auditor!Sealed(table, 1), Null, j)
    <3>1. /\ j \in Nat /\ Len(table) \in Nat /\ Len(table') \in Nat
          /\ j - 1 <= Len(table) /\ j - 1 <= Len(table')
      BY <1>1, <1>2
    <3>2. \A i \in 1..(j - 1) : table'[i].selfHash = table[i].selfHash
      BY <1>1, <1>2, <1>3
    <3> QED BY <3>1, <3>2, ExpectedKept
  <2>2. /\ SealedAsWritten(table[j])
        /\ table[j].selfHash # Null =>
              table[j].prevHash
                = Auditor!Expected(table, Auditor!Sealed(table, 1), Null, j)
        /\ \E e \in emitted : Kept(e, table[j])
    BY <1>1, <1>2, <1>5 DEF AuditInv, Honest
  <2>3. SealOf(table'[j]) = SealOf(table[j]) /\ table'[j].body = table[j].body
    BY <1>2, <1>3, <1>5 DEF SealOf
  <2>4. \E e \in emitted : Kept(e, table'[j])
    BY <1>2, <1>3, <2>2, <2>3 DEF Kept
  <2> QED BY <1>2, <1>3, <2>1, <2>2, <2>3, <2>4 DEF SealedAsWritten
<1>6. ASSUME ~ doctored', NEW e \in emitted
      PROVE  \E j \in DOMAIN table' : Kept(e, table'[j])
  <2>1. PICK j \in DOMAIN table : Kept(e, table[j])
    BY <1>6 DEF AuditInv, Honest
  <2> QED BY <1>1, <1>2, <1>3, <1>6, <2>1 DEF Kept
<1>7. Honest'
  BY <1>5, <1>6 DEF Honest, SealedAsWritten, Kept
<1> QED BY <1>4, <1>7 DEF AuditInv

\* A deletion leaves rows that were there.
LEMMA DeleteKeeps == ASSUME AuditInv, NEW k \in DOMAIN table, Delete(k) PROVE AuditInv'
<1> DEFINE n == Len(table)
           S == {table[j] : j \in DOMAIN table}
<1>1. n \in Nat /\ DOMAIN table = 1..n /\ table \in Seq(S)
  BY SeqOfMembers DEF AuditInv, Descends
<1>2. /\ table' = SubSeq(table, 1, k - 1) \o SubSeq(table, k + 1, n)
      /\ doctored' /\ emitted' = emitted
  BY DEF Delete
<1>3. SubSeq(table, 1, k - 1) \in Seq(S) /\ SubSeq(table, k + 1, n) \in Seq(S)
  <2>1. /\ k - 1 \in Int /\ k + 1 \in Int /\ n \in Int /\ \A j \in 1..n : table[j] \in S
        /\ 1..(k - 1) \subseteq 1..n /\ (k + 1)..n \subseteq 1..n
    BY <1>1
  <2>2. (\A j \in 1..(k - 1) : table[j] \in S) /\ \A j \in (k + 1)..n : table[j] \in S
    BY <2>1, Zenon
  <2> HIDE DEF S, n
  <2>3. SubSeq(table, 1, k - 1) \in Seq(S)
    BY <2>1, <2>2, SubSeqProperties
  <2>4. SubSeq(table, k + 1, n) \in Seq(S)
    BY <2>1, <2>2, SubSeqProperties
  <2> QED BY <2>3, <2>4 DEF n
<1>4. table' \in Seq(S)
  BY <1>2, <1>3, ConcatProperties
<1>5. table' \in Seq({table'[j] : j \in DOMAIN table'}) /\ \A j \in DOMAIN table' : table'[j] \in S
  BY <1>4, SeqOfMembers, ElementOfSeq
<1>6. \A j \in DOMAIN table' : \E l \in DOMAIN table : table'[j] = table[l]
  BY <1>5
<1>7. Descends'
  <2>1. ASSUME NEW j \in DOMAIN table'
        PROVE  /\ IsRow(table'[j])
               /\ \E e \in emitted' : /\ e.id = table'[j].id /\ e.version = table'[j].version
                                      /\ e.prevHash = table'[j].prevHash
                                      /\ e.selfHash = table'[j].selfHash
    <3>1. PICK l \in DOMAIN table : table'[j] = table[l]
      BY <1>6
    <3>2. /\ IsRow(table[l])
          /\ \E e \in emitted : /\ e.id = table[l].id /\ e.version = table[l].version
                                /\ e.prevHash = table[l].prevHash
                                /\ e.selfHash = table[l].selfHash
      BY DEF AuditInv, Descends
    <3>3. emitted' = emitted
      BY <1>2
    <3> QED BY <3>1, <3>2, <3>3, Zenon
  <2>2. \A e \in emitted' : IsRow(e) /\ e.result = Null /\ SealedAsWritten(e)
    BY <1>2 DEF AuditInv, Descends
  <2> QED BY <1>5, <2>1, <2>2 DEF Descends, IsRow, SealedAsWritten
<1> QED BY <1>2, <1>7 DEF AuditInv, Honest

\* The life of a journal keeps its rows what they were emitted as, up to bodies
\* and results.
LEMMA AuditInvariance == AuditSpec => []AuditInv
<1>1. AuditInit => AuditInv
  BY DEF AuditInit, AuditInv, Descends, Honest
<1>2. ASSUME AuditInv, [AuditNext]_auditVars PROVE AuditInv'
  <2>1. ASSUME NEW i \in Ids, NEW b \in Bodies, Emit(i, b) PROVE AuditInv'
    <3> DEFINE row == [id |-> i, body |-> b, prevHash |-> Top, version |-> 2,
                       result |-> Null, selfHash |-> <<i, b, Top, 2>>]
    <3>1. Add(row)
      BY <2>1 DEF Emit, Bare, SealOf
    <3> QED BY <1>2, <3>1, AddKeeps DEF IsRow, SealedAsWritten, SealOf
  <2>2. ASSUME NEW i \in Ids, NEW b \in Bodies, EmitLegacy(i, b) PROVE AuditInv'
    <3> DEFINE row(seal) == [id |-> i, body |-> b, prevHash |-> Top, version |-> 1,
                             result |-> Null, selfHash |-> seal]
    <3>1. PICK seal \in {<<i, b, Top, 1>>, <<"v1", i>>} : Add(row(seal))
      BY <2>2 DEF EmitLegacy, Bare, SealOf
    <3> QED BY <1>2, <3>1, AddKeeps DEF IsRow, SealedAsWritten, SealOf
  <2>3. ASSUME NEW i \in Ids, NEW b \in Bodies, Bypass(i, b) PROVE AuditInv'
    <3> DEFINE row == [id |-> i, body |-> b, prevHash |-> Null, version |-> 1,
                       result |-> Null, selfHash |-> Null]
    <3>1. Add(row)
      BY <2>3 DEF Bypass, Bare
    <3> QED BY <1>2, <3>1, AddKeeps DEF IsRow, SealedAsWritten
  <2>4. ASSUME NEW k \in DOMAIN table, NEW x, Complete(k, x) PROVE AuditInv'
    <3> DEFINE r == [table[k] EXCEPT !.result = x]
    <3>1. IsRow(table[k]) /\ InPlace(k, r) /\ UNCHANGED <<emitted, doctored>>
      BY <1>2, <2>4, Assigned DEF Assigns, Complete, AuditInv, Descends
    <3>2. /\ IsRow(r) /\ r.id = table[k].id /\ r.version = table[k].version
          /\ r.prevHash = table[k].prevHash /\ r.selfHash = table[k].selfHash /\ r.body = table[k].body
      BY <3>1, RowUpdates DEF IsRow
    <3> QED BY <1>2, <3>1, <3>2, RewriteKeeps
  <2>5. ASSUME NEW k \in DOMAIN table, NEW x, Edit(k, x) PROVE AuditInv'
    <3> DEFINE r == [table[k] EXCEPT !.body = x]
    <3>1. IsRow(table[k]) /\ InPlace(k, r) /\ emitted' = emitted /\ doctored'
      BY <1>2, <2>5, Assigned DEF Assigns, Edit, AuditInv, Descends
    <3>2. /\ IsRow(r) /\ r.id = table[k].id /\ r.version = table[k].version
          /\ r.prevHash = table[k].prevHash /\ r.selfHash = table[k].selfHash
      BY <3>1, RowUpdates DEF IsRow
    <3> QED BY <1>2, <3>1, <3>2, RewriteKeeps
  <2>6. ASSUME NEW k \in DOMAIN table, Delete(k) PROVE AuditInv'
    BY <1>2, <2>6, DeleteKeeps
  <2>7. CASE UNCHANGED auditVars
    <3>1. table' = table /\ emitted' = emitted /\ doctored' = doctored
      BY <2>7 DEF auditVars
    <3>2. Descends'
      BY <1>2, <3>1 DEF AuditInv, Descends, IsRow, SealedAsWritten
    <3>3. Honest'
      BY <1>2, <3>1 DEF AuditInv, Honest, SealedAsWritten, Kept
    <3> QED BY <3>2, <3>3 DEF AuditInv
  <2> QED BY <1>2, <2>1, <2>2, <2>3, <2>4, <2>5, <2>6, <2>7 DEF AuditNext
<1>3. AuditInv /\ [AuditNext]_auditVars => AuditInv'
  BY <1>2
<1> QED BY <1>1, <1>3, PTL DEF AuditSpec

\* A seal is verified when it can be computed again, and without its bytes one of
\* the first version is not called wrong.
LEMMA SealVerdict ==
    ASSUME NEW r, r.selfHash # Null, SealedAsWritten(r)
    PROVE  /\ r.version \in {1, 2}
           /\ Auditor!SealState(r)
                = IF SealOf(r) = r.selfHash THEN "VERIFIED" ELSE "UNVERIFIABLE_LEGACY"
<1>1. CASE r.version \in {1, 2} /\ r.selfHash = SealOf(r)
  BY <1>1 DEF Auditor!SealState
<1>2. CASE r.version = 1 /\ r.selfHash = <<"v1", r.id>>
  <2>1. SealOf(r) # r.selfHash
    BY <1>2 DEF SealOf
  <2> QED BY <1>2, <2>1 DEF Auditor!SealState
<1> QED BY <1>1, <1>2 DEF SealedAsWritten

\* The sealed rows from one position on.
LEMMA SealedRows ==
    ASSUME Descends, NEW from \in Nat \ {0}
    PROVE  /\ Len(table) \in Nat /\ DOMAIN table = 1..Len(table)
           /\ Auditor!Sealed(table, from) \in SUBSET (1..Len(table))
           /\ \A k \in Auditor!Sealed(table, from) :
                 k \in DOMAIN table /\ table[k].selfHash # Null
<1>1. Len(table) \in Nat /\ DOMAIN table = 1..Len(table)
  BY SeqOfMembers DEF Descends
<1> QED BY <1>1 DEF Auditor!Sealed

\* The last sealed row before another one is the same in a part of a table and in
\* the whole: a link that holds in the whole holds in the part.
LEMMA LinkInPart ==
    ASSUME NEW t, Len(t) \in Nat, NEW from \in Nat \ {0}, NEW anchor,
           NEW k \in Auditor!Sealed(t, from),
           (\A j \in Auditor!Sealed(t, from) : k <= j) => t[k].prevHash = anchor,
           t[k].prevHash = Auditor!Expected(t, Auditor!Sealed(t, 1), Null, k)
    PROVE  t[k].prevHash = Auditor!Expected(t, Auditor!Sealed(t, from), anchor, k)
<1> DEFINE seals == Auditor!Sealed(t, from)
           whole == Auditor!Sealed(t, 1)
           earlier == {j \in seals : j < k}
           before == {j \in whole : j < k}
<1>1. seals \in SUBSET (1..Len(t)) /\ k \in 1..Len(t)
  BY DEF Auditor!Sealed
<1>2. CASE earlier = {}
  <2>1. \A j \in seals : k <= j
    BY <1>1, <1>2
  <2>2. Auditor!Expected(t, seals, anchor, k) = anchor
    BY <1>2 DEF Auditor!Expected
  <2> QED BY <2>1, <2>2
<1>3. CASE earlier # {}
  <2>1. earlier \in SUBSET (0..Len(t)) /\ before \in SUBSET Nat
    BY <1>1 DEF Auditor!Sealed
  <2>2. PICK m \in earlier : \A j \in earlier : j <= m
    <3> HIDE DEF earlier
    <3> QED BY <1>3, <2>1, SetHasGreatest
  <2>3. m \in before /\ \A j \in before : j <= m
    BY <1>1, <2>2 DEF Auditor!Sealed
  <2>4. /\ Auditor!Expected(t, seals, anchor, k) = t[Auditor!Max(earlier)].selfHash
        /\ Auditor!Expected(t, whole, Null, k) = t[Auditor!Max(before)].selfHash
    BY <1>3, <2>3 DEF Auditor!Expected
  <2> HIDE DEF earlier, before
  <2>5. earlier \in SUBSET Nat
    BY <1>1, <2>1
  <2>6. Auditor!Max(earlier) = m /\ Auditor!Max(before) = m
    BY <2>1, <2>2, <2>3, <2>5, MaxChosen
  <2> QED BY <2>4, <2>6
<1> QED BY <1>2, <1>3

\* The positions of a window, and the anchor of its first row.
LEMMA WindowRows ==
    ASSUME NEW t, Len(t) \in Nat, NEW n \in Nat \ {0}
    PROVE  \E from \in Nat \ {0} :
              /\ Auditor!Window(t, n) = Auditor!Sealed(t, from)
              /\ \A k \in Auditor!Sealed(t, from) :
                    (\A j \in Auditor!Sealed(t, from) : k <= j)
                       => t[k].prevHash = t[Auditor!Min(Auditor!Sealed(t, from))].prevHash
<1> DEFINE from == IF Len(t) > n THEN Len(t) - n + 1 ELSE 1
           seals == Auditor!Sealed(t, from)
<1>1. from \in Nat \ {0} /\ Auditor!Window(t, n) = seals
  BY DEF Auditor!Window
<1> HIDE DEF from
<1>2. seals \in SUBSET Nat
  BY <1>1 DEF Auditor!Sealed
<1>3. ASSUME NEW k \in seals, \A j \in seals : k <= j PROVE Auditor!Min(seals) = k
  <2> HIDE DEF seals
  <2> QED BY <1>2, <1>3, MinChosen
<1> QED BY <1>1, <1>3

\* In an honest journal, whatever part of it is read, no row is broken.
LEMMA PartNotBroken ==
    ASSUME AuditInv, ~ doctored, NEW from \in Nat \ {0}, NEW anchor,
           \A k \in Auditor!Sealed(table, from) :
              (\A j \in Auditor!Sealed(table, from) : k <= j) => table[k].prevHash = anchor
    PROVE  Auditor!Broken(table, Auditor!Sealed(table, from), anchor) = {}
<1> DEFINE seals == Auditor!Sealed(table, from)
           whole == Auditor!Sealed(table, 1)
<1>1. SUFFICES ASSUME NEW k \in seals
               PROVE  /\ table[k].prevHash = Auditor!Expected(table, seals, anchor, k)
                      /\ Auditor!SealState(table[k]) # "INVALID"
  BY DEF Auditor!Broken
<1>2. Len(table) \in Nat /\ k \in DOMAIN table /\ table[k].selfHash # Null
  BY SealedRows DEF AuditInv
<1>3. /\ SealedAsWritten(table[k])
      /\ table[k].prevHash = Auditor!Expected(table, whole, Null, k)
  BY <1>2 DEF AuditInv, Honest
<1>4. Auditor!SealState(table[k]) # "INVALID"
  BY <1>2, <1>3, SealVerdict
<1>5. table[k].prevHash = Auditor!Expected(table, seals, anchor, k)
  BY <1>2, <1>3, LinkInPart
<1> QED BY <1>4, <1>5

\* verifyChain never reports a row of a journal nobody has touched by hand, read
\* whole or in its last rows, and only rows of version 1 whose bytes were not kept
\* make it withhold its approval: completing an intent or writing without a seal
\* changes nothing of what it says.
THEOREM HonestNeverBroken == AuditSpec => []HonestIsNotBroken
<1>1. ASSUME AuditInv PROVE HonestIsNotBroken
  <2> SUFFICES ASSUME ~ doctored
               PROVE  /\ Auditor!VerifyAll(table).brokenAt = 0
                      /\ \A n \in 1..Len(table) : Auditor!VerifyWindow(table, n).brokenAt = 0
                      /\ Auditor!VerifyAll(table).ok <=>
                            \A e \in emitted : e.selfHash \in {Null, SealOf(e)}
    BY DEF HonestIsNotBroken
  <2> DEFINE whole == Auditor!Sealed(table, 1)
  <2>1. /\ Len(table) \in Nat /\ DOMAIN table = 1..Len(table)
        /\ whole = {k \in DOMAIN table : table[k].selfHash # Null}
    BY <1>1, SealedRows DEF AuditInv, Auditor!Sealed
  <2>2. Auditor!Broken(table, whole, Null) = {}
    <3>1. ASSUME NEW k \in whole, \A j \in whole : k <= j PROVE table[k].prevHash = Null
      <4>1. {j \in whole : j < k} = {}
        BY <2>1, <3>1
      <4>2. Auditor!Expected(table, whole, Null, k) = Null
        BY <4>1 DEF Auditor!Expected
      <4> QED BY <1>1, <2>1, <4>2 DEF AuditInv, Honest
    <3> QED BY <1>1, <3>1, PartNotBroken
  <2>3. Auditor!VerifyAll(table).brokenAt = 0
    BY <2>2 DEF Auditor!VerifyAll, Auditor!VerifyChain
  <2>4. ASSUME NEW n \in 1..Len(table) PROVE Auditor!VerifyWindow(table, n).brokenAt = 0
    <3>3. Len(table) \in Nat /\ n \in Nat \ {0}
      BY <2>1
    <3>1. PICK from \in Nat \ {0} :
             /\ Auditor!Window(table, n) = Auditor!Sealed(table, from)
             /\ \A k \in Auditor!Sealed(table, from) :
                   (\A j \in Auditor!Sealed(table, from) : k <= j)
                      => table[k].prevHash
                           = table[Auditor!Min(Auditor!Sealed(table, from))].prevHash
      BY <3>3, WindowRows, Zenon
    <3> DEFINE seals == Auditor!Sealed(table, from)
               anchor == table[Auditor!Min(seals)].prevHash
    <3>2. Auditor!Broken(table, seals, anchor) = {}
      <4> HIDE DEF anchor
      <4>1. \A k \in seals : (\A j \in seals : k <= j) => table[k].prevHash = anchor
        BY <3>1 DEF anchor
      <4> QED BY <1>1, <4>1, PartNotBroken
    <3> HIDE DEF seals
    <3> QED BY <3>1, <3>2 DEF seals, Auditor!VerifyWindow, Auditor!VerifyChain
  <2>5. Auditor!Unverifiable(table, whole) = {} <=>
           \A e \in emitted : e.selfHash \in {Null, SealOf(e)}
    <3>1. \A k \in whole : Auditor!SealState(table[k])
                = IF SealOf(table[k]) = table[k].selfHash
                  THEN "VERIFIED" ELSE "UNVERIFIABLE_LEGACY"
      BY <1>1, <2>1, SealVerdict DEF AuditInv, Honest
    <3>2. Auditor!Unverifiable(table, whole) = {}
            <=> \A k \in DOMAIN table : table[k].selfHash \in {Null, SealOf(table[k])}
      BY <2>1, <3>1 DEF Auditor!Unverifiable
    <3>3. /\ \A k \in DOMAIN table : \E e \in emitted : Kept(e, table[k])
          /\ \A e \in emitted : \E k \in DOMAIN table : Kept(e, table[k])
      BY <1>1 DEF AuditInv, Honest
    <3>4. \A e \in emitted, k \in DOMAIN table :
             Kept(e, table[k]) => e.selfHash = table[k].selfHash /\ SealOf(e) = SealOf(table[k])
      BY DEF Kept, SealOf
    <3> QED BY <3>2, <3>3, <3>4
  <2>6. Auditor!VerifyAll(table).ok <=> Auditor!Unverifiable(table, whole) = {}
    BY <2>2 DEF Auditor!VerifyAll, Auditor!VerifyChain
  <2> QED BY <2>3, <2>4, <2>5, <2>6
<1>2. AuditInv => HonestIsNotBroken
  BY <1>1
<1> QED BY <1>2, AuditInvariance, PTL

\* What acceptance of a part of the table says of its rows, honest or not.
LEMMA AcceptedRows ==
    ASSUME AuditInv, NEW from \in Nat \ {0}, NEW anchor,
           Auditor!VerifyChain(table, Auditor!Sealed(table, from), anchor).ok,
           NEW k \in Auditor!Sealed(table, from)
    PROVE  /\ [table[k] EXCEPT !.result = Null] \in emitted
           /\ \A j \in Auditor!Sealed(table, from) :
                 (j < k /\ \A i \in Auditor!Sealed(table, from) : i <= j \/ k <= i)
                    => table[k].prevHash = table[j].selfHash
           /\ (\A j \in Auditor!Sealed(table, from) : k <= j) => table[k].prevHash = anchor
<1> DEFINE seals == Auditor!Sealed(table, from)
           earlier == {j \in seals : j < k}
<1>1. /\ Len(table) \in Nat /\ DOMAIN table = 1..Len(table)
      /\ seals \in SUBSET (1..Len(table)) /\ k \in DOMAIN table /\ table[k].selfHash # Null
  BY SealedRows DEF AuditInv
<1>2. Auditor!Broken(table, seals, anchor) = {} /\ Auditor!Unverifiable(table, seals) = {}
  BY DEF Auditor!VerifyChain
<1>3. table[k].prevHash = Auditor!Expected(table, seals, anchor, k)
  BY <1>2 DEF Auditor!Broken
<1>4. SealOf(table[k]) = table[k].selfHash
  BY <1>1, <1>2 DEF Auditor!Broken, Auditor!Unverifiable, Auditor!SealState
<1>5. [table[k] EXCEPT !.result = Null] \in emitted
  <2>1. PICK e \in emitted : /\ e.id = table[k].id /\ e.version = table[k].version
                             /\ e.prevHash = table[k].prevHash
                             /\ e.selfHash = table[k].selfHash
    BY <1>1 DEF AuditInv, Descends
  <2>2. IsRow(e) /\ e.result = Null /\ SealedAsWritten(e) /\ IsRow(table[k])
    BY <1>1 DEF AuditInv, Descends
  <2>3. SealOf(e) = e.selfHash
    <3>1. e.selfHash # <<"v1", e.id>>
      BY <1>4, <2>1 DEF SealOf
    <3> QED BY <1>1, <2>1, <2>2, <3>1 DEF SealedAsWritten
  <2>4. e.body = table[k].body
    BY <1>4, <2>1, <2>3 DEF SealOf
  <2>5. [table[k] EXCEPT !.result = Null]
          = [id |-> e.id, body |-> e.body, prevHash |-> e.prevHash,
             version |-> e.version, result |-> e.result, selfHash |-> e.selfHash]
    <3> DEFINE r == table[k]
    <3>1. [r EXCEPT !.result = Null]
            = [id |-> r.id, body |-> r.body, prevHash |-> r.prevHash,
               version |-> r.version, result |-> Null, selfHash |-> r.selfHash]
      <4> HIDE DEF r
      <4> QED BY <2>2, RowUpdates DEF r
    <3> QED BY <2>1, <2>2, <2>4, <3>1
  <2> QED BY <2>2, <2>5 DEF IsRow
<1>6. ASSUME NEW j \in seals, j < k, \A i \in seals : i <= j \/ k <= i
      PROVE  table[k].prevHash = table[j].selfHash
  <2>1. earlier \in SUBSET Nat /\ j \in earlier /\ \A i \in earlier : i <= j
    BY <1>1, <1>6
  <2>2. Auditor!Expected(table, seals, anchor, k) = table[Auditor!Max(earlier)].selfHash
    BY <2>1 DEF Auditor!Expected
  <2>3. Auditor!Max(earlier) = j
    <3> HIDE DEF earlier
    <3> QED BY <2>1, MaxChosen
  <2> QED BY <1>3, <2>2, <2>3
<1>7. ASSUME \A j \in seals : k <= j PROVE table[k].prevHash = anchor
  <2>1. earlier = {}
    BY <1>1, <1>7
  <2>2. Auditor!Expected(table, seals, anchor, k) = anchor
    BY <2>1 DEF Auditor!Expected
  <2> QED BY <1>3, <2>2
<1> QED BY <1>5, <1>6, <1>7

\* A journal that verifyChain accepts, whole or in its last rows, holds its sealed
\* rows as they were emitted and no hole between them, whatever was completed,
\* written unsealed, edited or deleted before: nobody can alter or drop an inner
\* sealed row unnoticed.
THEOREM AcceptedAsEmitted == AuditSpec => []AcceptedIsAsEmitted
<1>1. ASSUME AuditInv PROVE AcceptedIsAsEmitted
  <2>1. Len(table) \in Nat
    BY <1>1, SeqOfMembers DEF AuditInv, Descends
  <2> SUFFICES ASSUME NEW n \in 0..Len(table)
      PROVE LET seals == IF n = 0 THEN Auditor!Sealed(table, 1)
                                  ELSE Auditor!Window(table, n)
                verdict == IF n = 0 THEN Auditor!VerifyAll(table)
                                    ELSE Auditor!VerifyWindow(table, n)
            IN  verdict.ok =>
                  \A k \in seals :
                    /\ [table[k] EXCEPT !.result = Null] \in emitted
                    /\ \A j \in seals :
                          (j < k /\ \A i \in seals : i <= j \/ k <= i)
                             => table[k].prevHash = table[j].selfHash
                    /\ n = 0 /\ (\A j \in seals : k <= j) => table[k].prevHash = Null
    BY Zenon DEF AcceptedIsAsEmitted
  <2>2. CASE n = 0
    BY <1>1, <2>2, AcceptedRows DEF Auditor!VerifyAll
  <2>3. CASE n # 0
    <3>1. PICK from \in Nat \ {0} : Auditor!Window(table, n) = Auditor!Sealed(table, from)
      BY <2>1, <2>3, WindowRows
    <3> DEFINE seals == Auditor!Sealed(table, from)
    <3>2. ASSUME seals # {}, Auditor!VerifyWindow(table, n).ok
          PROVE  Auditor!VerifyChain(table, seals, table[Auditor!Min(seals)].prevHash).ok
      BY <3>1, <3>2 DEF Auditor!VerifyWindow
    <3> QED BY <1>1, <2>3, <3>1, <3>2, AcceptedRows
  <2> QED BY <2>2, <2>3
<1>2. AuditInv => AcceptedIsAsEmitted
  BY <1>1
<1> QED BY <1>2, AuditInvariance, PTL

-----------------------------------------------------------------------------
(***************************************************************************)
(* What an accepted table is, whoever wrote it: two theorems about the     *)
(* verifier alone.                                                         *)
(***************************************************************************)
\* The sealed rows of an accepted table are sealed by what they hold and linked.
LEMMA AcceptedTable ==
    ASSUME NEW t, Len(t) \in Nat, NEW from \in Nat \ {0}, NEW anchor,
           Auditor!VerifyChain(t, Auditor!Sealed(t, from), anchor).ok,
           NEW k \in Auditor!Sealed(t, from)
    PROVE  /\ k \in 1..Len(t) /\ t[k].selfHash # Null
           /\ Auditor!SealState(t[k]) = "VERIFIED"
           /\ SealOf(t[k]) = t[k].selfHash
           /\ t[k].prevHash = Auditor!Expected(t, Auditor!Sealed(t, from), anchor, k)
<1> DEFINE seals == Auditor!Sealed(t, from)
<1>1. k \in 1..Len(t) /\ t[k].selfHash # Null
  BY DEF Auditor!Sealed
<1>2. Auditor!Broken(t, seals, anchor) = {} /\ Auditor!Unverifiable(t, seals) = {}
  BY DEF Auditor!VerifyChain
<1>3. t[k].prevHash = Auditor!Expected(t, seals, anchor, k)
  BY <1>2 DEF Auditor!Broken
<1>4. Auditor!SealState(t[k])
        \notin {"INVALID", "UNVERIFIABLE_LEGACY", "UNSUPPORTED_VERSION"}
  BY <1>2 DEF Auditor!Broken, Auditor!Unverifiable
<1>5. Auditor!SealState(t[k]) = "VERIFIED" /\ SealOf(t[k]) = t[k].selfHash
  BY <1>1, <1>4 DEF Auditor!SealState
<1> QED BY <1>1, <1>3, <1>5

\* A table that verify-hash-chain accepts whole is accepted in each of its windows:
\* the bounded run of the script never contradicts the complete one.
THEOREM WindowsOfAccepted ==
    ASSUME NEW t, Len(t) \in Nat, Auditor!VerifyAll(t).ok, NEW n \in Nat \ {0}
    PROVE  Auditor!VerifyWindow(t, n).ok
<1>1. PICK from \in Nat \ {0} :
         /\ Auditor!Window(t, n) = Auditor!Sealed(t, from)
         /\ \A k \in Auditor!Sealed(t, from) :
               (\A j \in Auditor!Sealed(t, from) : k <= j)
                  => t[k].prevHash = t[Auditor!Min(Auditor!Sealed(t, from))].prevHash
  BY WindowRows
<1> DEFINE seals == Auditor!Sealed(t, from)
           whole == Auditor!Sealed(t, 1)
           anchor == t[Auditor!Min(seals)].prevHash
<1>2. seals \subseteq whole
  BY DEF Auditor!Sealed
<1>3. ASSUME NEW k \in seals
      PROVE  /\ Auditor!SealState(t[k]) = "VERIFIED"
             /\ t[k].prevHash = Auditor!Expected(t, seals, anchor, k)
  <2>1. /\ Auditor!SealState(t[k]) = "VERIFIED"
        /\ t[k].prevHash = Auditor!Expected(t, whole, Null, k)
    BY <1>2, AcceptedTable DEF Auditor!VerifyAll
  <2>2. (\A j \in seals : k <= j) => t[k].prevHash = anchor
    BY <1>1
  <2> HIDE DEF anchor
  <2> QED BY <2>1, <2>2, LinkInPart
<1>4. Auditor!Broken(t, seals, anchor) = {} /\ Auditor!Unverifiable(t, seals) = {}
  BY <1>3 DEF Auditor!Broken, Auditor!Unverifiable
<1> HIDE DEF seals
<1> QED BY <1>1, <1>4 DEF seals, Auditor!VerifyWindow, Auditor!VerifyChain

\* One direction of the theorem below: going down from the last sealed row, each
\* sealed row of one table is found in the other, since the row above names it.
LEMMA SealsCarriedOver ==
    ASSUME NEW t, NEW u, Len(t) \in Nat, Len(u) \in Nat,
           Auditor!VerifyAll(t).ok, Auditor!VerifyAll(u).ok,
           Auditor!Expected(t, Auditor!Sealed(t, 1), Null, Len(t) + 1)
             = Auditor!Expected(u, Auditor!Sealed(u, 1), Null, Len(u) + 1)
    PROVE  \A k \in Auditor!Sealed(t, 1) : \E l \in Auditor!Sealed(u, 1) :
              t[k].selfHash = u[l].selfHash
<1> DEFINE S == Auditor!Sealed(t, 1)
           R == Auditor!Sealed(u, 1)
           Found(k) == \E l \in R : t[k].selfHash = u[l].selfHash
           lost == {k \in S : ~ Found(k)}
<1>1. S \in SUBSET (0..Len(t)) /\ R \in SUBSET (0..Len(u))
  BY DEF Auditor!Sealed
<1>2. SUFFICES ASSUME lost # {} PROVE FALSE
  OBVIOUS
<1>3. PICK k \in lost : \A j \in lost : j <= k
  <2>1. lost \in SUBSET (0..Len(t))
    BY <1>1
  <2> HIDE DEF lost
  <2> QED BY <1>2, <2>1, SetHasGreatest
\* What a row of one of the tables names, or its end, is in that table.
<1>4. ASSUME NEW h, h # Null, NEW l \in Nat, h = Auditor!Expected(u, R, Null, l)
      PROVE  \E i \in R : h = u[i].selfHash
  <2> DEFINE earlier == {j \in R : j < l}
  <2>1. earlier # {} /\ h = u[Auditor!Max(earlier)].selfHash
    BY <1>4 DEF Auditor!Expected
  <2>2. earlier \in SUBSET (0..Len(u)) /\ earlier \in SUBSET Nat
    BY <1>1
  <2> HIDE DEF earlier
  <2>3. PICK m \in earlier : \A j \in earlier : j <= m
    BY <2>1, <2>2, SetHasGreatest
  <2>4. Auditor!Max(earlier) = m
    BY <2>2, <2>3, MaxChosen
  <2> QED BY <2>1, <2>3, <2>4 DEF earlier
\* Row k is named by the next sealed row of t, or is the last one.
<1>5. ASSUME NEW n \in Nat, k < n, \A j \in S : j < n => j <= k
      PROVE  Auditor!Expected(t, S, Null, n) = t[k].selfHash
  <2> DEFINE earlier == {j \in S : j < n}
  <2>1. k \in earlier /\ earlier \in SUBSET Nat /\ \A j \in earlier : j <= k
    BY <1>1, <1>5
  <2>2. Auditor!Max(earlier) = k
    <3> HIDE DEF earlier
    <3> QED BY <2>1, MaxChosen
  <2> QED BY <2>1, <2>2 DEF Auditor!Expected
<1>6. k \in S /\ ~ Found(k) /\ t[k].selfHash # Null
  BY DEF Auditor!Sealed
<1> DEFINE later == {j \in S : k < j}
<1>7. CASE later = {}
  <2>1. Len(t) + 1 \in Nat /\ k < Len(t) + 1 /\ \A j \in S : j <= k
    BY <1>1, <1>6, <1>7
  <2>2. t[k].selfHash = Auditor!Expected(u, R, Null, Len(u) + 1)
    BY <1>5, <2>1
  <2>3. Len(u) + 1 \in Nat
    OBVIOUS
  <2> HIDE DEF R
  <2>4. \E i \in R : t[k].selfHash = u[i].selfHash
    BY <1>4, <1>6, <2>2, <2>3
  <2> QED BY <1>6, <2>4 DEF R
<1>8. CASE later # {}
  <2>1. PICK n \in later : \A j \in later : n <= j
    <3>1. later \in SUBSET Nat
      BY <1>1
    <3> HIDE DEF later
    <3> QED BY <1>8, <3>1, SetHasLeast
  <2>2. n \in S /\ n \in Nat /\ k < n /\ \A j \in S : j < n => j <= k
    BY <1>1, <1>6, <2>1
  <2>3. n \notin lost
    BY <1>1, <1>3, <2>2
  <2>4. PICK l \in R : t[n].selfHash = u[l].selfHash
    BY <2>2, <2>3
  <2>5. SealOf(t[n]) = t[n].selfHash /\ t[n].prevHash = t[k].selfHash
    BY <1>5, <2>2, AcceptedTable DEF Auditor!VerifyAll
  <2>6. /\ SealOf(u[l]) = u[l].selfHash
        /\ u[l].prevHash = Auditor!Expected(u, R, Null, l)
    BY AcceptedTable DEF Auditor!VerifyAll
  <2>7. t[n].prevHash = u[l].prevHash
    BY <2>4, <2>5, <2>6 DEF SealOf
  <2>8. l \in Nat /\ t[k].selfHash = Auditor!Expected(u, R, Null, l)
    BY <1>1, <2>5, <2>6, <2>7
  <2> QED BY <1>4, <1>6, <2>8
<1> QED BY <1>7, <1>8

\* The last hash pins the whole history: two tables that verify-hash-chain accepts
\* and that end in the same hash hold the same sealed rows.  So the one thing the
\* script cannot see, the loss of the newest rows, shows in the last hash.
THEOREM HeadPinsHistory ==
    ASSUME NEW t, NEW u, Len(t) \in Nat, Len(u) \in Nat,
           Auditor!VerifyAll(t).ok, Auditor!VerifyAll(u).ok,
           Auditor!Expected(t, Auditor!Sealed(t, 1), Null, Len(t) + 1)
             = Auditor!Expected(u, Auditor!Sealed(u, 1), Null, Len(u) + 1)
    PROVE  {SealOf(t[k]) : k \in Auditor!Sealed(t, 1)}
             = {SealOf(u[k]) : k \in Auditor!Sealed(u, 1)}
<1>1. /\ \A k \in Auditor!Sealed(t, 1) : SealOf(t[k]) = t[k].selfHash
      /\ \A k \in Auditor!Sealed(u, 1) : SealOf(u[k]) = u[k].selfHash
  BY AcceptedTable DEF Auditor!VerifyAll
<1>2. \A k \in Auditor!Sealed(t, 1) : \E l \in Auditor!Sealed(u, 1) :
         t[k].selfHash = u[l].selfHash
  BY SealsCarriedOver
<1>3. \A k \in Auditor!Sealed(u, 1) : \E l \in Auditor!Sealed(t, 1) :
         u[k].selfHash = t[l].selfHash
  BY SealsCarriedOver
<1> QED BY <1>1, <1>2, <1>3
=============================================================================
