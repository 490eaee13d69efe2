---------------------------- MODULE JournalAudit ----------------------------
(***************************************************************************)
(* The journal of one strategy over its life, with the verifier of         *)
(* HashChain looking at it: rows are sealed and completed by the spine,    *)
(* written unsealed by the writers that bypass it, sealed in the first     *)
(* version of the format, and edited or deleted by hand in the database.   *)
(***************************************************************************)
EXTENDS Naturals, Sequences

CONSTANTS Ids, Bodies, Null

VARIABLES table,    \* the rows of the strategy by emittedAt
          emitted,  \* the rows as they were first written
          doctored  \* whether somebody edited or deleted a row by hand

auditVars == <<table, emitted, doctored>>

\* Slip, once real: the result is part of what is recomputed.
SealWithResult(row) == <<row.id, row.body, row.prevHash, row.version, row.result>>

\* computeSelfHash seals every field but the result (result: null).
SealOf(row) == <<row.id, row.body, row.prevHash, row.version>>
Auditor == INSTANCE HashChain WITH Digest <- SealOf, None <- Null

\* The hash of the last sealed row, null when there is none.
Top == Auditor!Expected(table, Auditor!Sealed(table, 1), Null, Len(table) + 1)

Bare(i, body, version) ==
    [id |-> i, body |-> body, prevHash |-> Top, version |-> version,
     result |-> Null, selfHash |-> Null]

Add(row) ==
    /\ \A e \in emitted : e.id # row.id
    /\ table' = Append(table, row)
    /\ emitted' = emitted \cup {row}
    /\ UNCHANGED doctored

AuditInit ==
    /\ table = <<>>
    /\ emitted = {}
    /\ doctored = FALSE

\* openEmission
Emit(i, body) ==
    LET bare == Bare(i, body, 2) IN Add([bare EXCEPT !.selfHash = SealOf(bare)])

\* A row of version 1 is sealed over the bytes of its day: the database gives
\* them back, and the seal can be computed again, or it does not.
EmitLegacy(i, body) ==
    LET bare == Bare(i, body, 1)
    IN  \E seal \in {SealOf(bare), <<"v1", i>>} : Add([bare EXCEPT !.selfHash = seal])

\* A writer that bypasses the spine stores neither hash.
Bypass(i, body) == Add([Bare(i, body, 1) EXCEPT !.prevHash = Null])

\* closeEmission writes the result in place.
Complete(k, result) ==
    /\ table' = [table EXCEPT ![k].result = result]
    /\ UNCHANGED <<emitted, doctored>>

\* What a row says is changed, and none of its hashes: somebody who also wrote the
\* newest hash anew is found out by nothing but a copy of that hash.
Edit(k, body) ==
    /\ table[k].body # body
    /\ table' = [table EXCEPT ![k].body = body]
    /\ doctored' = TRUE
    /\ UNCHANGED emitted

Delete(k) ==
    /\ table' = SubSeq(table, 1, k - 1) \o SubSeq(table, k + 1, Len(table))
    /\ doctored' = TRUE
    /\ UNCHANGED emitted

AuditNext ==
    \/ \E i \in Ids, b \in Bodies : Emit(i, b) \/ EmitLegacy(i, b) \/ Bypass(i, b)
    \/ \E k \in DOMAIN table : \/ \E b \in Bodies : Complete(k, b) \/ Edit(k, b)
                               \/ Delete(k)

AuditSpec == AuditInit /\ [][AuditNext]_auditVars

-----------------------------------------------------------------------------
\* The verifier never calls an honest journal altered: completing intents,
\* unsealed rows and rows of version 1 break nothing.  What it says was decided
\* when the rows were first written, and nothing done to them since changes it: it
\* approves unless a row of version 1 lies on bytes that were not kept (header of
\* hash-chain.ts: recomputing with the result flagged every completed intent).
HonestIsNotBroken ==
    ~doctored =>
        /\ Auditor!VerifyAll(table).brokenAt = 0
        /\ \A n \in 1..Len(table) : Auditor!VerifyWindow(table, n).brokenAt = 0
        /\ Auditor!VerifyAll(table).ok <=> \A e \in emitted : e.selfHash \in {Null, SealOf(e)}

\* A journal the verifier accepts, whole (n = 0) or in a window of its last n
\* rows, has sealed rows exactly as they were emitted and no hole between them:
\* an edit of a sealed row or the loss of an inner one is noticed.  Read whole it
\* starts with the first emission.  Nothing is said of the loss of the newest rows.
AcceptedIsAsEmitted ==
    \A n \in 0..Len(table) :
        LET seals == IF n = 0 THEN Auditor!Sealed(table, 1) ELSE Auditor!Window(table, n)
            verdict == IF n = 0 THEN Auditor!VerifyAll(table) ELSE Auditor!VerifyWindow(table, n)
            Adjacent(j, k) == j < k /\ \A i \in seals : i <= j \/ k <= i
        IN  verdict.ok =>
                \A k \in seals :
                    /\ [table[k] EXCEPT !.result = Null] \in emitted
                    /\ \A j \in seals : Adjacent(j, k) => table[k].prevHash = table[j].selfHash
                    /\ n = 0 /\ (\A j \in seals : k <= j) => table[k].prevHash = Null
=============================================================================
