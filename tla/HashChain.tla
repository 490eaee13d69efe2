----------------------------- MODULE HashChain -----------------------------
(***************************************************************************)
(* The verifier of the emission journal: computeSelfHash,                  *)
(* verifyEmissionSeal and verifyChain of                                   *)
(* src/server/governance/hash-chain.ts, and the walk of                    *)
(* scripts/verify-hash-chain.ts.  A digest is an injective function of the *)
(* sealed body; it is a parameter.                                         *)
(***************************************************************************)
EXTENDS Naturals, Sequences, FiniteSetsExt

CONSTANTS Digest(_),  \* sha-256 of the canonical body: id, body, prevHash, version
          None        \* null

\* A row is [id, body, prevHash, selfHash, version]: body stands for kind,
\* strategyId, payload, caller and emittedAt.  The result is outside the seal.
SealState(row) ==
    IF row.selfHash = None THEN "UNSEALED"
    ELSE IF row.version \notin {1, 2} THEN "UNSUPPORTED_VERSION"
    ELSE IF Digest(row) = row.selfHash THEN "VERIFIED"
    ELSE IF row.version = 1 THEN "UNVERIFIABLE_LEGACY" ELSE "INVALID"

\* Only sealed rows are walked: their positions, from one position of the table on.
Sealed(table, from) == {k \in from..Len(table) : table[k].selfHash # None}

\* The hash the row at position k has to name: that of the sealed row before it.
Expected(table, seals, anchor, k) ==
    LET earlier == {j \in seals : j < k}
    IN  IF earlier = {} THEN anchor ELSE table[Max(earlier)].selfHash

\* Slip: the rows are linked but not recomputed.
BrokenLinks(table, seals, anchor) ==
    {k \in seals : table[k].prevHash # Expected(table, seals, anchor, k)}

Broken(table, seals, anchor) ==
    {k \in seals : \/ table[k].prevHash # Expected(table, seals, anchor, k)
                   \/ SealState(table[k]) = "INVALID"}

Unverifiable(table, seals) ==
    {k \in seals : SealState(table[k]) \in {"UNVERIFIABLE_LEGACY", "UNSUPPORTED_VERSION"}}

\* The loop returns at the first broken row and remembers the first row whose
\* seal could not be judged; a row is named by its position, 0 is none.
VerifyChain(table, seals, anchor) ==
    LET broken == Broken(table, seals, anchor)
        doubtful == Unverifiable(table, seals)
    IN  [ok |-> broken = {} /\ doubtful = {},
         brokenAt |-> IF broken = {} THEN 0 ELSE Min(broken),
         unverifiableAt |-> IF broken # {} \/ doubtful = {} THEN 0 ELSE Min(doubtful)]

\* The last `limit` rows, sealed or not (the 1000-row window of the script).
Window(table, limit) ==
    Sealed(table, IF Len(table) > limit THEN Len(table) - limit + 1 ELSE 1)

\* A window is anchored on the predecessor that its first sealed row names.
VerifyWindow(table, limit) ==
    LET seals == Window(table, limit)
    IN  IF seals = {} THEN [ok |-> TRUE, brokenAt |-> 0, unverifiableAt |-> 0]
        ELSE VerifyChain(table, seals, table[Min(seals)].prevHash)

VerifyAll(table) == VerifyChain(table, Sealed(table, 1), None)
=============================================================================
