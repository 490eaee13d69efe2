-------------------------- MODULE EmissionJournal --------------------------
(***************************************************************************)
(* What the emission spine promises to the rest of the system, without the *)
(* lock, the transaction or the hashes that keep the promise: each         *)
(* strategy owns one journal, an emission enters a journal once, at its    *)
(* end, and the caller that asked for it is told "opened" or "refused".    *)
(* "refused" does not mean absent: a commit whose acknowledgement is lost  *)
(* leaves an entry nobody dispatches.                                      *)
(***************************************************************************)
EXTENDS Sequences

CONSTANTS Emissions,  \* identifiers drawn by cryptoRandomId
          Buckets     \* strategies, and the bucket "(none)"

VARIABLES journal,    \* journal[b]: the emissions of bucket b, oldest first
          answer      \* answer[e]: what the caller of e knows

journalVars == <<journal, answer>>

Entries(b) == {journal[b][k] : k \in DOMAIN journal[b]}

Init ==
    /\ journal = [b \in Buckets |-> <<>>]
    /\ answer = [e \in Emissions |-> "none"]

\* The emission is appended; the acknowledgement may be lost on its way back.
Enter(e, b) ==
    /\ answer[e] = "none"
    /\ \E told \in {"opened", "refused"} : answer' = [answer EXCEPT ![e] = told]
    /\ journal' = [journal EXCEPT ![b] = Append(@, e)]

Refuse(e) ==
    /\ answer[e] = "none"
    /\ answer' = [answer EXCEPT ![e] = "refused"]
    /\ UNCHANGED journal

Next == \E e \in Emissions : Refuse(e) \/ \E b \in Buckets : Enter(e, b)

Spec == Init /\ [][Next]_journalVars
=============================================================================
