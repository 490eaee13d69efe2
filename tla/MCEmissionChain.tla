-------------------------- MODULE MCEmissionChain --------------------------
(* The journal as the spine writes it and as the verifier reads it.  A       *)
(* behaviour is one of two: three openings for two strategies, two of whose  *)
(* three names of locks have the same hashtext; or the life of the journal   *)
(* of one strategy, with three rows of two possible bodies each, enough for  *)
(* a row with a predecessor and a successor to be edited, lost or rewritten. *)
EXTENDS EmissionChain, JournalAudit

CONSTANTS o1, o2, o3, s1, s2, l1, l2, b1, b2

MCOpenings == {o1, o2, o3}
TwoStrategies == {s1, s2}

\* Two of the three names of locks have the same hashtext.
Colliding == [b \in {s1, s2, NoBrand} |-> IF b = NoBrand THEN l2 ELSE l1]

MCIds == 1..3
MCBodies == {b1, b2}

\* Identifiers and bodies are interchangeable: the rows of an audited journal are
\* numbered as they come, and the first has the first body.
Numbered ==
    /\ {e.id : e \in emitted} = 1..Cardinality(emitted)
    /\ \A e \in emitted : e.id = 1 => e.body = b1

MCInit == Init /\ AuditInit
Opening == AuditInit /\ Next /\ UNCHANGED auditVars
Auditing == Init /\ AuditNext /\ Numbered' /\ UNCHANGED vars

MCSpec == /\ MCInit
          /\ [][Opening \/ Auditing]_<<vars, auditVars>>
          /\ Fairness
=============================================================================
