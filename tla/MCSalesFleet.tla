---------------------------- MODULE MCSalesFleet ----------------------------
(* SalesFleet with interchangeable tasks, claims and reports. *)
EXTENDS SalesFleet, TLC

\* A budget of two tasks, and one whose second task has too large a reservation.
MCSettings == {[budget |-> 4, reserve |-> 2, limit |-> 2], [budget |-> 5, reserve |-> 3, limit |-> 1]}

Perms == Permutations(Runs) \cup Permutations(Claims) \cup Permutations(Reports)
=============================================================================
