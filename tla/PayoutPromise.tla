--------------------------- MODULE PayoutPromise ---------------------------
(***************************************************************************)
(* What the payout of a commission promises: the money moves once, and     *)
(* again only if the ledger has given up the transfer it asked for before  *)
(* or the one it asks for now; and the ledger says PAID once and for good, *)
(* because the money has moved or because a person has said so.            *)
(***************************************************************************)
CONSTANT Providers

VARIABLES transfers,  \* the providers that have carried out a transfer
          givenUp,    \* those whose transfer the ledger has given up
          vouched,    \* a person has declared the commission paid
          recorded    \* the commission is PAID

vars == <<transfers, givenUp, vouched, recorded>>

Init == transfers = {} /\ givenUp = {} /\ vouched = FALSE /\ recorded = FALSE

Transfer(p) ==
    /\ p \notin transfers
    /\ p \in givenUp \/ transfers \subseteq givenUp
    /\ transfers' = transfers \cup {p} /\ UNCHANGED <<givenUp, vouched, recorded>>

\* Only a commission that is not PAID is made payable again.
GiveUp ==
    /\ ~recorded
    /\ \E S \in SUBSET Providers : givenUp' = givenUp \cup S
    /\ UNCHANGED <<transfers, vouched, recorded>>

Vouch == vouched' = TRUE /\ recorded' = TRUE /\ UNCHANGED <<transfers, givenUp>>
Record ==
    /\ transfers # {} \/ vouched
    /\ recorded' = TRUE /\ UNCHANGED <<transfers, givenUp, vouched>>

Next == (\E p \in Providers : Transfer(p)) \/ GiveUp \/ Vouch \/ Record
Spec == Init /\ [][Next]_vars
=============================================================================
