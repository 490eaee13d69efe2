----------------------------- MODULE MCPayouts -----------------------------
EXTENDS Payouts, TLC
Perms == Permutations(Workers) \cup Permutations(Providers)
=============================================================================
