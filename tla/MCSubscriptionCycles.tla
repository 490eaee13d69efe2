------------------------ MODULE MCSubscriptionCycles ------------------------
EXTENDS SubscriptionCycles, TLC
CONSTANTS c, y, f
Rails == (c :> "CINETPAY") @@ (y :> "PAYPAL") @@ (f :> "FREE")
Three == {c, y, f}
=============================================================================
