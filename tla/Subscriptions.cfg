SPECIFICATION FairSpec
CONSTANTS
  c = c
  y = y
  f = f
  Payments <- Three
  Rail <- Rails
  Hooks = {h1, h2}
  NoPayment = NoPayment
  Cycle = 2
  MaxClock = 2
INVARIANTS GrantedOnce PaidIsCollected DaysAreBought
PROPERTIES PaidIsFinal CollectedIsGranted
CHECK_DEADLOCK FALSE
