SPECIFICATION Spec
CONSTANTS
  Workers = {w1, w2}
  Providers = {p1}
  Escrows = {e1}
  MaxOrders = 2
  MaxOpen = 2
INVARIANTS OneOrderPerOpening
PROPERTIES KeepsPromise
SYMMETRY Perms
