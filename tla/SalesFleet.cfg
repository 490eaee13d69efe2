SPECIFICATION Spec
CONSTANTS
  Runs = {r1, r2}
  Claims = {c1, c2}
  Reports = {f1, f2}
  None = None
  Usage = {1, 3}
  Settings <- MCSettings
  MaxDay = 2
INVARIANTS OneAtATime
PROPERTIES WithinTheDay ResultIsFinal
SYMMETRY Perms
CHECK_DEADLOCK FALSE
