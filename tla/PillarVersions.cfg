SPECIFICATION Spec
CONSTANTS
  Synthesis = TRUE
  Targets = {}
  Decisions = {"VALIDATED"}
  MaxChanged = 1
  Leaves = {k1, k2}
  Values = {a, b}
  Absent = Absent
  Requests = {r1, r2}
  MaxVersions = 4
  MaxMarks = 1
INVARIANTS HistoryReplays CompensatedOnce FreshAnswersMarks ApprovalIsNotCarried
PROPERTIES LaterWorkKept LatestIsReversed
SYMMETRY Perms
CHECK_DEADLOCK FALSE
