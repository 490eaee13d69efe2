SPECIFICATION FairSpec
CONSTANTS
    Runs = {r1, r2}
    NoRun = NoRun
    Edits = {e1}
    Kinds = {"upstream"}
PROPERTY OrphanIsTakenOver
CHECK_DEADLOCK FALSE
