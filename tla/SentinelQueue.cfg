SPECIFICATION FairQueueSpec
CONSTANTS
    MaxRow = 3
    Runs = {run1, run2}
    BatchSize = 2
INVARIANT RepeatsAreBounded
PROPERTY SentinelSettles
CHECK_DEADLOCK FALSE
