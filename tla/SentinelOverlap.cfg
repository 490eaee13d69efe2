SPECIFICATION QueueSpec
CONSTANTS
    MaxRow = 2
    Runs = {run1, run2}
    BatchSize = 2
INVARIANT NoRepeatAfterRecord
CHECK_DEADLOCK FALSE
