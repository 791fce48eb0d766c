CONSTANTS
    Workers = {w1, w2}
    Jobs = {j1}
    MaxAttempts = {2}
    BatchMax = 1
    Visibility = 2
    BackoffBase = 1
    BackoffCap = 2
    HandlerBound = 2
    DrainBound = 2
    MaxFaults = 0
    NoJob = NoJob
SPECIFICATION Spec
INVARIANT RunsWithinLimit
