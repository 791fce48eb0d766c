CONSTANTS
    Workers = {w1}
    Jobs = {j1, j2}
    MaxAttempts = {1, 2}
    BatchMax = 1
    Visibility = 2
    BackoffBase = 1
    BackoffCap = 2
    HandlerBound = 2
    DrainBound = 3
    MaxFaults = 2
    NoJob = NoJob
SPECIFICATION Spec
INVARIANT RunsWithinLimit
PROPERTY BackoffElapses
PROPERTY ImplementsContract
