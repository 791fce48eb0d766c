CONSTANTS
    Workers = {w1, w2}
    Jobs = {j1, j2}
    MaxAttempts = {2}
    BatchMax = 1
    Visibility = 2
    BackoffBase = 1
    BackoffCap = 2
    HandlerBound = 2
    DrainBound = 2
    MaxFaults = 0
    NoJob = NoJob
SPECIFICATION Spec
SYMMETRY Interchangeable
INVARIANT OneRunAtATime
PROPERTY SettledIsFinal
