CONSTANTS
    Workers = {w1, w2}
    Jobs = {j1}
    MaxAttempts = {0, 2}
    BatchMax = 1
    Visibility = 2
    BackoffBase = 1
    BackoffCap = 2
    HandlerBound = 3
    DrainBound = 2
    MaxFaults = 2
    NoJob = NoJob
SPECIFICATION FairSpec
INVARIANT TypeOK
INVARIANT NoEarlyGiveUp
INVARIANT AttemptsWithinLimit
INVARIANT DoneMeansSucceeded
PROPERTY EveryJobSettles
