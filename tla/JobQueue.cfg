SPECIFICATION FairSpec
CONSTANTS
    sweep = sweep
    notify = notify
    w1 = w1
    w2 = w2
    Jobs = {sweep, notify}
    ResetJobs = {sweep}
    Sweeps = {sweep}
    Workers = {w1, w2}
    MaxAttempts <- Attempts
    BatchSize = 2
    RetryDelay = 1
    StaleAfter = 1
    MaxNow = 2
    MaxClaims = 2
INVARIANTS
    SingleLease
    LostOnlyIfStale
    SucceededWasHandled
PROPERTIES
    OnlyHolderEnds
    ImplementsWorkQueue
    DueJobClaimed
    StaleRecovered
