SPECIFICATION FairSpec
CONSTANTS
    Workers = {w1, w2}
    Jobs = {1, 2}
    Users = {u1}
    MaxActive = 1
    MaxAttempts = 2
    BatchSize = 1
    AttemptTimeout = 1
    LeaseSafety = 1
    RetryBase = 1
    RetryMax = 1
    PollInterval = 1
    MinScheduleDelay = 1
    MaxScheduleHorizon = 1
    LastSchedule = 1
    MaxTime = 9
    MaxCrashes = 1
    Prompt = TRUE
    Bodies = {b1}
    None = None
    Owner <- OneOwner
INVARIANT AttemptHoldsLease
PROPERTY EveryJobSettles
CHECK_DEADLOCK FALSE
