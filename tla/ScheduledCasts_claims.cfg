SPECIFICATION Spec
CONSTANTS
    Workers = {w1, w2}
    Jobs = {1}
    Users = {u1}
    MaxActive = 1
    MaxAttempts = 2
    BatchSize = 1
    AttemptTimeout = 1
    LeaseSafety = 1
    RetryBase = 1
    RetryMax = 1
    PollInterval = 1
    MinScheduleDelay = 1
    MaxScheduleHorizon = 1
    LastSchedule = 1
    MaxTime = 5
    MaxCrashes = 1
    Prompt = FALSE
    Bodies = {b1, b2}
    None = None
    Owner <- OneOwner
INVARIANT TypeOK
INVARIANT PublishedIsOnNetwork
INVARIANT NeverEarly
INVARIANT ClaimsDistinct
PROPERTY FailsOnlyByResult
PROPERTY TerminalIsFinal
PROPERTY SupersededWritesNothing
SYMMETRY Symmetry
CHECK_DEADLOCK FALSE
