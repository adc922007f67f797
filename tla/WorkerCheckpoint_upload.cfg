CONSTANTS
    PartSize = 2
    MaxSize = 7
    MaxFaults = 4
    Prompt = TRUE
SPECIFICATION FairSpec
INVARIANTS TypeOK Insured FinalizedIsComplete
PROPERTIES ImplementsRecording ShutdownEnds
CHECK_DEADLOCK FALSE
