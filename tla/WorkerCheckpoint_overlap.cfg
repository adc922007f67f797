CONSTANTS
    PartSize = 2
    MaxSize = 5
    MaxFaults = 0
    Prompt = FALSE
SPECIFICATION Spec
INVARIANT FinalizedIsComplete
CHECK_DEADLOCK FALSE
