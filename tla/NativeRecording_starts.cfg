SPECIFICATION Spec
CONSTANTS
    Rooms = {m1}
    Agents = {x, y}
    Slots = {s1, s2}
    Reconciler = rc
    Serial = FALSE
    S3MayFail = FALSE
    MaxReq = 2
    MaxFail = 0
    MaxCrash = 0
    None = None
PROPERTY StartedOnce
CHECK_DEADLOCK FALSE
