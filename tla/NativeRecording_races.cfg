SPECIFICATION FairSpec
CONSTANTS
    Rooms = {m1}
    Agents = {x}
    Slots = {s1, s2}
    Reconciler = rc
    Serial = FALSE
    S3MayFail = TRUE
    MaxReq = 3
    MaxFail = 1
    MaxCrash = 1
    None = None
INVARIANT OneRowPerRecording
INVARIANT RecoverOnlyGone
PROPERTY UpstreamEndReachesRow
CHECK_DEADLOCK FALSE
