SPECIFICATION FairSpec
CONSTANTS
    Users = {h, a}
    Host = h
    Slots = {s1, s2}
    Serial = FALSE
    Ops <- BanOps
    MaxReq = 2
    MaxConn = 2
    MaxFail = 1
    None = None
INVARIANT BannedCannotReconnect
PROPERTY BannedIsPutOut
CHECK_DEADLOCK FALSE
