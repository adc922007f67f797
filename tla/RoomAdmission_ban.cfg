SPECIFICATION Spec
CONSTANTS
    Users = {h, a}
    Host = h
    Slots = {s1, s2}
    Serial = FALSE
    Ops <- BanOps
    MaxReq = 3
    MaxConn = 2
    MaxFail = 0
    None = None
INVARIANT BanHolds
CHECK_DEADLOCK FALSE
