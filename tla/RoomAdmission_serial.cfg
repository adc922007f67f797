SPECIFICATION Spec
CONSTANTS
    Users = {h, a}
    Host = h
    Slots = {s1}
    Serial = TRUE
    Ops <- SerialOps
    MaxReq = 4
    MaxConn = 2
    MaxFail = 0
    None = None
INVARIANT TypeOK
INVARIANT RevocationHolds
INVARIANT BanHolds
INVARIANT PresentHasRow
CHECK_DEADLOCK FALSE
