SPECIFICATION Spec
CONSTANTS
    Rooms = {m1, m2}
    Agents = {x}
    Slots = {s1, s2}
    Reconciler = rc
    Serial = TRUE
    S3MayFail = FALSE
    MaxReq = 5
    MaxFail = 1
    MaxCrash = 1
    None = None
INVARIANT TypeOK
INVARIANT AgentExclusive
INVARIANT LeakOnlyAfterSpawn
PROPERTY AudioLinked
SYMMETRY Symmetry
CHECK_DEADLOCK FALSE
