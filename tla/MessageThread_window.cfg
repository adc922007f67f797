SPECIFICATION FairSpec
CONSTANTS
    Sends = {s1}
    MaxRequests = 2
    Start = 3
    MaxLog = 4
    PageSize = 1
    MaxJumps = 1
    MaxFaults = 2
    Peer = Peer
INVARIANT TypeOK
INVARIANT NeverDowngraded
INVARIANT NothingStuck
PROPERTY SendSettles
PROPERTY CatchesUp
CHECK_DEADLOCK FALSE
