SPECIFICATION FairSpec
CONSTANTS
    Subs = {1, 2}
    MaxRejections = 2
    MaxGen = 4
    Fid <- MCFid
    MaxFaults = 4
INVARIANT TypeOK
INVARIANT OneSocket
INVARIANT RealtimeIsOpen
INVARIANT NeverStranded
PROPERTY AccountStays
PROPERTY ImplementsLink
PROPERTY LinkComesUp
CHECK_DEADLOCK FALSE
