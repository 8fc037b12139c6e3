SPECIFICATION FairSpec
CONSTANTS
    Ifaces = {i1}
    NoIface = NoIface
    NoState = NoState
    Platforms <- AllPlatforms
    MonCap = 1
    ActorCap = 1
    MaxChanges = 3
    MaxCalls = 1
    MaxJumps = 1
    MaxFaults = 1
    MaxEvents = 4
INVARIANTS
    TypeOK
    NothingLost
    
PROPERTIES
    WatchSpec
    EventuallyFresh
    JumpReported
\* A monitor may be dropped, and the changes of the system are bounded.
CHECK_DEADLOCK FALSE
