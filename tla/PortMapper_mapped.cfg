SPECIFICATION FairSpec
CONSTANTS
    None = None
    Ports = {p1, p2}
    Addrs = {a1, a2}
    Requests = {r1}
    Configs <- UpnpConfigs
    Networks <- GoodNetwork
    Reliable = TRUE
    Capacity = 2
    MaxCalls = 3
PROPERTIES
    EventuallyMapped
\* The service stops when its last client is dropped.
CHECK_DEADLOCK FALSE
