SPECIFICATION FairSpec
CONSTANTS
    None = None
    Ports = {p1}
    Addrs = {a1}
    Requests = {r1, r2}
    Configs <- TwoConfigs
    Networks <- FlakyNetwork
    Reliable = FALSE
    Capacity = 1
    MaxCalls = 3
PROPERTIES
    ProbeAnswered
    PortConverges
