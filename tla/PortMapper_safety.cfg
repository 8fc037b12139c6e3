SPECIFICATION Spec
CONSTANTS
    None = None
    Ports = {p1, p2}
    Addrs = {a1, a2}
    Requests = {r1, r2}
    Configs <- MixedConfigs
    Networks <- AnyNetwork
    Reliable = FALSE
    Capacity = 2
    MaxCalls = 4
SYMMETRY Symmetry
INVARIANTS
    TypeOK
    MappingFollowsPort
    WatcherUpToDate
    ProbeAccounting
    OnlyEnabledProtocols
PROPERTIES
    WithdrawnOnlyWhenDue
