CONSTANTS
    Datagrams <- MCDatagrams
    Ports <- MCPorts
    Seconds <- MCSeconds
    Ips <- MCIps
    Addresses <- MCAddresses
    MapNonces <- MCNonces
    Buffers <- MCBuffers
    Reads <- MCReads
    KernelTables <- MCKernelTables
    Machines <- MCMachines
    Interfaces = {"a", "b"}
    RouteTables <- MCRouteTables
INIT Init
NEXT Next
INVARIANTS
    PacketsUnderstood
    ProtocolsApart
    
    ParserTotal
    NewsApart
    
    
    FetchedTableIsOne
    SnapshotsStable
    MajorSymmetric
    
    DefaultRouteRight
CHECK_DEADLOCK FALSE
