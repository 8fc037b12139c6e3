SPECIFICATION Spec
CONSTANTS
    None = None
    Ports = {p1}
    Exts = {x1,x2}
    Nonces = {n1, n2, n3}
    Socks = {s1}
    Transport = "udp"
    Gateways <- PcpGateway
    Lifetimes = {3}
    Hour = 2
    Timeout = 1
    MaxRequests = 2
    Faults <- Unreliable
SYMMETRY Symmetry
INVARIANTS
    HeldAtGateway
