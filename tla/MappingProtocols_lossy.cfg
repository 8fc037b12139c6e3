SPECIFICATION Spec
CONSTANTS
    None = None
    Ports = {p1, p2}
    Exts = {x1, x2}
    Nonces = {n1, n2, n3}
    Socks = {s1, s2}
    Transport = "udp"
    Gateways <- OtherGateways
    Lifetimes = {4, 5}
    Hour = 2
    Timeout = 1
    MaxRequests = 3
    Faults = {"lose", "delay", "offline"}
SYMMETRY Symmetry
INVARIANTS
    HeldAtGateway
ACTION_CONSTRAINT
    PromptUpnp
