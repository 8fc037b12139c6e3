SPECIFICATION Spec
CONSTANTS
    None = None
    Kind <- UdpSenders
    Tasks <- UdpSendersTasks
INVARIANTS
    TypeOK
    OnlyBrokenReplaced
    ReplacedSocketWakes
\* poll_send can block its thread, see UdpSocket_nested.cfg.
CHECK_DEADLOCK FALSE
