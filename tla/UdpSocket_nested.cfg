SPECIFICATION FairSpec
CONSTANTS
    None = None
    Kind <- ReceiverUdpSender
    Tasks <- ReceiverUdpSenderTasks
PROPERTIES
    WriteLockGranted
\* Both tasks may block for ever, which the property is about.
CHECK_DEADLOCK FALSE
