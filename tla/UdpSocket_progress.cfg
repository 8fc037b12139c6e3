SPECIFICATION FairSpec
CONSTANTS
    None = None
    Kind <- ReceiverRebind
    Tasks <- ReceiverRebindTasks
PROPERTIES
    WriteLockGranted
    ParkedTasksMove
