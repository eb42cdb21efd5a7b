CONSTANTS
    Fds = {f1}
    PipeCapacity = 1
    MaxSessions = 2
    MaxPending = 3
SPECIFICATION FairSpec
INVARIANTS
    NoLostWakeup
    QueueReplays
PROPERTIES
    ReceivedIsRead
    JoinReturns
CHECK_DEADLOCK FALSE
