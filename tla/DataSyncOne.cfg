CONSTANTS
    TimestampMod = 3
    Clients = {c1}
    ClientProtocols = {1, 2}
    MaxUpdates = 3
    MaxClientUpdates = 1
    MaxCommands = 2
    MaxFailures = 1
    PartialSenders = {"server", "client"}
SPECIFICATION TimerSpec
INVARIANTS
    SyncedListIsCurrent
    NoProtocolError
    DataInProgressIsSecured
    OneRequestInTransit
PROPERTIES
    ClosingEnds
    EveryRequestIsAnswered
CHECK_DEADLOCK FALSE
