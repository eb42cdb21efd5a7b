CONSTANTS
    Modes = {"server", "client", "local"}
    MaxAddresses = 2
    MaxPorts = 1
    MaxRequests = 1
    TTL = 1
    MaxSignals = 1
    MaxEvents = 1
SPECIFICATION FairSpec
INVARIANTS
    NoUseAfterDestroy
    ConnectorOutlivesRequest
    
    ErrorIsShownOnce
CHECK_DEADLOCK FALSE
PROPERTIES
    QuitEnds
    
