CONSTANTS
    TimestampMod = 3
    Clients = {c1, c2}
    ClientProtocols = {1}
    MaxUpdates = 3
    MaxClientUpdates = 0
    MaxCommands = 0
    MaxFailures = 1
    PartialSenders = {"server"}
SPECIFICATION Spec
INVARIANTS
    SyncedListIsCurrent
    NoProtocolError
SYMMETRY Symmetry
CHECK_DEADLOCK FALSE
