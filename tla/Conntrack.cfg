CONSTANTS
    CounterMod = 8
    Conns = {a, b}
    RawStates = {"SYN_SENT2"}
    SocketCapacity = 2
    MaxKernelSteps = 4
    MaxCommands = 2
SPECIFICATION FairSpec
INVARIANTS
    StorageFollowsTable
    DifferenceReproducesStorage
PROPERTY StorageSettles
CHECK_DEADLOCK FALSE
