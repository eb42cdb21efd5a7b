SPECIFICATION Spec
CONSTANTS
    Exclusive = FALSE
    Producers <- const_Producers
    MaxItems <- const_MaxItems
    BLOCK_SIZE = 2
    IMPLICIT_INITIAL_INDEX_SIZE = 2
    initialBlockPoolSize = 1
    CONSUMPTION_QUOTA = 2
INVARIANT BlocksAreOwned
PROPERTY ImplementsChannel
CHECK_DEADLOCK FALSE
