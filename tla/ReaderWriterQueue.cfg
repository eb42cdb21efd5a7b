SPECIFICATION Spec
CONSTANTS
    Exclusive = TRUE
    MaxSize = 1
    MaxBlockSize = 4
    Blockings = {TRUE, FALSE}
    MaxItems = 6
INVARIANT SlotsAreOwned
PROPERTY ImplementsChannel
CHECK_DEADLOCK FALSE
