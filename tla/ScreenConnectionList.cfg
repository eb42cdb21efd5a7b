CONSTANTS
    Conns = {c1, c2, c3}
    Local = {c3}
    Src <- MCSrc
    Dst <- MCDst
    Port <- MCPort
    Rank <- MCRank
    MaxRows = 2
    Sizes = {0, 2}
    MaxTraffic = 1
    MaxChanges = 2
    MaxSwitchedOff = 1
    Modes <- MCModes
SPECIFICATION Spec
INVARIANTS
    ScreenIsCurrent
    NoDanglingPointer
    ListIsSorted
    WindowFits
    DetailsAreCurrent
    KeysMoveTheCursor
SYMMETRY Symmetry
CHECK_DEADLOCK FALSE
