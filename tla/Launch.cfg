SPECIFICATION Spec
CONSTANTS
    BufferSize = 8
    FirstFd = 3
    MaxFds = 7
    MaxFailures = 2
    MaxClients = 3
    IsTerminal = TRUE
    CommandLines <- MCCommandLines
    NumericHosts <- MCNumericHosts
    NumericPorts <- MCNumericPorts
    Hosts <- MCHosts
    Messages <- MCMessages
    StylePrefix <- MCStylePrefix
    ColorPrefix <- MCColorPrefix
    ColorSuffix <- MCColorSuffix
INVARIANTS
    
    ListensAsAsked
    LinesAreWhole
CHECK_DEADLOCK FALSE
