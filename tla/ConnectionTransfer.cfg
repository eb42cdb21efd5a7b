SPECIFICATION Spec
CONSTANTS
    PortMod = 2
    MaxChanges = 3
    MaxForeign = 1
    Faulty = {"type", "dstAddress", "updateFlags", "rxBytes"}
    Enabled = {"hostname", "geoip"}
    Flows <- MCFlows
    Known <- MCKnown
    UpdateFlags <- MCUpdateFlags
INVARIANTS
    PointersAreValues
    MirrorsServer
    EachIsResolvedOnce
CHECK_DEADLOCK FALSE
