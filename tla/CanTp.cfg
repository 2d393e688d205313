SPECIFICATION Spec
CONSTANTS
    BS = 2
    SnMod = 3
    BufSize = 4
    NAr = 1
    NCr = 1
    MaxRcrrp = 1
    Lengths = {1, 4, 5}
    MaxRequests = 3
    MaxFaults = 1
INVARIANTS
    CanTpTypeOK
    WholeMessage
    NoneDropped
    OneRequestAtATime
PROPERTIES
    ServedToTheEnd
    RequestEnds
