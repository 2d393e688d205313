SPECIFICATION Spec
CONSTANTS
    Slots = 1
    Ids = 2
    Room = 1
    AckTimeout = 0
    LinkTimeout = 0
    MaxFrames = 1
    MaxSoc = 1
INVARIANT
    SocDataIsRead
PROPERTY
    LinkGoesOn
