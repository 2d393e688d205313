SPECIFICATION Spec
CONSTANTS
    Slots = 1
    Ids = 2
    Room = 1
    AckTimeout = 0
    LinkTimeout = 0
    MaxFrames = 2
    MaxSoc = 0
INVARIANT
    KeptUntilAcknowledged
