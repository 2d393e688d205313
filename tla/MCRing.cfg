SPECIFICATION RSpec
CONSTANTS
    Byte = {0, 1}
    Capacity = 4
    MaxCount = 5
INVARIANT RingTypeOK
PROPERTIES
    FifoUnlessLost
    WrittenIsRead
CHECK_DEADLOCK FALSE
