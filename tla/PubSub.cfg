SPECIFICATION PSSpec
CONSTANTS
    Topics = {"a", "a.b"}
    Levels <- MCLevels
    Subs = {"s1", "s2"}
    QueueSize <- MCQueueSize
    SubFlags <- MCFlags
    Calls <- MCCalls
    MaxMsgs = 2
    MaxDrops = 1
    NoMsg = 0
INVARIANTS
    PSTypeOK
    RefsExact
    TopicInOrder
    TopicsExact
    FreedIsUnknown
    OverflowConserved
PROPERTY
    MessagesAreFreed
CHECK_DEADLOCK FALSE
