SPECIFICATION SafeSpec
CONSTANTS
    NumSockets = 2
    TcpSockets <- MCTwoTcp
    LocalPort <- MCPort
    NumFds = 4
    MaxConn = 2
    Testers = {1, 2}
    Strangers = {}
    NumActivations = 1
    ActivationNumber <- MCActivation
    OtherTypes = {}
    AuthTypes = {}
    ConfirmTypes = {}
    Targets = {4369}
    Relation = {}
    RspTarget = 4369
    RspSocket = 1
    AliveTimeout = 0
    GeneralTimeout = 0
    MaxBufs = 2
    Fragile = {}
INVARIANTS
    TypeOK
    PendingBufferAllocated
    SlotsHaveSockets
    GrantedIsRegistered
PROPERTIES
    NoTakeover
    NeverForgotten
