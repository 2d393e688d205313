SPECIFICATION Spec
CONSTANTS
    NumSockets = 2
    TcpSockets <- MCShippedTcp
    LocalPort <- MCPort
    NumFds = 4
    MaxConn = 1
    Testers = {48879}
    Strangers = {3584}
    NumActivations = 1
    ActivationNumber <- MCActivation
    OtherTypes = {1}
    AuthTypes = {}
    ConfirmTypes = {}
    Targets = {4369}
    Relation <- MCRelation
    RspTarget = 4369
    RspSocket = 1
    AliveTimeout = 1
    GeneralTimeout = 2
    MaxBufs = 2
    Fragile = {1}
PROPERTIES
    SilentIsReleased
