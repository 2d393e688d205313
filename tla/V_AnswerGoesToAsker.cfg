SPECIFICATION SafeSpec
CONSTANTS
    NumSockets = 2
    TcpSockets <- MCTwoTcp
    LocalPort <- MCPort
    NumFds = 4
    MaxConn = 1
    Testers = {1, 2}
    Strangers = {}
    NumActivations = 1
    ActivationNumber <- MCActivation
    OtherTypes = {}
    AuthTypes = {}
    ConfirmTypes = {}
    Targets = {4369}
    Relation <- MCRelation
    RspTarget = 4369
    RspSocket = 1
    AliveTimeout = 1
    GeneralTimeout = 2
    MaxBufs = 2
    Fragile = {}
PROPERTIES
    AnswerGoesToAsker
