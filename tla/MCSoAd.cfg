SPECIFICATION AdaptorSpec
CONSTANTS
    NumSockets = 4
    TcpSockets <- MCTcp
    LocalPort <- MCPort
    NumFds = 5
INVARIANTS
    SoAdTypeOK
    OneListener
    DuplicateHasListener
    HandlesAgree
    DescriptorsOwned
    NoneLeaks
PROPERTIES
    PortsArePools
    PortComesBack
