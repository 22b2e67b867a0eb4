\* myEpollReactor.c: two clients, two slots, two descriptors beside the listener's
SPECIFICATION FairSpec
CONSTANTS
    Clients = {c1, c2}
    NoClient = NoClient
    NoReg = NoReg
    NoReport = NoReport
    MAXEVENT = 2
    FdLimit = 3
    MaxSend = 2
    SndBuf = 1
PROPERTIES
    EveryRequestAnswered
    DisconnectNoticed
