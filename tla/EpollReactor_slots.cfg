\* myEpollReactor.c: four clients, two slots, three descriptors beside the listener's
SPECIFICATION Spec
CONSTANTS
    Clients = {c1, c2, c3, c4}
    NoClient = NoClient
    NoReg = NoReg
    NoReport = NoReport
    MAXEVENT = 2
    FdLimit = 4
    MaxSend = 1
    SndBuf = 1
SYMMETRY ClientSymmetry
INVARIANTS
    RegistrationsAgree
    ReportsStillValid
    DiesOnlyOnReset
PROPERTIES
    TurnedAwayOnlyWhenFull
    ImplementsRequestReply
