\* webprogramming/multi_thread_server.c: one client, one slot, one descriptor
SPECIFICATION FairSpec
CONSTANTS
    Clients = {c1}
    NoClient = NoClient
    THREAD_LIMIT = 1
    FdLimit = 1
    MaxSend = 1
PROPERTY
    CanAcceptAgain
