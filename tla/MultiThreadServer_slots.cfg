\* webprogramming/multi_thread_server.c: three clients, two slots, two descriptors
SPECIFICATION Spec
CONSTANTS
    Clients = {c1, c2, c3}
    NoClient = NoClient
    THREAD_LIMIT = 2
    FdLimit = 2
    MaxSend = 1
SYMMETRY ClientSymmetry
INVARIANTS
    ServesOwnClient
PROPERTIES
    ImplementsRequestReply
