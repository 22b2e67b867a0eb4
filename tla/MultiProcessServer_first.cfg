\* webprogramming/multi_processor_server.c: one client is enough
SPECIFICATION Spec
CONSTANTS
    Clients = {c1}
    MaxProcs = 3
    MaxSend = 1
    Stdin = Stdin
    Closed = Closed
INVARIANT
    ChildHasConnection
