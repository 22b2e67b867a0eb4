\* webprogramming/multi_processor_server.c: two clients, room for four processes
SPECIFICATION FairSpec
CONSTANTS
    Clients = {c1, c2}
    MaxProcs = 4
    MaxSend = 1
    Stdin = Stdin
    Closed = Closed
INVARIANTS
    OneReader
    OnlyFirstIsMissed
PROPERTY
    ZombiesReaped
