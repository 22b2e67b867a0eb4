\* The thread programs: five workers, up to four arguments, up to four loops
SPECIFICATION ProgSpec
CONSTANTS
    NoThread = NoThread
    THREADNUM = 5
    MaxThreads = 4
    Modes = {"cancel", "signal", "testcancel", "sleeper"}
    LoopArgs = {0, 1, 2, 3, 4}
INVARIANTS
    CountersAgree
    JoinIsSafe
    UnjoinedCounts
    CleanedUp
    GlobRange
    EndsAfterThreads
PROPERTIES
    JoinTermEnds
    CancelOutcome
    ImplementsThreadLife
