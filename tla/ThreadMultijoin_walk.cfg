\* thread_multijoin.c, up to three arguments
SPECIFICATION FairSpec
CONSTANTS
    NoThread = NoThread
    MaxThreads = 3
INVARIANT
    JoinedMeansJoined
