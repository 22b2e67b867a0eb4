\* t_thread_cleanup.c with an argument: main() signals the thread
SPECIFICATION FairSpec
CONSTANTS
    NoThread = NoThread
    Modes = {"signal"}
PROPERTY
    SignalledEnds
