\* Two to four processes, locks on two bytes of the file
SPECIFICATION SystemSpec
CONSTANTS
    Scenarios <- AllScenarios
    Bytes = {0, 1}
INVARIANTS
    AbortBySignal
    AlarmKillsOnlyEarly
    GroupKillMissesDaemon
    HolderHasLock
PROPERTIES
    SuspendWakes
    KillFreesWaiters
