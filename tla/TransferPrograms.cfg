\* Sockets: lines of up to three bytes, a password of three, four bytes of buffer, five bytes to
\* transfer; 21 units with a signal every 10, so that the last iteration signals; up to three
\* polled producers of -1 to 2 units each
SPECIFICATION TransferSpec
CONSTANTS
    MaxLine = 3
    Password = 3
    Cap = 4
    SZ = 5
    Room = 3
    NoThread = NoThread
    TOTAL_COUNT = 21
    SignalEvery = 10
    ArgValues <- Counts
    MaxArgs = 3
INVARIANTS
    TypeOK
    NoUnitLost
    StrandedBound
    PollNoUnitLost
    ExitMeansAllConsumed
    EchoNeverStuck
    StreamIntact
PROPERTIES
    CondvarAllConsumed
    ImplementsTransfer
    PollingEnds
    PollImplementsTransfer
    EchoOutcome
    TransferEnds
