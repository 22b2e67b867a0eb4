\* producer_consumer_model.c, 20 units, a signal every 10
SPECIFICATION FairSpec
CONSTANTS
    NoThread = NoThread
    TOTAL_COUNT = 20
    SignalEvery = 10
PROPERTY
    AllConsumed
