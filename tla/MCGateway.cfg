\* One command, two state kinds and a queue that can be full.
CONSTANTS
    Command = {c1}
    None = None
    MaxQueue = 2
    MaxDelay = 2
    MaxEmissions = 2
SPECIFICATION FairSpec
INVARIANTS
    ResultsKept
    RefusedNeverDelivered
PROPERTIES
    StatesSuperseded
    ResultsNotEvicted
    CommandsSettle
    QueueDrains
CHECK_DEADLOCK FALSE
