\* Batches of up to three packets, an error state after two receive errors, Stop at any time.
CONSTANTS
    BatchMax = 3
    Room = 3
    FailLimit = 2
SPECIFICATION FairSpec
CHECK_DEADLOCK FALSE
INVARIANTS
    TypeOK
    BatchIsSent
    QueueFits
    StatusHonest
PROPERTIES
    StopEndsAll
