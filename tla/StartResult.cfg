\* One failing pthread_create.
CONSTANTS
    PoolSlots = 2
    QueueCapacity = 2
    MaxStarts = 1
    MaxCreateFailures = 1
SPECIFICATION Spec
INVARIANTS
    UpMeansRunning
CHECK_DEADLOCK FALSE
