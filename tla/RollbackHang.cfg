\* One failing pthread_create; a rollback that hangs stops everything.
CONSTANTS
    PoolSlots = 2
    QueueCapacity = 2
    MaxStarts = 1
    MaxCreateFailures = 1
SPECIFICATION Spec
PROPERTIES
    RollbackReturns
CHECK_DEADLOCK FALSE
