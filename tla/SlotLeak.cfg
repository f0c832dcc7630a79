\* A stop at the wrong moment and a second start are enough.
CONSTANTS
    PoolSlots = 2
    QueueCapacity = 2
    MaxStarts = 2
    MaxCreateFailures = 0
SPECIFICATION Spec
INVARIANTS
    NoSlotLost
