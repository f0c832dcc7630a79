\* One failing pthread_create at any unit of any start, and queues of one
\* place, so that a slow consumer makes its producer drop frames.
CONSTANTS
    PoolSlots = 2
    QueueCapacity = 1
    MaxStarts = 2
    MaxCreateFailures = 1
SPECIFICATION Spec
INVARIANTS
    FramesInOrder
    ThreadsAccounted
CHECK_DEADLOCK FALSE
