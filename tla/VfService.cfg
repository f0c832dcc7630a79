\* Two slots in each pool: each can be exhausted while a frame is in every
\* unit.  Two starts after the first: a slot lost at each of them.
CONSTANTS
    PoolSlots = 2
    QueueCapacity = 2
    MaxStarts = 3
    MaxCreateFailures = 0
SPECIFICATION Spec
INVARIANTS
    TypeOK
    FramesOwned
    RefsMatchHolders
    QueueHasRoom
    LossBounded
PROPERTIES
    ImplementsLine
    StopReturns
    FramesFlow
