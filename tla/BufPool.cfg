\* Four threads on two slots: two sleepers beside a woken thread, and a
\* newcomer that takes the slot the woken one was signalled for.
CONSTANTS
    Threads = {t1, t2, t3, t4}
    Capacity = 2
SPECIFICATION Spec
INVARIANTS
    TypeOK
    AvailableCountsFree
    SlotsExclusive
    NoLostWakeup
    ShutdownWakesAll
PROPERTIES
    FreeSlotIsTaken
    ShutdownUnblocks
