\* Two slots, so that the second can fail after the first; three calls of
\* vf_service_init, so that a failed one and a complete one can precede the
\* last; as many buffers as refusals, so that the driver can run out of them.
CONSTANTS
    BufferCount = 2
    MaxRefused = 2
    PoolSlots = 2
    MaxAttempts = 3
SPECIFICATION Spec
INVARIANTS
    TypeOK
    LeftoversNamed
    UpIsComplete
    PartsOutliveUsers
    FlagsTellTruth
    DriverBuffersMapped
    BuffersNotDrained
CHECK_DEADLOCK FALSE
