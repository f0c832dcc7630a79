\* Three places so that the cursors wrap at different times, three consumers
\* so that one can sleep, one be woken and one steal the frame.
CONSTANTS
    Consumers = {c1, c2, c3}
    Frames = {f1, f2}
    Capacity = 3
    NoFrame = NoFrame
    EndOfStream = EndOfStream
SPECIFICATION Spec
INVARIANTS
    TypeOK
    NoLostWakeup
    ShutdownWakesAll
PROPERTIES
    FrameIsClaimed
    ImplementsFifo
