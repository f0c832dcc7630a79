CONSTANTS
    BufferCount = 2
    MaxRefused = 1
SPECIFICATION CameraSpec
INVARIANTS
    SuccessMeansNewFrame
