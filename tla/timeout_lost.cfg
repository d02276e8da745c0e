SPECIFICATION Spec
CONSTANTS
    N = 2
    Capacity = 2
    Calls <- ChunkCalls
    Cuts <- EqualOnly
    GuestKernels = {1, 2}
    EpochMax = 3
    CancelMax = 1
    MaxCancels = 0
    MaxTimeouts = 1
    MayThrow = FALSE
INVARIANTS Covered
CHECK_DEADLOCK FALSE
