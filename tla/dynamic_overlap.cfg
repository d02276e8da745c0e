SPECIFICATION Spec
CONSTANTS
    N = 2
    Capacity = 3
    Calls <- DynamicCalls
    Cuts <- EqualOnly
    GuestKernels = {1, 2}
    EpochMax = 2
    CancelMax = 2
    MaxCancels = 1
    MaxTimeouts = 0
    MayThrow = FALSE
INVARIANTS RangesNeverOverlap
