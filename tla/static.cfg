SPECIFICATION Spec
CONSTANTS
    N = 3
    Capacity = 4
    Calls <- StaticCalls
    Cuts <- Weightings
    GuestKernels = {1, 2}
    EpochMax = 2
    CancelMax = 1
    MaxCancels = 0
    MaxTimeouts = 0
    MayThrow = TRUE
INVARIANTS TypeOK SlotInv ExactlyOnce RangesNeverOverlap SlotsReusedQuiet ReduceTiles FailureReported
PROPERTIES Refinement
