SPECIFICATION Spec
CONSTANTS
    N = 2
    EpochMax = 2
    Pools <- RestartedJs
    Modes <- Awaited
    BlockingReady = TRUE
    MayFailLaunch = FALSE
    MayFail = TRUE
    SlowWorkers = FALSE
INVARIANTS ClosedMeansStopped
