SPECIFICATION FairSpec
CONSTANTS
    N = 3
    EpochMax = 2
    Pools <- OtherPools
    Modes <- AnyCall
    BlockingReady = FALSE
    MayFailLaunch = TRUE
    MayFail = TRUE
    SlowWorkers = FALSE
INVARIANTS TypeOK Owned FailedMeansStopped ClosedMeansStoppedAtFirst IdlePoolHealthy TimeoutOnlyIfClosed RecoveryHonoured
PROPERTIES OperationEnds
CHECK_DEADLOCK FALSE
