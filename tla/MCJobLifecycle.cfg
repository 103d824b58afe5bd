SPECIFICATION FairSpec
CONSTANTS
    k1 = k1
    k2 = k2
    Stoppers = {k1, k2}
    ErrorCodes = {1}
    WaitMayFail = FALSE
INVARIANT TypeOK
INVARIANT RunningIsWatched
INVARIANT StopEndsProcess
INVARIANT CleanupOnlyWhenOver
INVARIANT CompletedJobsRan
PROPERTY OverStaysOver
PROPERTY KeepsPromise
PROPERTY EndsAsPromised
PROPERTY CgroupReclaimed

