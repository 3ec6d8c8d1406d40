\* One run with up to two output events and a stop, two faults.
CONSTANTS
    None = None
    Threads = {t1}
    Runs = {r1}
    Stops = {s1}
    RECONCILIATION_BATCH_SIZE = 1
    CLEANUP_PAGE = 1
    MaxSequence = 3
    GLOBAL_CONCURRENCY = 1
    CONVEX_RETRY_ATTEMPTS = 2
    MaxFaults = 2
SPECIFICATION FairServiceSpec
INVARIANTS NeverChangedRetry AcknowledgedOutcome StreamIsContiguous
PROPERTIES StaysWithinThreadRuns EveryRunEnds
\* every command id may be used up, and Pi idle
CHECK_DEADLOCK FALSE
