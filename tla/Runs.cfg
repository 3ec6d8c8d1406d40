\* Two runs, in one thread or two, with a batch each and a stop; reconciliation of one at a time.
CONSTANTS
    None = None
    Threads = {t1, t2}
    Runs = {r1, r2}
    Stops = {s1}
    RECONCILIATION_BATCH_SIZE = 1
    CLEANUP_PAGE = 1
    MaxSequence = 1
SPECIFICATION FairSpec
INVARIANTS SettledTogether
PROPERTIES RunsSettle ImplementsThreadLedger
\* every command id may be used up and every run ended
CHECK_DEADLOCK FALSE
