\* A starter and two replies, two publisher processes.
CONSTANTS
    None = None
    Workers = {w1, w2}
    LastPart = 2
    RetryAttempts = 2
    MaxClaims = 4
SPECIFICATION FairSpec
INVARIANTS PublishedInFull RepliesOnceInOrder
PROPERTIES NoBlindSecondThread WorkSettles
\* a published edition is at rest
CHECK_DEADLOCK FALSE
