\* One search of two paid requests, two attempts.
CONSTANTS
    None = None
    Slots = {s1}
    Budget = 2
    RetryAttempts = 1
    MaxGenerations = 2
    MaxTheses = 1
    Delayable = {"complete"}
    MaxDelayed = 1
SPECIFICATION FairSpec
INVARIANTS TypeOK PaymentsBeforeFailure PacketIsStored ThesisUpdatesFollowMemory
PROPERTIES PaidOnlyMissing AcceptedIsFinal AttemptsLetGo
\* an edition ends, or waits in the queue
CHECK_DEADLOCK FALSE
