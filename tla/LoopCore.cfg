\* One channel, a backlog of two messages in windows of one, two claims, both final keys.
CONSTANTS
    DISCORD_CONTEXT_SIZE = 1
    DISCORD_MAX_LOOP_ERROR_ATTEMPTS = 2
    None = None
    k1 = k1
    k2 = k2
    c1 = c1
    c2 = c2
    Channels = {c1}
    Claims = {k1, k2}
    FinalKeys = {"reply", "failure-closure"}
    Acks <- MCNoAcks
    MaxSequence = 2
    MaxEpoch = 0
    MaxRouting = 1
    MaxGeneration = 0
SPECIFICATION Spec
INVARIANTS WindowsInOrder PendingRepliesDeliverable ActiveRunsSpeakOnce
PROPERTIES ExplicitTriggersGetTurns
SYMMETRY MCSymmetry
\* every claim id may be used up with all messages consumed
CHECK_DEADLOCK FALSE
