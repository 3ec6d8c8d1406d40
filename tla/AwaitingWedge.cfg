\* Finding: a confirmed final that nothing can finalize.
CONSTANTS
    DISCORD_CONTEXT_SIZE = 2
    DISCORD_MAX_LOOP_ERROR_ATTEMPTS = 1
    None = None
    k1 = k1
    k2 = k2
    c1 = c1
    c2 = c2
    Channels = {c1, c2}
    Claims = {k1, k2}
    FinalKeys = {"reply"}
    Acks <- MCNoAcks
    MaxSequence = 1
    MaxEpoch = 0
    MaxRouting = 1
    MaxGeneration = 0
SPECIFICATION Spec
INVARIANTS AcknowledgedSendsFinalizable
SYMMETRY MCGuildSymmetry
\* every claim id may be used up with all messages consumed
CHECK_DEADLOCK FALSE
