\* One channel, an acknowledged trigger; role changes, a reset and a privacy deletion.
CONSTANTS
    DISCORD_CONTEXT_SIZE = 2
    DISCORD_MAX_LOOP_ERROR_ATTEMPTS = 1
    None = None
    k1 = k1
    k2 = k2
    c1 = c1
    c2 = c2
    Channels = {c1}
    Claims = {k1, k2}
    FinalKeys = {"reply"}
    Acks <- MCAcks
    MaxSequence = 1
    MaxEpoch = 1
    MaxRouting = 1
    MaxGeneration = 2
SPECIFICATION Spec
INVARIANTS VisibleIffConfirmed OldEpochQuiet
SYMMETRY MCSymmetry
\* every claim id may be used up with all messages consumed
CHECK_DEADLOCK FALSE
