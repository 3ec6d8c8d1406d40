\* Two channels that take turns, one acknowledged trigger; a routing change, a reset or a
\* privacy deletion.
CONSTANTS
    DISCORD_CONTEXT_SIZE = 1
    DISCORD_MAX_LOOP_ERROR_ATTEMPTS = 1
    None = None
    k1 = k1
    k2 = k2
    c1 = c1
    c2 = c2
    Channels = {c1, c2}
    Claims = {k1, k2}
    FinalKeys = {}
    Acks <- MCAcks
    MaxSequence = 1
    MaxEpoch = 1
    MaxRouting = 2
    MaxGeneration = 0
SPECIFICATION Spec
INVARIANTS OpenTurnIsCurrent
PROPERTIES ImplementsGuildTurns
SYMMETRY MCSymmetry
\* every claim id may be used up with all messages consumed
CHECK_DEADLOCK FALSE
