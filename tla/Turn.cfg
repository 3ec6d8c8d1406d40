\* One turn and one later message; two faults of any kind.
CONSTANTS
    DISCORD_CONTEXT_SIZE = 2
    DISCORD_MAX_LOOP_ERROR_ATTEMPTS = 2
    MaxSequence = 2
    MaxFaults = 2
SPECIFICATION Spec
INVARIANTS ReplyIsCommitted ExplicitTurnsAreAnswered
PROPERTIES CompletedResearchIsKept TurnComesToRest
\* the turn ends
CHECK_DEADLOCK FALSE
