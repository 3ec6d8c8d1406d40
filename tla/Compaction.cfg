\* A new gateway and an old one, as during a deployment.  Two events are enough
\* for a checkpoint, a third for one that extends its artifact; four in stages of
\* one give a stage, one that extends it, and a last one that becomes active.
CONSTANTS
    None = None
    Gateways = {g1, g2}
    NativeGateways = {g1}
    TAIL_TOKEN_BUDGET = 1
    THRESHOLD_TOKENS = 2
    MAX_SOURCE_EVENTS = 2
    BatchEvents = 1
    EventTokens = {1}
    MaxEvents = 4
    MaxEpoch = 2
    MaxGeneration = 2
    MaxAged = 2
SPECIFICATION Spec
INVARIANTS CheckpointsAreComplete NativeLineageIsWhole
PROPERTIES ActivationLosesNothing
\* bounds stop the conversation
CHECK_DEADLOCK FALSE
