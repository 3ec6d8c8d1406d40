\* Two guilds, one preference per page, a weekday and a weekend day, clocks that change.
CONSTANTS
    None = None
    g1 = g1
    g2 = g2
    Guilds = {g1, g2}
    Zones = {"spring", "fall"}
    Offset <- MCOffset
    Day = 4
    Settings <- MCSettings
    Cutoff = 3
    Weekend = {1}
    PageSize = 1
    LastTick = 4
    MaxUpdates = 2
    MaxMissed = 1
    Busy = {g1}
    MaxRevisions = 2
SPECIFICATION Spec
INVARIANTS OnePaperPerDate DatesRecorded
PROPERTIES StartsOnItsDate
\* the clock stops
CHECK_DEADLOCK FALSE
