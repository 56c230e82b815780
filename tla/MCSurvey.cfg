SPECIFICATION SvySpec
CONSTANTS
    QueueBound = 2
    MaxFrames = 3
    NCenters = 2
    FloorVisits = 2
    ZSquared = 1
    MaxBacklog = 1
    MaxCycles = 2
INVARIANTS
    CreditsOwnFrames
PROPERTY
    EliminationSound
CHECK_DEADLOCK FALSE
