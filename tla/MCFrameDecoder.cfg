SPECIFICATION DecSpec
CONSTANTS
    MaxSessions = 2
    MaxFragments = 4
    CtrMod = 3
    Deadband = 2
    FragGap = 1
    SessionTimeout = 2
    TickPeriod = 2
    Offered <- MCOffered
    Times <- MCTimes
    Environments <- MCEnvironments
INVARIANTS
    OpenChainsInOrder
    EmittedWhole
    ReapsOnlyDead
    TrustedIsClean
CHECK_DEADLOCK FALSE
