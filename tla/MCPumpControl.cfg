SPECIFICATION PcSpec
CONSTANTS
    Callers <- MCCallers
    KindOf <- MCKindOf
    NUrbs = 2
    MaxCalls = 2
    MaxTimeouts = 1
    MaxFaults = 1
    MaxOtas = 1
INVARIANTS
    UrbAccounting
    ControlQuiet
    AnswerTruthful
    RebootQuiet
PROPERTY
    StreamReturns
CHECK_DEADLOCK FALSE
