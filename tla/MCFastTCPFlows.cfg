CONSTANTS
    NFlows = 2
    FLOWSIZE = 3
    Limited = FALSE
    LIMIT = 0
    Limits = {2}
    RingCap = 2
    MaxPulls = 5
    MaxWrites = 1
SPECIFICATION Spec
INVARIANT TypeOK
INVARIANT WireFlowsWellFormed
CHECK_DEADLOCK FALSE
