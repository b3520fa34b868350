CONSTANTS
    Capacity = 2
    NPkts = 4
    SLEEPINESS_TRIGGER = 1
    HAVE_MULTITHREAD = TRUE
    Kind = "MixedQueue"
    ACTIVE = TRUE
    STOP = FALSE
    Limited = FALSE
    LIMIT = 0
    Limits = {2}
    MaxWrites = 2
SPECIFICATION Spec
INVARIANT Conserved
CHECK_DEADLOCK FALSE
