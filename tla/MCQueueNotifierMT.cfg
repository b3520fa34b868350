CONSTANTS
    Capacity = 2
    NPkts = 4
    SLEEPINESS_TRIGGER = 1
    HAVE_MULTITHREAD = TRUE
    Kind = "NotifierQueue"
    ACTIVE = TRUE
    STOP = FALSE
    Limited = FALSE
    LIMIT = 0
    Limits = {2}
    MaxWrites = 2
SPECIFICATION Spec
INVARIANT TypeOK
INVARIANT FifoConserved
INVARIANT SleepingOnlyWhenEmpty
PROPERTY AcceptedLeave
PROPERTY ResumesUnlessLimitWritten
CHECK_DEADLOCK FALSE
