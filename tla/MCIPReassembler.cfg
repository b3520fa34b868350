CONSTANTS
    s1 = s1
    s2 = s2
    Segs <- MCSegs
    NMAP = 2
    Bucket <- MCBucket
    Frags <- MCFrags
    NPkts = 4
    IPH_MEM_USED = 4
    HIMEM = 30
    REAP_TIMEOUT = 2
    REAP_INTERVAL = 1
    OverfullAges <- MCOverfullAges
    MakeTs = 0
    Start = 3
    MaxTime = 6
    MemTop = 27
SYMMETRY MCSymmetry
SPECIFICATION Spec
INVARIANT ChunksWellFormed
INVARIANT MemAccounted
INVARIANT EmittedIntact
INVARIANT CompleteIsEmitted
CHECK_DEADLOCK FALSE
