CONSTANTS
    Pkts = {k1, k2, k3}
    Bad = {k3}
    NoPkt = NoPkt
    Capacity = 2
    DownCap = 1
    SMP = TRUE
SPECIFICATION Spec
INVARIANT TypeOK
INVARIANT FifoConserved
CHECK_DEADLOCK FALSE
