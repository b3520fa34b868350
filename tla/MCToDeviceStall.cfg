CONSTANTS
    Pkts = {p1, p2, p3}
    Short = {p1}
    NoPkt = NoPkt
    Burst = 2
    NoPad = FALSE
    TxNotify = TRUE
    BusyStops = TRUE
    AllocFails = TRUE
    QueueTimeout = 1
    MaxJiffies = 3
    MaxBusy = 0
    MaxDown = 1
SPECIFICATION Spec
PROPERTY PushedLeaves
CHECK_DEADLOCK FALSE
