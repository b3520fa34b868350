CONSTANTS
    Pkts = {p1, p2, p3}
    Short = {p1}
    NoPkt = NoPkt
    Burst = 2
    NoPad = FALSE
    TxNotify = FALSE
    BusyStops = TRUE
    AllocFails = FALSE
    QueueTimeout = 1
    MaxJiffies = 3
    MaxBusy = 2
    MaxDown = 1
SPECIFICATION Spec
INVARIANT HeldSkbLive
CHECK_DEADLOCK FALSE
