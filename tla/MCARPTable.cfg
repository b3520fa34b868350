CONSTANTS
    i1 = i1
    i2 = i2
    i3 = i3
    IPs = {i1, i2, i3}
    NPkts = 3
    PacketCapacity = 2
    EntryCapacity = 2
    Timeout = 2
    CLICK_HZ = 10
    StartJiffy = 29
    MaxTime = 34
    JiffyBits = 5
    TicksInside = FALSE
SYMMETRY IPSymmetry
SPECIFICATION Spec
INVARIANT NoFreedEntryUse
INVARIANT AgeOrdered
INVARIANT PacketsAccounted
INVARIANT WithinCapacity
