CONSTANTS
    Addrs = {a1, a2, srv, nat}
    Clients = {a1, a2}
    Server = srv
    NoAddr = none
    NewSrc = nat
    NewDst = none
    IdBits = 2
    NPkts = 5
    Maps = {mp1, mp2, mp3, mp4, mp5, mp6}
    AllocFails = TRUE
    TwoOutputs = TRUE
SYMMETRY MapSymmetry
SPECIFICATION Spec
INVARIANT MapsOwnLive
INVARIANT PairsConsistent
CHECK_DEADLOCK FALSE
