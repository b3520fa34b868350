CONSTANTS
    m1 = m1
    m2 = m2
    MACs <- MCMACs
    Frames <- MCFrames
    NPkts = 4
    window = 3
    ForgetAge = 2
    CountCap = 3
SPECIFICATION Spec
INVARIANTS UniqueStations
PROPERTIES StaleForgotten
CHECK_DEADLOCK TRUE
