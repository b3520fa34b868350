CONSTANTS
    Prog <- MCProg
    SafeLength <- MCSafeLength
    OutputEverything <- MCOutputEverything
    NOutputs = 2
    Packets <- MCPackets
    Garbage = {0, 255}
SPECIFICATION Spec
INVARIANT TypeOK
INVARIANT FastPathInBounds
PROPERTY ImplementsClassify
CHECK_DEADLOCK FALSE
