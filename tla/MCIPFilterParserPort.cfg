\* One primitive, up to 3 words.
CONSTANTS
    Words <- PortWords
    MaxWords = 3
    AddrOf <- MCAddrOf
    IntOf <- MCIntOf
    ProtoDB <- MCProtoDB
    Pkts <- OtherPkts
SPECIFICATION Spec
\* configure runs once; the pattern is then fixed.
CHECK_DEADLOCK FALSE
INVARIANT PortRelationPerSide
