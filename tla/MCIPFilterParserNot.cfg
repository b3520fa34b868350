\* One primitive, up to 4 words.
CONSTANTS
    Words <- NotWords
    MaxWords = 4
    AddrOf <- MCAddrOf
    IntOf <- MCIntOf
    ProtoDB <- MCProtoDB
    Pkts <- OtherPkts
SPECIFICATION Spec
\* configure runs once; the pattern is then fixed.
CHECK_DEADLOCK FALSE
INVARIANT NotStartsFactor
