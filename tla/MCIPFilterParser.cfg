\* The grammar: every pattern of up to five structural words.
CONSTANTS
    Words <- StructWords
    MaxWords = 5
    AddrOf <- MCAddrOf
    IntOf <- MCIntOf
    ProtoDB <- MCProtoDB
    Pkts <- StructPkts
SPECIFICATION Spec
\* configure runs once; the pattern is then fixed.
CHECK_DEADLOCK FALSE
INVARIANTS
    GrammarAgrees
