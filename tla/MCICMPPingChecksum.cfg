CONSTANTS
    W = 3
    AddrWords = 2
    TypeCodes = {0, 1}
    Seqs = {0, 1}
SPECIFICATION Spec
INVARIANT ChecksumsVerify
