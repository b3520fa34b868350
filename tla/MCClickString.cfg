CONSTANTS
    Strs = {s1, s2}
    Chars = {"a", "b"}
    NUL = NUL
    Garbage = Garbage
    LitChars = {"a"}
    EmptyLit = TRUE
    PosArgs = {1}
    LenArgs = {1, 3}
    NegArgs = TRUE
    MaxMemos = 3
    CapUnit = 4
    BigCap = 256
    MaxLen = 3
    AllocFails = TRUE
    Concurrent = FALSE
    Mutable = TRUE
SPECIFICATION Spec
SYMMETRY StrSymmetry
INVARIANTS RefcountsExact ValuesPreserved CStrTerminated
