CONSTANTS
    Strs = {s1, s2}
    Chars = {"a", "b"}
    NUL = NUL
    Garbage = Garbage
    LitChars = {"a", "b"}
    EmptyLit = FALSE
    PosArgs = {0}
    LenArgs = {1, 3}
    NegArgs = FALSE
    MaxMemos = 3
    CapUnit = 4
    BigCap = 256
    MaxLen = 2
    AllocFails = FALSE
    Concurrent = TRUE
    Mutable = TRUE
SPECIFICATION Spec
INVARIANT CopyReadsLiveMemo
