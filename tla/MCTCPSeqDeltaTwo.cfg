CONSTANTS
    SeqBits = 5
    ISN = 28
    NSegs = 5
    SegLen = 2
    Win = 3
    Resizable = {2, 3}
    GrowBy = {1, 2}
    ShrinkBy = {1}
SPECIFICATION Spec
INVARIANT AckTranslated
