CONSTANTS
    W = 5
    WideShift = {"unchanged"}
SPECIFICATION Spec
INVARIANT DecompositionExact
CHECK_DEADLOCK FALSE
