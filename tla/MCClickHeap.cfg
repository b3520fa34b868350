CONSTANTS
    NoElem = NoElem
    Elems = {e1, e2, e3, e4}
    Keys = {1, 2, 3}
SPECIFICATION Spec
INVARIANTS HeapOrdered PositionsTracked
PROPERTIES Refines
