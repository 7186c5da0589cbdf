SPECIFICATION Spec
CONSTANTS
    Tasks = {a, b, c}
    Callers = {p}
    Cap = 2
    Fallible = {}
SYMMETRY Symmetry
INVARIANTS
    TypeOK
    BlockersDone
    BarrierOrder
    NoStall
