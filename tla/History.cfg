SPECIFICATION Spec
CONSTANTS
    Workers = {w1, w2}
    MaxGens = 3
    MaxObjects = 3
    MaxCharges = 3
SYMMETRY Symmetry
INVARIANTS
    TypeOK
    SeenIsComplete
    NotInherited
    OnlyNamed
CHECK_DEADLOCK FALSE
