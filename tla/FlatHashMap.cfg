SPECIFICATION Spec
CONSTANTS
    Capacity = 4
    Keys = {k1, k2, k3, k4, k5}
    Values = {a, b}
    MaxLoad = 4
    EMPTY = EMPTY
SYMMETRY Symmetry
INVARIANTS
    TypeOK
    SizeExact
    RobinHood
PROPERTIES
    Implements
