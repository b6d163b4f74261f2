SPECIFICATION Spec
CONSTANTS
    Capacity = 4
    Keys = {k1, k2, k3, k4, k5}
    Values = {a}
    MaxLoad = 5
    EMPTY = EMPTY
PROPERTIES
    CallEnds
