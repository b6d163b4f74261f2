SPECIFICATION Spec
CONSTANTS
    Par = 7
    MIN_SPREAD = 3
    MaxLevel = 1
    MaxInFlight = 2
    MaxDeltas = 6
INVARIANTS
    TypeOK
    BestExact
    NoOrphans
    NeverSelfCrossed
PROPERTIES
    Converges
CHECK_DEADLOCK FALSE
