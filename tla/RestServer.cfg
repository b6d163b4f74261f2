SPECIFICATION Spec
CONSTANTS
    Listener = Listener
    MaxFds = 3
    Clients = {1, 2, 3}
    Parts = 2
INVARIANTS
    TypeOK
    BuffersOwn
    ServedOnce
    NoLostEdge
    NothingLeftBehind
PROPERTIES
    ReturnsToWait
CHECK_DEADLOCK FALSE
