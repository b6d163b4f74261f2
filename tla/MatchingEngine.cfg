SPECIFICATION Spec
CONSTANTS
    Clients = {1}
    Strangers = {2}
    PoolSize = 3
    MaxPrice = 2
    MaxQty = 2
    QtyModulus = 7
    MaxOrders = 5
    NULL = NULL
INVARIANTS
    TypeOK
    NoBlockLostOrShared
    LevelsSound
    BestsExact
    QuantityConserved
PROPERTIES
    Implements
    CallEnds
