SPECIFICATION EntrySpec
CONSTANTS
    Posters = {p1, p2, p3, p4}
    Faulty = {p4}
    Offers <- MCOffers
    MaxOpen = 2
    Clients = {1}
    MaxPrice = 2
    MaxQty = 2
    MaxResting = 3
    MaxOrders = 4
    None = None
    NoReply = NoReply
INVARIANTS
    EntryTypeOK
    ResponseTruthful
    OrdersTraced
    BoughtIsSold
    PriorityKept
CHECK_DEADLOCK FALSE
SYMMETRY Symmetry
