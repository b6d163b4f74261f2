SPECIFICATION EntrySpec
CONSTANTS
    Posters = {p1}
    Faulty = {p1}
    Offers = {}
    MaxOpen = 1
    Clients = {1}
    MaxPrice = 3
    MaxQty = 2
    MaxResting = 2
    MaxOrders = 3
    None = None
    NoReply = NoReply
INVARIANTS
    SameProtocol
CHECK_DEADLOCK FALSE
