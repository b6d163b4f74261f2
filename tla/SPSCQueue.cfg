SPECIFICATION Spec
CONSTANTS
    Capacity = 4
    Laps = 2
    Unwritten = Unwritten
    Items = {a, b}
INVARIANTS
    TypeOK
    CountersOrdered
    NoDataRace
PROPERTIES
    Implements
