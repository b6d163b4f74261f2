SPECIFICATION SpinSpec
CONSTANTS
    Capacity = 2
    Laps = 3
    Unwritten = Unwritten
    Items = {a}
PROPERTIES
    KeepsFlowing
