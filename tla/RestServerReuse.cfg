SPECIFICATION Spec
CONSTANTS
    Listener = Listener
    MaxFds = 3
    Clients = {1, 2}
    Parts = 2
PROPERTIES
    Answered
CHECK_DEADLOCK FALSE
