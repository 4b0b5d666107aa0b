SPECIFICATION Spec
CONSTANTS
    Sockets = {w1, w2}
    Runs = {r1}
    None = None
    MaxEvents = 2
    MaxReplay = 2
SYMMETRY Interchangeable
CHECK_DEADLOCK FALSE
INVARIANTS
    ReplayAlwaysCompletes
