SPECIFICATION Spec
CONSTANTS
    Sockets = {w1, w2, w3}
    Runs = {r1, r2}
    None = None
    MaxEvents = 2
    MaxReplay = 1
SYMMETRY Interchangeable
CONSTRAINT ThreeSocketsOrTwoRuns
CHECK_DEADLOCK FALSE
INVARIANTS
    ReplayCompletes
    CancelFindsRun
    DeliveredInOrder
    SubscriptionFollowsSockets
