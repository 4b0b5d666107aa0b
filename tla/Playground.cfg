SPECIFICATION Spec
SYMMETRY Symmetry
CONSTRAINT TwoRunsOrTrouble
CONSTANTS
    Reservations = {x1, x2}
    Runs = {r1, r2}
    LastDay = 1
    Amount = 2
    Ceiling = 3
    None = None
    Guests = {g1}
    Sockets = {s1, s2}
    MaxFrames = 2
    Outcomes = {"completed"}
    MessagesPerSession = 2
    TokensPerSession = 1
    FrameTokens = 2
    SettleAttempts = 1
    MayRestart = TRUE
    x1 = x1
    x2 = x2
    r1 = r1
    r2 = r2
    g1 = g1
    s1 = s1
    s2 = s2
INVARIANTS TotalIsAccepted EveryForwardIsReserved OneRunPerReservation
PROPERTIES SettledIsFinal
CHECK_DEADLOCK FALSE
