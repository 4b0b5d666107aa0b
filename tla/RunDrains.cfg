SPECIFICATION FairSpec
CONSTANTS
    Runs = {r1, r2}
    Sessions = {s1}
    None = None
    SessionOf <- OneSession
    MaxIterations = 1
    MaxCalls = 1
    Deadlines = {"total"}
    LostWrites = {"recordCall"}
    LostAcks = {}
    MayUpdateSession = TRUE
    MayRestart = FALSE
CHECK_DEADLOCK FALSE
INVARIANTS
    RecordsConsistent
PROPERTIES
    AcceptedRunDrains
    CancelSettles
