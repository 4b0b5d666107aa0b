SPECIFICATION Spec
CONSTANTS
    Runs = {r1, r2}
    Sessions = {s1}
    None = None
    SessionOf <- OneSession
    MaxIterations = 2
    MaxCalls = 1
    Deadlines <- AllDeadlines
    LostWrites = {}
    LostAcks = {}
    MayUpdateSession = FALSE
    MayRestart = FALSE
CHECK_DEADLOCK FALSE
INVARIANTS
    TypeOK
    OneRunPerSession
    OutcomeHasItsCause
    HistoryAnswered
