SPECIFICATION Spec
CONSTANTS
    Runs = {r1, r2}
    Sessions = {s1}
    None = None
    SessionOf <- OneSession
    MaxIterations = 1
    MaxCalls = 1
    Deadlines = {"tool"}
    LostWrites <- LostAnywhere
    LostAcks <- UnackedWrites
    MayUpdateSession = TRUE
    MayRestart = TRUE
CHECK_DEADLOCK FALSE
INVARIANTS
    SessionNotWedged
    EventAgreesWithRow
PROPERTIES
    TerminalIsFinal
    ImplementsLifecycle
