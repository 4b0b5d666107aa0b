SPECIFICATION FairSpec
CONSTANTS
    Calls = {c1}
    Urls = {"u1", "u2"}
    MaxRetries = 1
    MaxEntries = 2
    MaxExecutions = 2
    MayRestart = TRUE
    None = None
    c1 = c1
    Models <- MCModels
    Sayings <- MCSayings
    OldRows <- MCOldRows
    Tools = {1, 2}
    LastN = 3
    MetadataBudget = 0
    MaxRuns = 2
    MaxRounds = 3
INVARIANTS OncePerEntry ResultIsTheCalls ContextCorrelates CallsAreWhole MetricsAreTheRuns
PROPERTIES AbortStopsAttempts ExecuteReturns
CHECK_DEADLOCK FALSE
