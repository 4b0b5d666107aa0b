SPECIFICATION FairSpec
CONSTANTS
    Timeout = 60
    NoTimer = NoTimer
CHECK_DEADLOCK FALSE
INVARIANTS
    PromptPeerSurvives
PROPERTIES
    TimersStop
