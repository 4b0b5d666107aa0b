SPECIFICATION Spec
CONSTANTS
    MaxReplay = 2
    MaxRuns = 2
    MaxEvents = 3
    MaxRetries = 1
    MaxSends = 2
    MaxDrops = 1
    MaxSockets = 2
    MaxFeedSends = 1
INVARIANTS StreamedTextIsShown
CHECK_DEADLOCK FALSE
