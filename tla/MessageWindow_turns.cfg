SPECIFICATION Spec
CONSTANTS
    Stream = {"session"}
    Mishaps = {"break", "restart", "failure", "leave", "scroll", "merge"}
    MaxMishaps = 1
    OldRows = 1
    MaxTurns = 1
    MaxOutput = 2
    PageSize = 3
    WindowSize = 4
    PendingSize = 1
    RingSize = 1
    Close = TRUE
CHECK_DEADLOCK FALSE
INVARIANTS WholeUnlessOwed TurnShownOnce
PROPERTIES ConsumedStays
