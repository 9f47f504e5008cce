SPECIFICATION Spec
CONSTANTS
    Stream = {"session", "global"}
    Mishaps = {"break", "restart", "failure", "leave", "scroll", "merge"}
    MaxMishaps = 1
    OldRows = 2
    MaxTurns = 0
    MaxOutput = 4
    PageSize = 1
    WindowSize = 2
    PendingSize = 1
    RingSize = 1
    Close = TRUE
CHECK_DEADLOCK FALSE
INVARIANTS LatestInReach
