SPECIFICATION FairSpec
CONSTANTS
    a = a
    b = b
    r1 = r1
    r2 = r2
    NoTurn = NoTurn
    Turn <- OneTurn
    Scheduled <- OneTurn
    ClearTurn <- NoTurns
    Request <- NoRequests
    MaxRows = 2
    MaxPosts = 2
    MaxAgentRows = 1
    MaxTyped = 0
    MaxDrops = 1
    MaxRestarts = 1
    MaxTimeouts = 0
    MaxFailures = 1
    PageLimit = 200
    FilterCapacity = 256
CHECK_DEADLOCK FALSE
PROPERTIES DueTurnsReachAgent
