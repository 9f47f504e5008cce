SPECIFICATION Spec
CONSTANTS
    a = a
    b = b
    r1 = r1
    r2 = r2
    NoTurn = NoTurn
    Turn <- TwoTurns
    Scheduled <- OneTurn
    ClearTurn <- OtherTurn
    Request <- NoRequests
    MaxRows = 4
    MaxPosts = 2
    MaxAgentRows = 1
    MaxTyped = 1
    MaxDrops = 1
    MaxRestarts = 0
    MaxTimeouts = 0
    MaxFailures = 0
    PageLimit = 200
    FilterCapacity = 256
CHECK_DEADLOCK FALSE
INVARIANTS TurnsRunOnce NoneTravelsEarly ReconnectPicksUp
