SPECIFICATION Spec
CONSTANTS
    a = a
    b = b
    r1 = r1
    r2 = r2
    NoTurn = NoTurn
    Turn <- TwoTurns
    Scheduled <- OneTurn
    ClearTurn <- NoTurns
    Request <- TwoRequests
    MaxRows = 3
    MaxPosts = 2
    MaxAgentRows = 0
    MaxTyped = 0
    MaxDrops = 0
    MaxRestarts = 0
    MaxTimeouts = 1
    MaxFailures = 0
    PageLimit = 200
    FilterCapacity = 256
CHECK_DEADLOCK FALSE
INVARIANTS SentAnswersAreTrue
PROPERTIES NoRunAfterCancel SettledRowsStay
SYMMETRY RequestSymmetry
