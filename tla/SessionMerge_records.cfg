SPECIFICATION FairSpec
CONSTANTS
    a = a
    b = b
    s1 = s1
    s2 = s2
    NoTurn = NoTurn
    Nobody = Nobody
    Turn <- OneTurn
    Scheduled <- NoTurns
    Session <- TwoSessions
    MaxRows = 3
    MaxPosts = 2
    MaxOutput = 1
    MaxDrops = 1
    PageLimit = 200
CHECK_DEADLOCK FALSE
INVARIANTS EveryRowHasRecord KeysDistinct
PROPERTIES DedupSparesLive DuplicatesMerge
