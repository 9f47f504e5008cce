SPECIFICATION Spec
CONSTANTS
    c1 = c1
    c2 = c2
    Client <- TwoClients
    Unknown <- NothingUnknown
    Refused <- OddRefused
    MaxUpdates = 2
    MaxHubWrites = 2
    MaxDrops = 1
    MaxRestarts = 0
    MaxErrors = 0
CHECK_DEADLOCK FALSE
INVARIANTS CacheIsHistory OnlyOwnFields
SYMMETRY ClientSymmetry
