SPECIFICATION FairSpec
CONSTANTS
    c1 = c1
    c2 = c2
    Client <- OneClient
    Unknown <- ModeUnknown
    Refused <- ExternalRefused
    MaxUpdates = 2
    MaxHubWrites = 1
    MaxDrops = 1
    MaxRestarts = 1
    MaxErrors = 1
CHECK_DEADLOCK FALSE
INVARIANTS OnlyOwnFields
PROPERTIES AtomicUpdates UpdatesSettle
