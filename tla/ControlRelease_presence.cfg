SPECIFICATION FairSpec
CONSTANTS
    a = a
    NoTurn = NoTurn
    Turn <- OneTurn
    GraceTicks = 1
    ExpiryTicks = 2
    RpcTicks = 2
    WaitTicks = 1
    MaxCalls = 2
    MaxBreaks = 1
    MaxStalls = 1
    MaxBacklog = 0
INVARIANTS InactiveIsQuiet HandedOffIsMarked SuccessMeansStopped
PROPERTIES HandoffAbandonsNone DisplayConverges ReleaseAnswers
