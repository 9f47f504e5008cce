SPECIFICATION FairSpec
CONSTANTS
    check = check
    hook = hook
    source = source
    NoSession = NoSession
    Rule <- TwoRules
    Setup <- ThreeSetups
    Source <- OneSource
    Target <- TargetOfRule
    MaxActive = 2
    MaxPerTick = 2
    MaxIncidents = 1
    MaxDisturbances = 1
    MaxRestarts = 1
INVARIANTS OneAttempt SourceExclusive RepairsFollowPlans
PROPERTIES PausedStaysQuiet WorkMovesOn
