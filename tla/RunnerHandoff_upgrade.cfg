SPECIFICATION FairSpec
CONSTANTS
    MaxProcs = 3
    MaxUpgrades = 2
    MaxKills = 1
CHECK_DEADLOCK FALSE
INVARIANTS MachineKeepsARunner TwoOnlyInHandoff
PROPERTIES DuplicatesEnd StateNamesARunner
