SPECIFICATION FairSpec
CONSTANTS
    Mode = {m1, m2}
    RestartMode = m1
    NoMode = NoMode
    None = None
    Prompts <- TurnsAndCommands
    MaxTurns = 3
    Bound <- OnceEach
INVARIANTS
    TurnsInOrder
    RequestsAreAwaited
    TurnsRunInTheirMode
PROPERTIES
    NoTurnVanishes
    LoopMovesOn
CHECK_DEADLOCK FALSE
