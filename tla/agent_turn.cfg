CONSTANTS
    Main = Main
    None = None
    Subagents = {s1, s2}
    Tools = {t1, t2}
    Indexes = {0, 1}
    Turns <- MCTurns
SPECIFICATION Spec
CHECK_DEADLOCK FALSE
INVARIANTS
    TextAttributed
    TurnIsKept
    CallsIntact
    PauseIsBridged
    OutcomeIsThisTurns
    TasksMatchAgent
