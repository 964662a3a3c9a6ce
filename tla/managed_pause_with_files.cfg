CONSTANTS
    Main = Main
    None = None
    Subagents = {s1, s2}
    Tools = {t1, t2}
    Indexes = {0, 1}
    Turns <- MCPromptTurn
SPECIFICATION Spec
CHECK_DEADLOCK FALSE
INVARIANTS
    PauseReachesUser
