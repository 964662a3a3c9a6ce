SPECIFICATION Spec
CONSTANTS
    Calls <- MCCalls
    ToolOf <- MCToolOf
    PlacesOf <- MCPlacesOf
    LooksOf <- MCLooksOf
    Forms <- MCForms
    PicksOf <- MCPicksOf
    Workflows <- MCWorkflows
    NoCall = NoCall
    AnsweredMaxAge = 1
    PendingMaxAge = 2
    Slots = {s1, s2}
    Handlers = {w1, w2}
    MaxAsks = 3
    MaxClock = 2
SYMMETRY MCSymmetry
INVARIANTS
    WaitsForOne
    ApprovedBeforeRun
    RulesHold
    ApprovalsAreKept
    DecidedOnce
    FormAnswerIsUsed
PROPERTIES
    EndsOwnWait
CHECK_DEADLOCK FALSE
