SPECIFICATION TimedSpec
CONSTANTS
    r1 = r1
    Requests = {r1, r2}
    Answers = {"answer"}
    RecipientOf <- MCOneRecipient
    KindOf <- MCMixedKinds
    Handlers = {h1, h2}
    Nodes <- MCStaticNodes
    Deliveries <- MCSome
    DefaultMaxAge = 1
    MaxMaxAge = 1
    ConsumedMaxAge = 1
    MaxClock <- MCMaxClock
INVARIANTS
    AcceptancesApart
    VerdictsLast
    TriggerRepliesResume
SYMMETRY MCSymmetry
CHECK_DEADLOCK FALSE
