SPECIFICATION FairSpec
CONSTANTS
    r1 = r1
    Requests = {r1, r2}
    Answers = {"answer"}
    RecipientOf <- MCOneRecipient
    KindOf <- MCMixedKinds
    Handlers = {h1, h2}
    Nodes <- MCBothStores
    Deliveries <- MCFew
    DefaultMaxAge = 2
    MaxMaxAge = 3
    ConsumedMaxAge = 2
    MaxClock <- MCMaxClock
INVARIANTS
    TypeOK
    DecisionFitsRequest
PROPERTIES
    DecisionIsFinal
    ImplementsOnceDecision
    AnsweringDecides
    AlreadyDecidedResumes
CHECK_DEADLOCK FALSE
