SPECIFICATION Spec
CONSTANTS
    base = base
    tenant = tenant
    secret = secret
    gateway = gateway
    other = other
    None = None
    Setups <- AllSetups
    Calls <- AllCalls
    Answers <- AnswersOf
    Bodies <- AllBodies
    MaxRetries = 2
    Backoff = 1
    RetryMax = 3
CHECK_DEADLOCK FALSE
INVARIANTS
    EveryFindingDecided
    FaithfulStatus
    RetriesOnlyTransient
