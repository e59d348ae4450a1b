SPECIFICATION FairSpec
CONSTANTS
    c1 = c1
    Callers = {c1}
    CallKinds = {"request"}
    MaxCalls = 1
    MaxAsks = 1
    WriteLimit = 1
    InboundLimit = 1
    StdinLimit = 1
    Owner = Owner
    Dispatcher = Dispatcher
    Writer = Writer
    None = None
CHECK_DEADLOCK FALSE
INVARIANTS
    FailureReachesAll
    PendingIsLive
PROPERTIES
    KeepsContract
    EveryCallEnds
    ThreadsEnd
