SPECIFICATION FairSpec
CONSTANTS
    r0 = r0
    c1 = c1
    c2 = c2
    c3 = c3
    d1 = d1
    k1 = k1
    k2 = k2
    None = None
    Commits = {r0, c1, c2, c3}
    Anc <- ChainAnc
    Bases = {r0}
    Configs = {k1}
    Buggy = {c1, c2}
    Touches <- ChainTouches
    Erases <- ChainErases
    Severity <- ChainSeverity
    MaxResolutions = 1
    AutoFollowup = FALSE
    MaxFollowup = 1
    RefRaces = FALSE
    MaxMoves = 2
INVARIANTS
    ResumeAsksOnce
PROPERTIES
    DeferralsDrain
