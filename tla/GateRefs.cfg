SPECIFICATION Spec
CONSTANTS
    r0 = r0
    c1 = c1
    c2 = c2
    c3 = c3
    d1 = d1
    k1 = k1
    k2 = k2
    None = None
    Commits = {r0, c1, c2, d1}
    Anc <- MCAnc
    Bases = {r0, c1}
    Configs = {k1, k2}
    Buggy = {c1}
    Touches <- MCTouches
    Erases <- MCErases
    Severity <- MCSeverity
    MaxResolutions = 1
    AutoFollowup = TRUE
    MaxFollowup = 1
    RefRaces = FALSE
    MaxMoves = 3
INVARIANTS
    NoUnreviewedPush
    NoLostFinding
    BaselineReviewed
PROPERTIES
    DebtPaidByReview
