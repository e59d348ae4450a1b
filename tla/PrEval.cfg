SPECIFICATION FairSpec
CONSTANTS
    None = None
    c1 = c1
    c2 = c2
    Cases <- BothCases
    a = a
    b = b
    Commands <- CommandsOf
    Versions = {v1, q}
    Quarantined = {q}
    Unlabelled = v1
    Jobs = 1
    MaxRuns = 3
    Edited = {c1}
    Failing = {c2}
    MaxTrouble = 2
INVARIANTS
    TreesOfTheDead
PROPERTIES
    ResumedResultsFit
    SupervisedRunEnds
CHECK_DEADLOCK FALSE
