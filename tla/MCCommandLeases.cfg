CONSTANTS
    c1 = c1
    c2 = c2
    s1 = s1
    s2 = s2
    w1 = w1
    w2 = w2
    Commands = {c1}
    Sessions = {s1, s2}
    Workers = {w1, w2}
    Times <- MCTimes
    LeaseSeconds = 1
    NoCommand = NoCommand
    MaxClaims = 2
    MaxRenewals = 2
SPECIFICATION LeaseSpec
SYMMETRY MCSymmetry
INVARIANTS
    TableIsReplayOfLog
    LateResultsRejected
    CanonicalChain
    MirrorNeverConflicts
PROPERTIES
    ImplementsFencedCommand
CHECK_DEADLOCK FALSE
