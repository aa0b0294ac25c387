SPECIFICATION Spec
CONSTANTS
    Keys = {k1, k2}
    Kinds = {"continue", "retry", "resume", "switch", "pause", "summarize"}
    Threads = {"t1"}
    MaxSeq = 2
    MaxTroubles = 2
SYMMETRY Symmetry
INVARIANTS
    SentTwiceOnlyAfterTrouble
    IssuedIsSettled
PROPERTIES
    InDoubtHoldsBack
CHECK_DEADLOCK FALSE
