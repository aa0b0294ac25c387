CONSTANTS
    a1 = a1
    a1r = a1r
    n1 = n1
    n2 = n2
    d1 = d1
    s1 = s1
    s2 = s2
    x1 = x1
    x2 = x2
    Envelopes = {a1, a1r, d1}
    Kind <- MCKind
    Session <- MCChildSession
    Batches <- MCApprovalAndDecision
    Reissue <- MCReissue
    Snapshots = {1}
    Contents = {x1, x2}
    NoRecord = NoRecord
    QuietSeconds = 0
    MaxAttempts = 1
    Backoff = 1
    MaxTime = 0
    MaxResets = 1
    MaxFaults = 1
SPECIFICATION DeliverySpec
SYMMETRY MCSymmetry
INVARIANTS
    SequenceNumbersUnique
    
PROPERTIES
    OnlyInFlightRevives
CHECK_DEADLOCK FALSE
