CONSTANTS
    a1 = a1
    a1r = a1r
    n1 = n1
    n2 = n2
    d1 = d1
    s1 = s1
    s2 = s2
    x1 = x1
    x2 = x2
    Envelopes = {n1, d1, n2}
    Kind <- MCKind
    Session <- MCOneSession
    Batches <- MCDecisionBatch
    Reissue <- MCNoReissue
    Snapshots = {1}
    Contents = {x1}
    NoRecord = NoRecord
    QuietSeconds = 1
    MaxAttempts = 2
    Backoff = 1
    MaxTime = 1
    MaxResets = 0
    MaxFaults = 1
SPECIFICATION DeliverySpec
INVARIANTS
    InOrderUnlessDeferred
    

    
CHECK_DEADLOCK FALSE
