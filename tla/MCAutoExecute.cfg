CONSTANTS
    c1 = c1
    c2 = c2
    s1 = s1
    ro = ro
    p1 = p1
    p2 = p2
    Commands = {c1, c2}
    Sessions = {s1}
    Workers = {ro}
    Orchestrator = ro
    Processes = {p1}
    SessionOf <- MCSessionOf
    Times <- MCTimes
    LeaseSeconds = 1
    CooldownSeconds = 1
    NoCommand = NoCommand
    MaxClaims = 3
    MaxRenewals = 0
    MaxTime = 2
    MaxFaults = 1
SPECIFICATION AutoSpec
INVARIANTS
    EffectsAreOnRecord
    RepeatedOnlyAfterFault
PROPERTIES
    
    NotifiedUnlessFault
