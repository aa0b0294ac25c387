CONSTANTS
    e1 = e1
    e2 = e2
    startup = startup
    loop = loop
    Events = {e1, e2}
    GoalEvents = {e1, e2}
    Drains = {startup, loop}
    Loop = loop
    NoRecord = NoRecord
    MaxAttempts = 2
    Backoff = 1
    MaxTime = 1
    MaxFaults = 1
SPECIFICATION IngestSpec
SYMMETRY MCSymmetry
INVARIANTS
    ProcessedIsArchived
    TriesWithinBudget
    GoalLagsOnlyBehindRetries
    ProcessingIsOwned
CHECK_DEADLOCK FALSE
