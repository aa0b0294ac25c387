SPECIFICATION Spec
CONSTANTS
    Workers = {w1}
    Decision = decision
    Runtime = runtime
    Callers = {decision, runtime, r1}
    Recoverers = {r1}
    MaxReports = 3
    Messages = {g1, g2, legacy}
    Legacy = legacy
    Families = {f1}
    MaxRecoveries = 1
    MaxCrashes = 1
SYMMETRY Symmetry
INVARIANTS
    LifecycleInOrder
    
    WorkersHaveEnded
    
    SupersededHasSuccessor
CHECK_DEADLOCK FALSE
