CONSTANTS
    r1 = r1
    r2 = r2
    k1 = k1
    Requests = {r1}
    Prompting = {r1}
    Callers = {"watchdog", "operator"}
    Awaited = {"watchdog"}
    ClientKeys = {k1}
    MaxRestarts = 1
    MaxDecisions = 2
    MaxSnap = 2
    MaxGoal = 2
    MaxFaults = 1
    MaxTicks = 2
SPECIFICATION Spec
INVARIANTS
    AnswerIsTheRuntimes
    
    
    
CHECK_DEADLOCK FALSE
