CONSTANTS
    res = res
    api = api
    Callers = {res, api}
    Resident = {res}
    MaxThread = 2
    MaxTime = 1
    SecondTicks = 1
    Cooldown = 1
    AutoResume = TRUE
    Reports <- MCReports
    Holds = {"none"}
    MaxCalls = 2
    MaxEvents = 1
SPECIFICATION RecoverySpec
INVARIANTS
    ChainInOrder
    OneLineagePerTransaction
    OpenIsOwned
CHECK_DEADLOCK FALSE
