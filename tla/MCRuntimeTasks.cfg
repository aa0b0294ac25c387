SPECIFICATION TasksSpec
CONSTANTS
    Threads = {t1, t2}
    NoThread = none
    CodexKinds = {"final"}
    Handlers = {h1}
    Window = 2
    RecentLimit = 2
    MaxHistory = 3
    MaxRequests = 2
SYMMETRY Symmetry
INVARIANTS
    EchoIsNotManual
    ManualIsUnexplained

    
CHECK_DEADLOCK FALSE
