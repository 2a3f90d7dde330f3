SPECIFICATION Spec
CONSTANTS
    Idle = idle
    Main = main
    NULL = NULL
    Thread = {idle, main, t1, t2}
    PRIO_LEVELS = 3
    PrioArgs = {1, 2}
    MaxId = 5
    Uses = {"cancel"}
    WaitQ <- MCWaitQ
INVARIANTS
    ProcessKept
