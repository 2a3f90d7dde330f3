SPECIFICATION Spec
CONSTANTS
    Idle = idle
    Main = main
    NULL = NULL
    Thread = {idle, main, t1, t2, t3}
    PRIO_LEVELS = 3
    PrioArgs = {1, 3}
    MaxId = 5
    Uses = {"sharedJoin", "joinAny"}
    WaitQ <- MCWaitQ
SYMMETRY Sym
INVARIANTS
    ThrCountExact
    RefCntExact
    NoWaitForEnded
