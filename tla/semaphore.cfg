SPECIFICATION FairSpec
CONSTANTS
    Idle = idle
    NULL = NULL
    Thread = {idle, w1, w2, w3}
    PRIO_LEVELS = 2
    Sem = {s1}
    KSem = {o1, o2}
    InitValues = {0, 1}
    MaxValue = 1
    WaitQ <- MCWaitQ
INVARIANTS
    SchedulingKept
    NoWaitWithTokens
    HandlesValid
    FailureReported
PROPERTIES
    ImplementsAbs
    WaiterServed
