SPECIFICATION Spec
CONSTANTS
    idle = idle
    r1 = r1
    r2 = r2
    f = f
    h = h
    rr = rr
    a1 = a1
    NULL = NULL
    Thread = {idle, r1, r2, f, h}
    Idle = idle
    PRIO_LEVELS = 3
    WaitQ <- MCWaitQ
    MIN_INTERVAL = 2
    MAX_INTERVAL = 4
    Alarm = {rr, a1}
    RRAlarm = rr
    Program = {r1, r2, f}
    RRThreads = {r1, r2}
    Programs <- MCPrograms
    RR_THRESHOLD = 2
    TIME_SLICE = 3
    MaxTime = 5
INVARIANTS
    SchedulingKept
    ListExact
    NoneOverdue
    NoSleepOnExpired
    SliceBounded
CHECK_DEADLOCK FALSE
SYMMETRY Sym
