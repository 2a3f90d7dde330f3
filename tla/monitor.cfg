SPECIFICATION FairSpec
CONSTANTS
    Idle = idle
    NULL = NULL
    Thread = {idle, w1, w2, w3}
    PRIO_LEVELS = 2
    Mon = {m1}
    Cond = {c1}
    KMon = {o1}
    KCond = {x1}
    Uses = {}
    WaitQ <- MCWaitQ
INVARIANTS
    SchedulingKept
    MutualExclusion
    LockedHasOwner
    NoWaitWhenOpen
PROPERTIES
    EntranceServed
