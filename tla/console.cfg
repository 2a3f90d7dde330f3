SPECIFICATION Spec
CONSTANTS
    Idle = idle
    NULL = NULL
    Thread = {idle, w1, w2, w3}
    PRIO_LEVELS = 2
    SIZE = 2
    Char = {a, b}
    MaxPrint = 1
    WaitQ <- MCWaitQ
SYMMETRY Sym
INVARIANTS
    SchedulingKept
    PrintsWhole
    LockedHasHolder
PROPERTIES
    BuffersInOrder
