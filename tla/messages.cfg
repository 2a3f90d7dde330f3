SPECIFICATION Spec
CONSTANTS
    Idle = idle
    NULL = NULL
    Thread = {idle, w1, w2, w3}
    Started = {w1, w2}
    PRIO_LEVELS = 2
    MsgQ = {s1}
    KMsgQ = {o1}
    Message <- MCMessage
    QueueLimits = {2}
    Wanted = {0, 2}
    Setters = {w1}
    ThreadLimits <- MCThreadLimits
    Selective = {}
    MaxMsgs = 2
    WaitQ <- MCWaitQ
SYMMETRY Sym
INVARIANTS
    QueuesConsistent
    NoMessageForSleeper
    NoMessageLeaked
    NoSleepInFreedMailbox
PROPERTIES
    HighestKept
