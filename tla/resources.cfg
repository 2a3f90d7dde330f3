SPECIFICATION Spec
CONSTANTS
    WORDS = 22
    MAX_RESOURCES = 3
    ObjectWords = 3
    BlockWords <- Sizes
    Uses = {}
INVARIANTS
    BlocksKept
    HeapExact
    IdsExact
CHECK_DEADLOCK FALSE
