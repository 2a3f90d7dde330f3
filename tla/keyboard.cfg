SPECIFICATION KeybSpec
CONSTANTS
    SIZE = 2
    PhysKey = {"letter", "arrow", "LSHIFT", "LCTRL", "RCTRL", "CAPSL"}
    GetFlags <- MCGetFlags
    MaxCodes = 2
INVARIANTS
    ModifiersTracked
PROPERTIES
    KeystrokesInOrder
