SPECIFICATION Spec
CONSTANTS
    Channels = {a, b}
    Home = a
    MaxMessages = 1
    MaxEvicted = 1
    MaxEpoch = 2
    MaxGeneration = 2
    MaxRequest = 0
    PageSize = 1
    OutSlots = 3
    ChatSlots = 1
    MaxShown = 2
INVARIANTS
    GapFree
CHECK_DEADLOCK FALSE
