SPECIFICATION Spec
CONSTANTS
    Channels = {a, b}
    Home = a
    MaxMessages = 2
    MaxEvicted = 1
    MaxEpoch = 2
    MaxGeneration = 2
    MaxRequest = 1
    PageSize = 1
    OutSlots = 3
    ChatSlots = 1
    MaxShown = 1
INVARIANTS
    NeverInvalid
    StoredWhereMeant
    GapFreeUnlessExcused
PROPERTIES
    ChatSettles
CHECK_DEADLOCK FALSE
