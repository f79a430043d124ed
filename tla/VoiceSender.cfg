SPECIFICATION FairSpec
CONSTANTS
    Packets = {v1, v2, v3}
    Capacity = 2
    Empty = Empty
    MaxPush = 4
    Timeout = 3
    MaxCallbacks = 2
INVARIANTS
    WakeNotLost
    NothingLeftBehind
PROPERTIES
    ImplementsVoiceQueue
    OnlyStalledTrips
    WorkerReacts
CHECK_DEADLOCK FALSE
