SPECIFICATION Spec
CONSTANTS
    Requests <- MCRequests
    CommandSlots = 1
    FramesPerTick = 1
    MaxSettings = 2
    MaxEvents = 4
INVARIANTS AsleepOnlyIfIdle
PROPERTIES SendsOnlyPresent HeardOnlyIfWanted
CHECK_DEADLOCK FALSE
