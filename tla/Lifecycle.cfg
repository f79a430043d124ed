SPECIFICATION FairSpec
CONSTANTS
    Pool = {1, 2}
    ControlSlots = 2
    ProgressSlots = 1
    MaxEvents = 4
INVARIANTS SessionsOwned ShownIsCurrent WaitCanBeEnded
PROPERTIES RequestsServed ConnectionSettles
CHECK_DEADLOCK FALSE
