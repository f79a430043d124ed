SPECIFICATION KeySpec
CONSTANTS
    MaxCounter = 4
    RekeyPackets = 2
    Window = 2
    MaxKeyEpoch = 2
    MaxSent = 6
    Talkers = {"client"}
INVARIANTS
    KeyTypeOK
    NonceUnique
    EpochLockstep
    CurrentKeyOpens
    NoReplay
CHECK_DEADLOCK FALSE
