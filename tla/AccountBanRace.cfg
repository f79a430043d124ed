SPECIFICATION Spec
CONSTANTS
    p1 = p1
    p2 = p2
    d1 = d1
    d2 = d2
    Peer = {p1, p2}
    Uid = {u1}
    Device = {d1, d2}
    DeviceOf <- MCDeviceOf
    Bannable <- MCBannable
    NoUid = NoUid
    MaxVersion = 2
    MaxToken = 2
INVARIANT BannedAccountCutOff
CHECK_DEADLOCK FALSE
