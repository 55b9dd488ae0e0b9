SPECIFICATION FairSpec
CONSTANTS
    d1 = d1
    Conns = {c1, c2}
    Devices = {d1}
    DeviceOf <- OneDevice
    HandshakeSlots = 1
    DeviceLimit = 1
    MaxBoots = 0
PROPERTIES
    CancelledEnds
    IdleIsEvicted
    SuspendedEnds
    HandshakeHappens
CHECK_DEADLOCK FALSE
