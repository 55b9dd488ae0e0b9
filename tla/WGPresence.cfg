SPECIFICATION WGFairSpec
CONSTANTS
    d1 = d1
    Conns = {c1}
    Devices = {d1}
    DeviceOf <- OneDevice
    HandshakeSlots = 1
    DeviceLimit = 1
    MaxBoots = 1
INVARIANTS
    EvictionSparesCounted
    OnlyMoversListed
PROPERTIES
    SilentGoesOffline
    MoverIsListed
CHECK_DEADLOCK FALSE
