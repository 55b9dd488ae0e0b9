SPECIFICATION Spec
CONSTANTS
    d1 = d1
    Conns = {c1, c2}
    Devices = {d1}
    DeviceOf <- OneDevice
    HandshakeSlots = 1
    DeviceLimit = 1
    MaxBoots = 1
SYMMETRY ConnSymmetry
INVARIANTS
    BooksAgree
    LeakIsLate
    RelaysLive
CHECK_DEADLOCK FALSE
