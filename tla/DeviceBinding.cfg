SPECIFICATION Spec
CONSTANTS
    Users = {a, b}
    Devices = {p, q}
    NoDevice = NoDevice
    MaxAddr = 2
    MaxSlots = 2
    MaxKeys = 2
    MaxEdits = 2
SYMMETRY BindingSymmetry
INVARIANTS
    FileAgrees
    AddressesDiffer
    PeersKnown
    KeysMatch
    WithinLimit
PROPERTIES
    OnlyStaleFormsShare
CHECK_DEADLOCK FALSE
VIEW BindingView
