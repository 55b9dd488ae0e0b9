SPECIFICATION Spec
CONSTANTS
    Calls = {c1, c2}
    Manual = m
    Makers = {h1, h2}
    Pollers = {s1}
    MaxHashes = 1
    MaxEvents = 1
INVARIANTS
    NoStrayCall
PROPERTIES
    ImplementsBook
    OnlyStaleWritesUndo
    ActiveIsListed
    StoppedIsDropped
CHECK_DEADLOCK FALSE
