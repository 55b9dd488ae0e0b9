SPECIFICATION Spec
CONSTANTS
    Conns = {c1, c2, c3}
    MaxFailures = 2
INVARIANTS
    AttemptBound
PROPERTIES
    NotBlocked
    NeverDeaf
    LockOpens
CHECK_DEADLOCK FALSE
