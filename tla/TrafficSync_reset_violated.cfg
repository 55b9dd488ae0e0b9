SPECIFICATION Spec
CONSTANTS
    Users = {u1}
    Quota = 1
    ReadFails = FALSE
    Restarts = FALSE
    MaxRev = 3
    MaxSince = 1
INVARIANTS
    ResetAlwaysSticks
CHECK_DEADLOCK FALSE
