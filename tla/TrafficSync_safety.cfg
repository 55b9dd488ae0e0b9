SPECIFICATION Spec
CONSTANTS
    Users = {u1}
    Quota = 2
    ReadFails = TRUE
    Restarts = TRUE
    MaxRev = 4
    MaxSince = 1
VIEW View
CONSTRAINT StillOfConcern
INVARIANTS
    ResetSticks
    FenceUp
CHECK_DEADLOCK FALSE
