SPECIFICATION FairSpec
CONSTANTS
    Users = {u1}
    Quota = 1
    ReadFails = FALSE
    Restarts = FALSE
    MaxRev = 3
    MaxSince = 1
PROPERTIES
    ResetIsLoaded
    CreatedUserIsServed
CHECK_DEADLOCK FALSE
