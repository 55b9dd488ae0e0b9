SPECIFICATION FairSpec
CONSTANTS
    d1 = d1
    Sessions = {s1, s2}
    Ids = {d1}
    IdOf <- OneId
    GroupLimit = 2
    GlobalLimit = 2
    DeviceLimit = 0
INVARIANTS
    ReachableUnlessReused
PROPERTIES
    SessionsEnd
CHECK_DEADLOCK FALSE
