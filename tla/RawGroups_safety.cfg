SPECIFICATION Spec
CONSTANTS
    d1 = d1
    Sessions = {s1, s2, s3}
    Ids = {d1}
    IdOf <- OneId
    GroupLimit = 1
    GlobalLimit = 2
    DeviceLimit = 1
SYMMETRY SessionSymmetry
INVARIANTS
    BooksAgree
    NoDeadGroup
PROPERTIES
    ImplementsPool
CHECK_DEADLOCK FALSE
