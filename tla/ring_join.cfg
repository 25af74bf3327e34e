SPECIFICATION Spec
CONSTANTS
    c1 = c1
    c2 = c2
    c3 = c3
    c4 = c4
    Server = c1
    Clients <- Four
    Members <- None
    Posters <- Four
    Leavers <- Three
    Crashers <- None
    IdOf <- SharedId
    NumSlots = 2
    SubMax = 2
    TryCount = 1
    MaxParts = 1
    MaxPosts = 1
    NoSlot = NoSlot
INVARIANTS
    LockExclusive
    RegistrationUnique
    MaskHasReader
CONSTRAINT Unspoiled
CHECK_DEADLOCK FALSE
