SPECIFICATION Spec
CONSTANTS
    c1 = c1
    c2 = c2
    c3 = c3
    c4 = c4
    Server = c1
    Clients <- Two
    Members <- Two
    Posters <- Two
    Leavers <- None
    Crashers <- One
    IdOf <- OwnIds
    NumSlots = 4
    SubMax = 2
    TryCount = 1
    MaxParts = 3
    MaxPosts = 3
    NoSlot = NoSlot
INVARIANTS
    TypeOK
    WritingUntilPosted
    PolledStaysPosted
    WholeMessage
PROPERTIES
    InOrderOnce
    RecycledAfterAll
CONSTRAINT Unspoiled
