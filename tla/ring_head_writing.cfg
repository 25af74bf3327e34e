SPECIFICATION Spec
CONSTANTS
    c1 = c1
    c2 = c2
    c3 = c3
    c4 = c4
    Server = c1
    Clients <- Two
    Members <- Two
    Posters <- Two
    Leavers <- None
    Crashers <- None
    IdOf <- OwnIds
    NumSlots = 2
    SubMax = 2
    TryCount = 1
    MaxParts = 1
    MaxPosts = 4
    NoSlot = NoSlot
INVARIANT AssertHeadWriting
