SPECIFICATION FairSpec
CONSTANTS
    c1 = c1
    c2 = c2
    c3 = c3
    c4 = c4
    Server = c1
    Clients <- Two
    Members <- Two
    Posters <- One
    Leavers <- None
    Crashers <- None
    IdOf <- OwnIds
    NumSlots = 3
    SubMax = 2
    TryCount = 1
    MaxParts = 4
    MaxPosts = 2
    NoSlot = NoSlot
PROPERTIES
    Delivered
    CallsReturn
