SPECIFICATION Spec
CONSTANTS
    c1 = c1
    c2 = c2
    c3 = c3
    c4 = c4
    Server = c1
    Clients <- Three
    Members <- One
    Posters <- Three
    Leavers <- Two
    Crashers <- None
    IdOf <- OwnIds
    NumSlots = 2
    SubMax = 3
    TryCount = 1
    MaxParts = 1
    MaxPosts = 0
    NoSlot = NoSlot
PROPERTY AssertOwnCell
