CONSTANTS
    node = node
    Types = {node}
    Node = node
    EditBSize <- NodeSize
    Sized = {}
    Extras = {}
    UIntMod = 65536
    PageLoad = 2
    DirectoryLoad = 2
    PageBSize = 96
    ZoneBSize = 640
    HiAddr = 1200
    VersionHead = 3
    NodeLoad = 2
    Keys = {k1, k2}
    Data = {a}
    RefData = {}
    Unset = Unset
    Absent = Absent
    DeepMods = 5
    WideMods = 2
    OneKeyMods <- NoMore
SPECIFICATION Spec
PROPERTIES SetIsRead
CHECK_DEADLOCK FALSE
