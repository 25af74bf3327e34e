CONSTANTS
    sstring = sstring
    array = array
    lower = lower
    upper = upper
    Types = {sstring, array}
    Sized = {array}
    EditBSize <- TwoSizes
    Extras = {56, 80, 104}
    UIntMod = 65536
    PageLoad = 2
    DirectoryLoad = 3
    PageBSize = 72
    ZoneBSize = 640
    HiAddr = 1240
    VersionHead = 3
    Array = array
    ArrayBSize = 32
    ModBSize = 12
    Strides = {12, 32768}
    MaxMods = 3
    MaxInt = 1
    Data = {d, e}
    Unset = Unset
    Texts = {lower, upper}
    ClassOf <- OneClass
    Folded <- LowerCase
    NoText = NoText
    Absent = Absent
    DeepMods = 3
    WideMods = 1
SPECIFICATION DataSpec
CONSTRAINT Bounded
SYMMETRY Symmetry
INVARIANTS TypeOK ArraysFit ArrayChecked RangeExact
PROPERTIES Versioned FoundStays
CHECK_DEADLOCK FALSE
