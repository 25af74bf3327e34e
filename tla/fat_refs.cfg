CONSTANTS
    sstring = sstring
    array = array
    Types = {sstring, array}
    Sized = {array}
    EditBSize <- TwoSizes
    Extras = {4092, 4204, 32832}
    UIntMod = 65536
    PageLoad = 2
    DirectoryLoad = 3
    PageBSize = 72
    ZoneBSize = 640
    HiAddr = 9568
    VersionHead = 4
SPECIFICATION ZoneSpec
INVARIANTS ZoneTypeOK PagesApart RevisionIntegrity ReviseExact
PROPERTIES LiveKept BeginHasRoom
CHECK_DEADLOCK FALSE
