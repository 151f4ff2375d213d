SPECIFICATION Spec
CONSTANTS
    n0 = n0
    n1 = n1
    n2 = n2
    n3 = n3
    t1 = t1
    t2 = t2
    null = null
    Addr <- MC_Addr
    Root = n0
    Null = null
    EntryName <- MC_EntryName
    RegPath <- MC_RegPath
    LookupPath <- MC_LookupPath
    Data <- MC_Data
    Thread = {t1, t2}
    MainThread = t1
    MaxCopies = 2
INVARIANTS
    TypeOK
    TreeShape
    PathListExact
    PathListSound
    FileListExact
    LookupExact
PROPERTIES
    TreeStable
    ImplementsVFS
