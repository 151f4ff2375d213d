SPECIFICATION ApiFairSpec
CONSTANTS
    n0 = n0
    n1 = n1
    n2 = n2
    n3 = n3
    n4 = n4
    n5 = n5
    n6 = n6
    n7 = n7
    n8 = n8
    b1 = b1
    b2 = b2
    b3 = b3
    b4 = b4
    b5 = b5
    b6 = b6
    t1 = t1
    t2 = t2
    null = null
    Addr <- MC_Addr
    Root = n0
    Null = null
    EntryName <- MC_EntryName
    RegPath <- MC_RegPath
    LookupPath <- MC_NoLookup
    Data <- MC_Data
    Thread = {t1}
    MainThread = t1
    MaxCopies = 1
    Object <- MC_Object
    Disk <- MC_Disk
    Source <- MC_LogSource
    VirtualPath <- MC_OnePath
    Place <- MC_Place
    EmbeddedList <- MC_NoList
    ClientData <- MC_ClientData
    Buffer <- MC_Buffer
PROPERTY
    CallReturns
CHECK_DEADLOCK FALSE
