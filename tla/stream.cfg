SPECIFICATION StreamSpec
CONSTANTS
    t1 = t1
    t2 = t2
    s1 = s1
    s2 = s2
    d1 = d1
    d2 = d2
    d3 = d3
    null = null
    Node <- MC_Node
    FileList <- MC_FileList
    SymbolFiles <- MC_SymbolFiles
    Thread = {t1}
    MaxHeld = 1
    Null = null
    DirNode <- MC_DirNode
    Items <- MC_Items
    NodeAt <- MC_NodeAt
    ShortUri <- MC_ShortUri
    Stream = {s1, s2}
    Dp = {d1, d2, d3}
    Owner = t1
    Chunk = 2
    ReadSize <- MC_ReadSize
    Offset <- MC_Offset
    Mode <- MC_Mode
    MaxOffset = 4
VIEW MC_View
INVARIANTS
    StreamTypeOK
    DataOwned
    ReadAhead
    CountExact
PROPERTY
    ImplementsCursor
CHECK_DEADLOCK FALSE
