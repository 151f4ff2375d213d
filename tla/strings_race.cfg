SPECIFICATION StringsSpec
CONSTANTS
    t1 = t1
    t2 = t2
    null = null
    Node <- MC_Node
    FileList <- MC_FileList
    SymbolFiles <- MC_SymbolFiles
    Thread = {t1, t2}
    MaxHeld = 1
    Null = null
INVARIANT
    StringsAlive
CHECK_DEADLOCK FALSE
