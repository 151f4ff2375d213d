SPECIFICATION FairSpec
CONSTANTS
    t1 = t1
    t2 = t2
    null = null
    Script <- MC_Script
    FileList <- MC_FileList
    Parser <- MC_Parser
    ClassKey <- MC_ClassKey
    OtherKey <- MC_OtherKey
    Wanted <- MC_Wanted
    Loadable <- MC_Loadable
    Thread = {t1, t2}
    ZTS = TRUE
    Bailouts = TRUE
    Null = null
INVARIANTS
    LoaderTypeOK
    ReadyAfterInit
    TableExact
    RinitLoaded
PROPERTIES
    TableFrozen
    LoadedOnce
    RinitEnds
CHECK_DEADLOCK FALSE
