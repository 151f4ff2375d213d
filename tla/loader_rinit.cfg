SPECIFICATION Spec
CONSTANTS
    t1 = t1
    t2 = t2
    null = null
    Script <- MC_RinitScript
    FileList <- MC_RinitList
    Parser <- MC_Parser
    ClassKey <- MC_ClassKey
    OtherKey <- MC_OtherKey
    Wanted <- MC_FewWanted
    Loadable <- MC_None
    Thread = {t1}
    ZTS = TRUE
    Bailouts = FALSE
    Null = null
INVARIANT
    RinitSucceeds
CHECK_DEADLOCK FALSE
