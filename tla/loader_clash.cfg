SPECIFICATION Spec
CONSTANTS
    t1 = t1
    t2 = t2
    null = null
    Script <- MC_TwinScript
    FileList <- MC_TwinList
    Parser <- MC_Parser
    ClassKey <- MC_ClassKey
    OtherKey <- MC_OtherKey
    Wanted <- MC_FewWanted
    Loadable <- MC_None
    Thread = {t1}
    ZTS = FALSE
    Bailouts = TRUE
    Null = null
INVARIANTS
    FirstWins
    NoneLeftOut
CHECK_DEADLOCK FALSE
