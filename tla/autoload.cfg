SPECIFICATION Spec
CONSTANTS
    Class <- MC_Class
    PcsClass = {"P"}
    Callback <- MC_Callback
    ClassOf <- MC_ClassOf
    NestedSpl = FALSE
    MaxDepth = 3
    Null = Null
INVARIANTS
    AutoloadTypeOK
    HookInstalled
    NoStaleAutoload
PROPERTY
    ImplementsSpl
