SPECIFICATION Spec
CONSTANTS
    Char <- MC_Char
    MaxLen = 5
INVARIANTS
    PathTypeOK
    NoEmptySegment
    CleanKept
    CleanExact
CHECK_DEADLOCK FALSE
