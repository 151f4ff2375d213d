SPECIFICATION Spec
CONSTANTS
    Exception = Exception
    Script <- MC_Script
    Name <- MC_Name
    Null = Null
INVARIANT
    ParseExact
