SPECIFICATION Spec
CONSTANTS
    Names       <- MCNames
    UndoOf      <- MCUndoOf
    Runbooks    <- MCRunbooks
    FailActions =  {"", "restart"}
    MaxCalls    =  2
INVARIANTS
    TypeOK
    LogReversesPlan
    StopsAtFirstError
PROPERTIES
    ImplementsCompensation
