SPECIFICATION Spec
CONSTANTS
    Lines       <- MCLines
    Texts       <- MCTexts
    SplitComma  <- MCSplitComma
    Documents   <- MCDocuments
    n1 = n1
    n2 = n2
    Names       <- MCNames
    Callers     = {c1, c2}
    NoCaller    = NoCaller
    Namespaces  = {"production", "staging"}
    MaxVersions <- MCMaxVersions
INVARIANTS
    TypeOK
    ParsesByHeadings
    AckedVersionsStay
    CompiledPlanIsHeld
PROPERTIES
    LockIsReleased
    ImplementsVersionLog
CHECK_DEADLOCK FALSE
