SPECIFICATION FairSpec
CONSTANTS
    Ids = {i1}
    Requests = {r1, r2}
    Timers = {t1, t2}
    NoTimer = NoTimer
INVARIANTS
    TypeOK
    CheckedWritersRespectDecisions
    OnlyFullHandlerRecords
    RegistryIsLive
PROPERTIES
    ExpiryDecides
\* Every call returns and every timer ends.
CHECK_DEADLOCK FALSE
