SPECIFICATION Spec
CONSTANTS
    Ids = {i1}
    Requests = {r1, r2}
    Timers = {t1, t2}
    NoTimer = NoTimer
INVARIANTS
    ApprovedStands
CHECK_DEADLOCK FALSE
