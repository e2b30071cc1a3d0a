SPECIFICATION FairSpec
CONSTANTS
    Callers = {c1, c2, c3}
    MaxFailures = 2
    Timeout = 1
    Modulus = 5
INVARIANTS
    TypeOK
    ClosedIffFewFailures
PROPERTIES
    FailedTrialReopens
    ExecuteAgreesWithState
    Recovers
