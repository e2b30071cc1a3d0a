SPECIFICATION Spec
CONSTANTS
    Actions    <- MCActions
    Risks      <- MCRisks
    Namespaces <- MCNamespaces
    StepNames  <- MCStepNames
    Rollbacks  <- MCRollbacks
    Plans      <- MCPlans
    MaxLimit   = 2
INVARIANTS
    TypeOK
    VerdictIsStrictest
    ApprovedMeansCleared
    LimitKeepsFirstApproved
PROPERTIES
    RelaxedOnlyByLifting
