SPECIFICATION FairSpec
CONSTANTS
    Payloads <- MCPayloads
    Configs  <- MCConfigs
    NoIncident <- MCNoIncident
    MaxRequests = 2
    MaxRestarts = 1
INVARIANTS
    TypeOK
    ExecutedIsCleared
    ExecutedInOrder
    PhaseIsTruthful
PROPERTIES
    ImplementsLifecycle
    Settles
\* Webhooks and restarts stop at their bounds.
CHECK_DEADLOCK FALSE
