SPECIFICATION Spec
CONSTANTS
    Payloads <- MCPayloads
    Configs  <- MCConfigs
    NoIncident <- MCNoIncident
    MaxRequests = 2
    MaxRestarts = 1
INVARIANTS
    ProductionNeedsApproval
CHECK_DEADLOCK FALSE
