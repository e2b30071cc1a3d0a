SPECIFICATION Spec
CONSTANTS
    Callers  = {c1, c2}
    Alerts   = {"PodCrashLooping", "Unknown"}
    Namespaces = {"default", "production"}
    Runbooks = {"PodCrashLooping"}
    Evidence = {"with key", "redacted"}
    Redact  <- MCRedact
    Answers  = {a1}
    NoEntry  = NoEntry
    TTL      = 2
    Timeout  = 1
INVARIANTS
    TypeOK
    ServedForThisIncident
    LatestAnswerIsKept
PROPERTIES
    AnalysesEnd
