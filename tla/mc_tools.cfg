SPECIFICATION FairSpec
CONSTANTS
    MaxTurns = 1
    MaxRounds = 1
    MaxRequests = 4
    MaxCalls = 3
    MaxConcurrency = 2
    MaxHistory = 4
    Summarizing = FALSE
    Policies = {"none", "blocking", "raise", "approve", "deny"}
INVARIANTS
    ApprovalHonoured
    CallsAccounted
PROPERTIES
    TurnsEnd
