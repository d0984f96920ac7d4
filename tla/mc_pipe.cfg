SPECIFICATION Spec
CONSTANTS
    MaxRetries = 1
    MaxUsage = 2
    Usages = {0, 2}
    OwnCosts <- MCOwnCosts
    Scores = {0, 1, 2, 3}
    TargetScore = 3
    DeltaThreshold = 1
    Patience = 2
    MaxIterations = 3
    MaxRepairs = 1
    FanCalls = 2
    MaxOpen = 2
    CallLimit = 6
    TokenLimit = 3
    Budget <- MCBudget
    Pipelines <- MCPipelines
    Payloads <- MCPayloads
    Prose <- MCProse
    Tails <- MCTails
INVARIANTS
    BudgetHeld
    CostComplete
    StopsWhereDue
    BestKept
    AnswersParsed
