SPECIFICATION GraphSpec
CONSTANTS
    MaxPlanTasks = 2
    Plans <- OneTask
    Contents = {base, edited}
    Baseline = base
    NoResult = NoResult
    MaxTaskRetries = 2
    MaxDeveloperRetries = 1
    MaxAgentSteps = 9
    MaxToolCalls = 4
    MaxCallsPerTurn = 2
    MaxReviewProtocolErrors = 1
    MaxChangeRecords = 2
    MaxIntrusions = 2
    NoTest = NoTest
    NoTree = NoTree
INVARIANTS
    GraphTypeOK
    OutcomeHonest
    BudgetsBeforeRecursionLimit
    ToolsWithinBudget
    WorkspaceHeld
PROPERTY
    AppliedAsReviewed
