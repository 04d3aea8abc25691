SPECIFICATION GraphSpec
CONSTANTS
    MaxPlanTasks = 1
    Plans <- OneTask
    Contents = {base, edited}
    Baseline = base
    NoResult = NoResult
    MaxTaskRetries = 2
    MaxDeveloperRetries = 1
    MaxAgentSteps = 9
    MaxToolCalls = 2
    MaxCallsPerTurn = 1
    MaxReviewProtocolErrors = 1
    MaxChangeRecords = 1
    MaxIntrusions = 1
    NoTest = NoTest
    NoTree = NoTree
PROPERTY RunSettles
