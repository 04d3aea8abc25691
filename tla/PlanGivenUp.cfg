SPECIFICATION Spec
CONSTANTS
    MaxPlanTasks = 3
    Plans <- PlansUpTo3
    Contents = {base, edited}
    Baseline = base
    NoResult = NoResult
    MaxTaskRetries = 3
    MaxDeveloperRetries = 1
INVARIANT FailsOnlyWithoutReadyTask
