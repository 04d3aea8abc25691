SPECIFICATION DagSpec
CONSTANTS
    MaxPlanTasks = 3
    Plans <- SmallPlans
    Contents = {base, edited}
    Baseline = base
    NoResult = NoResult
    MaxTaskRetries = 3
    MaxDeveloperRetries = 2
    ArchitectTask = ArchitectTask
    ReviewerTask = ReviewerTask
INVARIANTS
    AttemptsAccountedFor
    AttemptsWithinBothLimits
    DagAgrees
    PlanFailureToldOnce
    VerdictShown
