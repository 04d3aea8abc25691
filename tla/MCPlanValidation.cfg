SPECIFICATION Spec
CONSTANTS
    MaxPlanTasks = 3
    RawPlans <- MCRawPlans
    Identity <- MCIdentity
    BadPath = BadPath
INVARIANTS
    AdmitsExactly
    SortInvariant
    SweepExact
