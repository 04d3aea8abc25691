SPECIFICATION ServiceSpec
CONSTANTS
    Requests = {1, 2}
    None = None
    MaxFaults = 0
INVARIANTS
    ResumedRunKeepsWorkspace
