SPECIFICATION ClientSpec
CONSTANTS
    MaxRequests = 3
    MaxSessions = 2
    MaxClicks = 2
    ChannelsBreak = TRUE
    None = None
INVARIANTS
    ClientTypeOK
    ScreenOfOneRun
    BusyWithRequest
    DecisionCarriedOut
PROPERTIES
    BecomesUsable
