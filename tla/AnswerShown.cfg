SPECIFICATION ClientSpec
CONSTANTS
    MaxRequests = 2
    MaxSessions = 1
    MaxClicks = 1
    ChannelsBreak = FALSE
    None = None
INVARIANTS
    AnswerShown
