SPECIFICATION ServiceSpec
CONSTANTS
    Requests = {1, 2}
    None = None
    MaxFaults = 1
INVARIANTS
    ServiceTypeOK
    OneProducer
    ProducerOwnsRun
    WaitingRunKept
    NothingForgotten
    ToldTruly
PROPERTIES
    EveryRequestEnds
