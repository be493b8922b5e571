SPECIFICATION MCSpec
CONSTANTS
    Nil = Nil
    Priority = 100
    Preempt = FALSE
    LocalAddr = 1
    RemoteAddr = 2
    Priorities <- MCPriorities
    QueueCap = 1
    StatusReportMaxFailures = 0
    ConfigCheckMaxFailures = 1
    Troubles <- AllTroubles
CHECK_DEADLOCK FALSE
INVARIANT SenderMatchesState
PROPERTIES EngineLearns AskedEnds EngineStopsLeading
