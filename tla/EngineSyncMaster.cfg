SPECIFICATION HAFairSpec
CONSTANTS
    Nil = Nil
    n1 = n1
    n2 = n2
    Nodes = {n1, n2}
    HAStates <- MCHAStates
    QueueSize = 1
    MaxInputs = 4
PROPERTY BecomesMaster
CHECK_DEADLOCK FALSE
