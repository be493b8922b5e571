SPECIFICATION Spec
CONSTANTS
    Nil = Nil
    n1 = n1
    n2 = n2
    Nodes = {n1, n2}
    HAStates <- AllHAStates
    QueueSize = 1
    MaxInputs = 4
SYMMETRY Symmetric
INVARIANTS
    LeaderIsAlone
    TokensAgree
    InSync
CHECK_DEADLOCK FALSE
