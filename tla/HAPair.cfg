SPECIFICATION FairSpec
CONSTANTS
    n1 = n1
    n2 = n2
    Nodes = {n1, n2}
    Settings <- MCSettings
    LocalAddr <- MCLocalAddr
    RemoteAddr <- Unicast
    MasterAdvertInterval = 500
    Quantum = 125
    MaxDelay = 250
    MaxCall = 250
    MaxLosses = 2
    MaxExits = 1
    MaxClock = 10000
INVARIANTS
    OneLeaderSoon
    OneStepsDown
PROPERTIES
    NoNeedlessTakeover
    Settles
