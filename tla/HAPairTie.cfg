SPECIFICATION Spec
CONSTANTS
    n1 = n1
    n2 = n2
    Nodes = {n1, n2}
    Settings <- SameSettings
    LocalAddr <- MCLocalAddr
    RemoteAddr <- Multicast
    MasterAdvertInterval = 500
    Quantum = 125
    MaxDelay = 250
    MaxCall = 250
    MaxLosses = 0
    MaxExits = 0
    MaxClock = 10000
INVARIANT
    HigherAddressStays
