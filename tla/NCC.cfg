CONSTANTS
    None = None
    Lb = "eth1"
    Dummy = "dummy0"
    VLANs = {"eth1.2"}
    VIPs <- MCVIPs
    Home <- MCHome
    IPv6 <- MCIPv6
    FWM <- MCFWM
    NAT <- MCNAT
    MaxVIPs = 2
    MaxEvents = 1
SPECIFICATION MCSpec
INVARIANTS VIPGuarded KernelFollows CallsSucceed
