SPECIFICATION MCSpec
CONSTANTS
    Nil = Nil
    ip4 = ip4  ip6 = ip6  a1 = a1  a2 = a2  a3 = a3  a4 = a4  p1 = p1  p2 = p2
    b1 = b1  b2 = b2  b3 = b3  h1 = h1  h2 = h2
    Families = {"unicast", "anycast", "dual", "watermarks"}
    AFs = {ip4, ip6}
    Addrs = {a1, a2, a3, a4}
    Anycast <- MCAnycast
    Ports = {p1, p2}
    Backends = {b1, b2, b3}
    Healthchecks = {h1, h2}
    Configs <- AllConfigs
    Overrides <- AllOverrides
    AnycastEnabled = TRUE
CHECK_DEADLOCK FALSE
INVARIANTS ActivationCascade ActiveIsInstalled InstalledIsActive NeverFatal VIPFollowsServices
    RoutesFollowVIPs EnabledHoldsVIPs NoTrafficToFailing 
PROPERTY UpdateKeepsServing
