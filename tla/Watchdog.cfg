CONSTANTS
    engine = engine  ha = ha  healthcheck = healthcheck
    None = None
    Services = {engine, ha, healthcheck}
    Dependency <- MCDependency
    MaxExits = 1
SPECIFICATION Spec
PROPERTIES KeepsOrder StartedAgain ShutdownEnds
CHECK_DEADLOCK FALSE
