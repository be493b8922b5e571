CONSTANTS
    None = None
    Unreadable = Unreadable
    Versions <- MCVersions
    Backend = "backend"
    Overridable = {"c", "backend"}
    VsLimit = 1
    UpdateSize = 2
    OverrideSize = 1
    MaxEvents = 2
SPECIFICATION Spec
 
PROPERTIES NeverAllAtOnce 
CHECK_DEADLOCK FALSE
