CONSTANTS
    v1 = v1  s1 = s1  s2 = s2  b1 = b1  b2 = b2
    None = None
    Nobody = None
    Vservers = {v1}
    CheckSets <- MCSets
    Valid <- MCValid
    Marks <- MCMarks
    MaxEvents = 2
    Slots = {1, 2}
    Retries = 1
    ChannelSize = 1
    BatchSize = 2
    MaxFailures = 2
    Backends = {b1, b2}
SPECIFICATION MCSpec
INVARIANTS ProbedOwn MarksRoute
PROPERTY EngineLearns
