SPECIFICATION Spec
CONSTANTS
    Jobs = {j1, j2}
    Keys = {k1}
    Handlers = {h1}
    Reviewers = {h1}
    Workers = {w}
    None = None
    MaxFaults = 0
    MaxCrashes = 1
    CancelAllowed = FALSE
PROPERTIES QueueDrains JobsSettle UndisturbedColumns
