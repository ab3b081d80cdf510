SPECIFICATION Spec
CONSTANTS
    Jobs = {j1}
    Keys = {k1}
    Handlers = {h1, h2}
    Reviewers = {h1, h2}
    Workers = {}
    None = None
    MaxFaults = 0
    MaxCrashes = 0
    CancelAllowed = FALSE
PROPERTIES DecisionIsFinal
