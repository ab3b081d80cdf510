SPECIFICATION Spec
CONSTANTS
    Jobs = {j1}
    Keys = {k1}
    Handlers = {h1, h2}
    Reviewers = {h1, h2}
    Workers = {w}
    None = None
    MaxFaults = 2
    MaxCrashes = 1
    CancelAllowed = TRUE
SYMMETRY Symmetry
INVARIANTS TypeOK ReviewInvariant StrandedOnlyByFailure OwnershipInvariant FailuresExplained
