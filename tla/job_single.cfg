SPECIFICATION Spec
CONSTANTS
    Jobs = {j1, j2, j3}
    Keys = {k1}
    Handlers = {h1, h2}
    Reviewers = {h1}
    Workers = {}
    None = None
    MaxFaults = 0
    MaxCrashes = 0
    CancelAllowed = FALSE
CONSTRAINT FewReviews
INVARIANTS KeyRaceBounded
PROPERTIES LifecycleSpec
