SPECIFICATION Spec
CONSTANTS
    Clients = {c1, c2}
    Handlers = {h1, h2}
    TopologyOf <- TwoTopologies
    j1 = j1
    j2 = j2
    c1 = c1
    c2 = c2
    Submissions <- MCSubmissions
    RateLimit = 2
    RateWindow = 1
    Timeout = 1
    Today = 7
    None = None
CONSTRAINT Bounds
INVARIANTS TypeOK RateBound OneRowPerIdentity ClosedJobsStayClosed TelemetryAddsUp
PROPERTIES FeedbackDecided
