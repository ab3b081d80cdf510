SPECIFICATION Spec
CONSTANTS
    Schedulers = {s1}
    Approvers = {a1}
    Telemetry <- MCTelemetry
    MinSamples = 20
    MaxProposals = 1
    MaxPromotions = 1
    MaxDeaths = 0
    None = None
CHECK_DEADLOCK FALSE
INVARIANTS PromotedPolicyLoads
