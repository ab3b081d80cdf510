SPECIFICATION Spec
CONSTANTS
    Schedulers = {s1, s2}
    Approvers = {a1, a2}
    Telemetry <- MCTelemetry
    MinSamples = 20
    MaxProposals = 3
    MaxPromotions = 2
    MaxDeaths = 1
    None = None
SYMMETRY Symmetry
CHECK_DEADLOCK FALSE
INVARIANTS TypeOK HighBelowMedium ActiveWasApproved ActiveIsOnRecord
