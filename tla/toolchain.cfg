SPECIFICATION Spec
CONSTANTS
    Handlers = {h1, h2}
    c1 = c1
    c2 = c2
    Candidates = {c1, c2}
    FactsOf <- MCFactsOf
    Installations <- MCInstallations
    Requests <- MCRequests
    None = None
    MaxRuns = 2
    MaxGenerations = 2
    MaxCrashes = 1
SYMMETRY Symmetry
CHECK_DEADLOCK FALSE
INVARIANTS TypeOK RunsAreRecorded RecordedFilesCurrent GeometryIsFed RunsAreHonest OutputsAreSound
