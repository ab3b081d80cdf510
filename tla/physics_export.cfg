SPECIFICATION Spec
CONSTANTS
    Designs <- MCDesigns
    Companions <- MCCompanions
    Requirements <- MCRequirements
    PowerA = 1200
    PowerB = 500
    MaxRuns = 2
CHECK_DEADLOCK FALSE
INVARIANTS TypeOK FilesInOrder VerdictsAgree HeatGrowsWithDuty TablesShowFailure ComparisonIsSound
