SPECIFICATION Spec
CONSTANTS
    Threads = {t1}
    Requests <- MCRequests
    Catalog <- MCCatalog
    Noise <- MCNoise
    Samples = 2
    None = None
INVARIANTS NoCandidateIsReported
