SPECIFICATION Spec
CONSTANTS
    Threads = {t1, t2}
    Requests <- MCRequests
    Catalog <- MCCatalog
    Noise <- MCNoise
    Samples = 2
    None = None
SYMMETRY Symmetry
INVARIANTS TypeOK AloneReproducible DominantIsStable SelectionHonoured
