SPECIFICATION FairSpec
CONSTANTS
    VCPUs = {0, 1}
    Boot = 0
    Closers = {c1, c2}
    Runner = Runner
    MaxConns = 1
INVARIANTS
    NoUseAfterRelease
    ClosedMeansReleased
PROPERTIES
    CloseReturns
CHECK_DEADLOCK FALSE
