SPECIFICATION ServiceSpec
CONSTANTS
    Hosts = {h1}
    Bundles = {a, b}
    None = None
    SaveFaults = {"failed", "committed"}
    Rings = 2
    MaxGeneration = 2
    Drafts = {a, b}
    Headers <- MCHeaders
SYMMETRY Symmetry
INVARIANTS
    NoLostWakeup
    SentIsDurable
