SPECIFICATION ReceiverSpec
CONSTANTS
    Hosts = {h1}
    Bundles = {a, b}
    None = None
    SaveFaults = {"failed", "committed"}
    Expiring = {}
    MaxGeneration = 3
    ETags = {1, 2}
    Responses <- MCResponses
SYMMETRY Symmetry
INVARIANTS
    RestartSound
    OneBodyPerGeneration
    ReportsTrue
PROPERTY
    NeverRollsBack
