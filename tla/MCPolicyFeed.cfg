SPECIFICATION FairSpec
CONSTANTS
    Hosts = {h1}
    Bundles = {a}
    None = None
    SaveFaults = {"failed"}
    Rings = 2
    MaxGeneration = 2
    MaxFaults = 1
    Drafts = {}
    Expiring = {}
    Responses <- MCResponses
    Headers <- MCHeaders
INVARIANTS
    ConsoleHonest
    NeverRefused
PROPERTIES
    ImplementsRollout
    Converges
