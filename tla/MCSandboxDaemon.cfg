\* Two control connections and every outcome of a save; three revisions
\* stand for the 64-bit counter.
CONSTANTS
    SaveFaults = {"failed", "committed"}
    Settings <- MCSettings
    Valid <- MCValid
    Updates <- MCUpdates
    ResourceUpdates <- MCResourceUpdates
    Others = {"plain", "helper"}
    ToolsRequired = {"helper"}
    Applied <- MCApplied
    MaxRevision = 3
    Handlers = {h1, h2}
    MaxTime = 2
    Loads <- MCLoads
SPECIFICATION FairSpec
INVARIANTS ServicesFollow BorrowersFirst
PROPERTIES TransactionsIsolated ExpiryExact TeardownEnds
\* A daemon with nothing to do waits, and one that stopped stays stopped.
CHECK_DEADLOCK FALSE
