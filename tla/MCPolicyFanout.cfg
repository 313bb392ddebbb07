SPECIFICATION FairSpec
CONSTANTS
    Sandboxes = {s1}
    Snapshots = {p, q}
    Unmanaged = Unmanaged
    Absent = Absent
    ShardOf <- OneShard
    Calls = {c1, c2}
    Feed = Feed
    Slots = 2
    SaveFaults = {"failed", "committed"}
INVARIANTS
    RolloutHonest
    ResumeRemembered
PROPERTY
    FanoutEnds
