SPECIFICATION FairSpec
CONSTANTS
    none = none
    old = old
    new = new
    x = x
    y = y
    Locals = {open}
    Orgs = {none, new}
    NoOrg = none
    SilentLocals = {}
    SilentOrgs = {new}
    Forwards <- NoForwards
    CallFaults = {"error"}
    SaveFaults = {"failed", "committed"}
    Tags = {a}
    Sources = {y}
    NoShare = NoShare
    Denied <- NewDeniesY
    ManifestFaults = {"failed"}
\* a boot may be refused, and the sandbox then stays down
CHECK_DEADLOCK FALSE
INVARIANT OneGeneration
PROPERTY UpdatesEnd
