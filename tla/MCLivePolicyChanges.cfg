SPECIFICATION Spec
CONSTANTS
    none = none
    old = old
    new = new
    x = x
    y = y
    Locals = {open, silent}
    Orgs = {none, new}
    NoOrg = none
    SilentLocals = {silent}
    SilentOrgs = {new}
    Forwards <- OneUdp
    CallFaults = {}
    SaveFaults = {"failed", "committed"}
    Tags = {a}
    Sources = {x, y}
    NoShare = NoShare
    Denied <- NewDeniesY
    ManifestFaults = {"failed"}
\* a boot may be refused, and the sandbox then stays down
CHECK_DEADLOCK FALSE
INVARIANT BootAgrees
 
INVARIANT SharesSaved
