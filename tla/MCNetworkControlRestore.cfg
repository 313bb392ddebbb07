SPECIFICATION NetSpec
CONSTANTS
    Locals = {open, silent}
    Orgs = {none, strict}
    NoOrg = none
    SilentLocals = {silent}
    SilentOrgs = {strict}
    Forwards <- TwoGuests
    CallFaults = {}
    SaveFaults = {"failed", "committed"}
PROPERTY PortsUndone
