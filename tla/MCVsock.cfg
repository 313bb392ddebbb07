SPECIFICATION FairSpec
CONSTANTS
    g = g
    h = h
    Keys = {g, h}
    HostKeys = {h}
    BufAlloc = 2
    GuestAlloc = 1
    Modulus = 3
    Capacity = 3
    Reserve = 1
    OutQMax = 4
    RxNum = 1
    TxNum = 2
    RxSizes = {"whole", "header"}
    Loads <- MCLoads
CHECK_DEADLOCK FALSE
INVARIANTS
    CreditHonoured
    
PROPERTIES
    
    CloseEnds
