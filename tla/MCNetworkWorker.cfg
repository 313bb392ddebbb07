SPECIFICATION FairSpec
CONSTANTS
    Policies = {boot, silent, loop}
    Boot = boot
    UdpReplies = {boot}
    Unacceptable = {loop}
    Forwards <- OneUdpPort
    Unpublishable <- NoPorts
    CacheSize = 1
    Failing = TRUE
    MaxPolicyCalls = 2
    MaxPortCalls = 1
    MaxLost = 2
\* the sandbox ends with its worker
CHECK_DEADLOCK FALSE
INVARIANTS
    UdpRepliesAllowed
    OutcomesKnown
PROPERTIES
    StopsOnlyWhenAmbiguous
    BackendSpec
    CallsReturn
