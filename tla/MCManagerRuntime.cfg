SPECIFICATION MCFairSpec
CONSTANTS
  Keys = {k}
  NoKey = NoKey
  Fingerprints = {f}
  MaxOperations = 1
  MaxSubscribers = 1
  EventBuffer = 1
  Processes = {1, 2}
  Requests = {1, 2}
  None = None
  MaxGenerations = 2
  MaxSubscriptions = 1
  MaxCalls = 2
  MaxEnrolling = 2
INVARIANTS
  OwnedUntilReleased
  OperationsSound
  StaysGoverned
PROPERTIES
  OutcomesKept
  ShutdownEnds
CHECK_DEADLOCK FALSE
