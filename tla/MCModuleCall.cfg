SPECIFICATION Spec
CONSTANTS
  MaxCalls = 2
  MaxLen = 3
  Requests = {0, 2}
  Answers = {2, 3}
  ResponseLimit = 2
  Chunks = {0, 1}
  OutCap = 1
  InCap = 1
  MaxInFlight = 1
  None = None
INVARIANTS WholeRequests LeftIsCancelled HalvesAccounted
PROPERTIES IsRemoteCall CallReturns
CHECK_DEADLOCK FALSE
