SPECIFICATION Spec
CONSTANTS
  MaxCalls = 1
  MaxLen = 3
  Requests = {2}
  Answers = {2}
  ResponseLimit = 2
  Chunks = {1}
  OutCap = 1
  InCap = 1
  MaxInFlight = 1
  None = None
INVARIANT WholeRequestsAlways
CHECK_DEADLOCK FALSE
