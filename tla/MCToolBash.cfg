SPECIFICATION Spec
CONSTANTS
  Cap = 1
  Discard = 1
  PipeCap = 2
  MaxWrite = 2
  Deadline = 1
INVARIANTS OutputComplete NothingLeftBehind SuccessIsReal
PROPERTIES PipesDrained BashReturns
CHECK_DEADLOCK FALSE
