SPECIFICATION Spec
CONSTANTS
  Owner = {"module", "caller"}
  MaxEpoch = 1
INVARIANTS ReleasedOnce RestartNoticed NotReaped
PROPERTIES ContextEndsAll
CHECK_DEADLOCK FALSE
