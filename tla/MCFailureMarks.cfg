SPECIFICATION Spec
CONSTANTS
  Thread = {t1}
  None = None
  Calls <- Searching
INVARIANT FailuresAreMarked
