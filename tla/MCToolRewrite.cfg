SPECIFICATION Spec
CONSTANTS
  Thread = {t1}
  None = None
  Calls <- TwoFields
INVARIANT RewriteReachesToolAlways
