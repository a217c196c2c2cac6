SPECIFICATION Spec
CONSTANTS
  Thread = {t1}
  None = None
  Calls <- AllCalls
INVARIANTS OkMeansSucceeded WritesTracked RefusedHasNoEffect ModeIsOwn RewriteReachesTool 
PROPERTY EveryCallAudited
