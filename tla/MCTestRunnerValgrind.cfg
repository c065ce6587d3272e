SPECIFICATION Spec
CONSTANTS
  Worker = {w1, w2}
  Count = 1
  Example = {}
  Skip = {}
  MaxDead = 0
  Break = Break
  None = None
INVARIANT ValgrindErrorsListed
CHECK_DEADLOCK FALSE
