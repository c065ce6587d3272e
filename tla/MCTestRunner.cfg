SPECIFICATION FairSpec
CONSTANTS
  Worker = {w1, w2}
  Count = 4
  Example = {2}
  Skip = {3}
  MaxDead = 1
  Break = Break
  None = None
INVARIANTS
  TypeOK
  JobsConserved
  AtMostOneLate
  ExitCodeHonest
PROPERTY Ends
CHECK_DEADLOCK FALSE
