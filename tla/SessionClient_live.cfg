SPECIFICATION FairSpec
CONSTANTS
  Call = {c1}
  Reader = {r1, r2, r3}
  Free = Free
  Lost = Lost
  MaxConns = 3
PROPERTIES CallReturns ReadersStop
CHECK_DEADLOCK FALSE
