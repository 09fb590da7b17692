SPECIFICATION Spec
CONSTANTS
  Call = {c1}
  Reader = {r1, r2}
  Free = Free
  Lost = Lost
  MaxConns = 2
INVARIANT TimeoutIsHarmless
CHECK_DEADLOCK FALSE
