SPECIFICATION Spec
CONSTANTS
  Call = {c1, c2}
  Reader = {r1, r2, r3}
  Free = Free
  Lost = Lost
  MaxConns = 3
SYMMETRY Symmetry
INVARIANTS TypeOK PendingIsInFlight CurrentConnHasReader RepliesAreOwn
PROPERTIES ImplementsRpcCalls
\* every call may have returned and the client be closed
CHECK_DEADLOCK FALSE
