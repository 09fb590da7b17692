SPECIFICATION Spec
CONSTANTS
  Tool = {t1, t2}
  Closer = {}
  Conn = {k1, k2}
  Doc = {d1}
  Closed = Closed
  NoAnswer = NoAnswer
  MaxEdits = 1
INVARIANT OpenIsFirstOrReopen
\* every tool may have been answered
CHECK_DEADLOCK FALSE
