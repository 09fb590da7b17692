SPECIFICATION Spec
CONSTANTS
  Tool = {t1, t2}
  Closer = {c1}
  Conn = {k1, k2}
  Doc = {d1}
  Closed = Closed
  NoAnswer = NoAnswer
  MaxEdits = 1
SYMMETRY Symmetry
INVARIANTS TypeOK OpenedOnce OpenDocsAgree AnswerIsFresh
\* every tool may have been answered
CHECK_DEADLOCK FALSE
