SPECIFICATION BackgroundSpec
CONSTANTS
  Call = {r1, r2}
  Probe = {q1}
  Free = Free
  Garbage = Garbage
  PipeCap = 1
  MaxNotes = 1
  Client = {c1, c2}
  Nobody = Nobody
  MaxSends = 2
  d0 = d0
  d1 = d1
  d2 = d2
  d3 = d3
  d4 = d4
  g1 = g1
  g2 = g2
  g3 = g3
  g4 = g4
  hidden = hidden
  Folder = {d0, d1, d2, d3, d4, hidden}
  Workspace = d0
  Listing <- Tree
  Ignored = {hidden}
  Source = {g1, g3, g4}
  Worker = {w1, w2}
  Capacity = 1
  Top = {t1}
  Sub = {s1}
  MaxOps = 3
  Token = {p1, p2}
  FileCount = 2
  MaxStarts = 4
  MaxInStream = 2
  Conn = {k1, k2}
  Burst = 1
  MaxCalls = 8
  MaxWindow = 2
INVARIANTS BackgroundTypeOK RoomForResponse ProxyServesAlone ScanComplete
  FsAccounted StatusTellsIndexing LimiterAccounts
PROPERTIES RequestsReturn ImplementsRpcCalls ScanEnds TokensAreCreated
\* every part may come to its end
CHECK_DEADLOCK FALSE
