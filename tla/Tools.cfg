SPECIFICATION ToolsSpec
CONSTANTS
  f1 = f1
  f2 = f2
  f3 = f3
  Fun = {f1, f2, f3}
  Root = f1
  Entry = {f2}
  Programs <- SmallPrograms
  DepthInputs = {0, 1}
  NodeInputs = {0, 2}
  HardLimitNodes = 7
  Slots = 2
  MaxItems = 2
  Language = {l1, l2, l3}
  Hit = {1, 2, 3, 4, 5}
  PageCases <- Searches
  PageLimits = {0, 1, 2, 3}
  a = a
  b = b
  x = x
  e1 = e1
  e2 = e2
  e3 = e3
  e4 = e4
  File = {e1, e2, e3, e4}
  Allowed = {e1, e2, e3}
  NewLine = NewLine
  Absent = Absent
  Torn = Torn
  EditCases <- WorkspaceEditCases
  drive = drive
  proj = proj
  projects = projects
  home = home
  dirA = dirA
  fileA = fileA
  HostRoot <- HostPath
  ContainerRoot <- ContainerPath
  Cwd <- HomePath
  DiskFiles <- FilesOnDisk
  PathCases <- FileNames
  CtxCaller = {q1, q2}
  Top = Top
  cmd = cmd
  NoExt = NoExt
  Patterns <- TriedDirs
  Extensions <- TriedExtensions
  GuessedExt = ".js"
  CtxAsked = {NoExt, ".go"}
  CtxDisks <- DisksBefore
  CtxTTL = 1
  MaxCtxClock = 3
  MaxCtxChanges = 1
  LineEnd = LineEnd
  RangeCases <- Ranges
  AnLanguage = {l1, l2}
  MaxErrors = 10
  MaxRuns = 2
  Key = {k1, k2, k3, k4}
  Value = {v1}
  MaxSize = 3
  DefaultTTL = 2
  TTLs = {0, 1}
  MaxClock = 3
INVARIANTS ToolsTypeOK CallGraphSound AnswersSound GatheredOnce PagesSound
  TextsSound PathsSound AnalyzerSound
 
\* every part comes to its end
CHECK_DEADLOCK FALSE
