SPECIFICATION Spec
CONSTANTS
  File = {f1, f2}
  Absent = Absent
  MaxEdits = 2
  MaxClock = 1
  MaxWork = 1
INVARIANT WatcherSuffices
