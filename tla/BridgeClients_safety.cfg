SPECIFICATION Spec
CONSTANTS
  Main = Main
  Tool = {t1, t2}
  AutoConnect = {a1}
  Warm = {w1, w2}
  MaxClients = 2
  MaxTicks = 1
  MaxTouches = 1
INVARIANTS TypeOK NoLeakAlone KeysAgree OneWarmup
SYMMETRY Symmetry
CHECK_DEADLOCK FALSE
