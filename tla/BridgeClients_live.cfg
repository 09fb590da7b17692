SPECIFICATION FairSpec
CONSTANTS
  Main = Main
  Tool = {t1}
  AutoConnect = {a1}
  Warm = {w1}
  MaxClients = 2
  MaxTicks = 1
  MaxTouches = 1
PROPERTIES  BackgroundEnds
CHECK_DEADLOCK FALSE
