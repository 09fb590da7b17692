SPECIFICATION PersistentSpec
CONSTANTS
  Main = Main
  Tool = {t1}
  AutoConnect = {a1}
  Warm = {w1}
  MaxClients = 2
  MaxTicks = 1
  MaxTouches = 1
PROPERTIES Recreated
CHECK_DEADLOCK FALSE
