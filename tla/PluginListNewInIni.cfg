CONSTANTS
  a = a
  b = b
  c = c
  NULL = NULL
  MaxPlugins = 2
  Files = {a, b, c}
  loadable <- MCLoadable
  unloadable <- MCUnloadable
  family <- MCFamily
  level <- MCLevel
  Inis <- CInis
  Outcomes = {"ok"}
  AllocMayFail = FALSE
  MaxRefs = 2
SPECIFICATION IniSpec
PROPERTY ChangelevelLoadsAllWaiting
CHECK_DEADLOCK FALSE
