CONSTANTS
  a = a
  b = b
  c = c
  NULL = NULL
  MaxPlugins = 3
  Files = {a, b, c}
  loadable <- MCLoadable
  unloadable <- MCUnloadable
  family <- MCFamily
  level <- MCLevel
  Inis <- VariantInis
  Outcomes = {"ok", "nofile", "noattach"}
  AllocMayFail = FALSE
  MaxRefs = 2
SPECIFICATION IniSpec
INVARIANT OneVariant
PROPERTY StartupTakesBestVariant
CHECK_DEADLOCK FALSE
