CONSTANTS
  a = a
  b = b
  c = c
  NULL = NULL
  MaxPlugins = 2
  Files = {a, b}
  loadable <- TwoLoadable
  unloadable <- TwoUnloadable
  family <- TwoFamily
  level <- TwoLevel
  Inis <- ShortInis
  Outcomes = {"ok", "noquery", "nodetach"}
  AllocMayFail = TRUE
  MaxRefs = 2
SPECIFICATION Spec
VIEW WithoutLast
INVARIANTS TypeOK InfoIsMapped HookedIsRunning LoaderIsThere UniquePathnames
PROPERTIES ChangelevelLoadsWaiting ChangelevelFollowsIni RequestsNeverWait
CHECK_DEADLOCK FALSE
