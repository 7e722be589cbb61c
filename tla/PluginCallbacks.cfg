CONSTANTS
  MaxPlugins = 3
  a = a
  b = b
  c = c
  Files = {a, b, c}
  NULL = NULL
  Commands = {x}
  loadable <- MCLoadable
  unloadable <- MCUnloadable
  SelfNested = FALSE
  MaxDepth = 4
SYMMETRY MCSymmetry
VIEW WithoutUnread
SPECIFICATION Spec
INVARIANTS TypeOK UnloaderStays ChainNeverCrashes RunningIsOpen NoFlagAtRest
PROPERTY UnloadDisables
CHECK_DEADLOCK FALSE
