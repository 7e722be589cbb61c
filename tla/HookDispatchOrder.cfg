CONSTANTS
  MaxPlugins = 3
  Apis <- OneApi
  Blocks = {b1}
  NULL = NULL
  Results <- Supercede
  TableSets <- FullTables
  MaxDepth = 2
  AllocMayFail = FALSE
SPECIFICATION Spec
INVARIANT StatusIsOwnCalls
PROPERTY ImplementsOrderedDispatch
