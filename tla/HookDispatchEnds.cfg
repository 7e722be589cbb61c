CONSTANTS
  MaxPlugins = 2
  Apis <- OneApi
  Blocks = {b1, b2}
  NULL = NULL
  Results = {}
  TableSets <- FullTables
  MaxDepth = 2
  AllocMayFail = TRUE
SPECIFICATION FairSpec
INVARIANT NoFreedRead
PROPERTY CallsEnd
