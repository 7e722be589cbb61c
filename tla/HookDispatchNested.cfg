CONSTANTS
  MaxPlugins = 2
  Apis <- OneApi
  Blocks = {b1, b2}
  NULL = NULL
  Results = {}
  TableSets <- FullTables
  MaxDepth = 3
  AllocMayFail = FALSE
SPECIFICATION Spec
SYMMETRY BlockSymmetry
INVARIANT TypeOK
INVARIANT StaleIsSignalled
INVARIANT ReadsCurrentList
