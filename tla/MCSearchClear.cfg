CONSTANTS
  NumDocs = 2
  NumQueries = 2
  PoolSize = 2
  Max = 2

SPECIFICATION Spec

INVARIANT ClearPreviousResults
