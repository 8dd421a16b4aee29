CONSTANTS
  NumDocs = 3
  NumQueries = 2
  PoolSize = 2
  Max = 2

SPECIFICATION FairSpec

INVARIANT TypeOK
INVARIANT ResultsAccounted
INVARIANT FreshScores
INVARIANT OwnResults
INVARIANT ExactResults
PROPERTY MainOwnsResults
PROPERTY Implements
PROPERTY SearchReturns
PROPERTY EventsArrive
