CONSTANTS
  NumDocs = 4
  Words = {1, 2}
  Texts <- MCTexts
  PoolSize = 2
  Max = 1

SPECIFICATION FairSpec

INVARIANT TypeOK
INVARIANT ReadOnce
INVARIANT CommitOrder
INVARIANT FailsOnlyWithoutWords
PROPERTY MainOwnsIndex
PROPERTY StartupReturns
PROPERTY EveryDocumentIndexed
