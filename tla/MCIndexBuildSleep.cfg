CONSTANTS
  NumDocs = 2
  Words = {1, 2}
  Texts <- MCTexts
  PoolSize = 2
  Max = 2

SPECIFICATION Spec

INVARIANT LetItFinishCompletely
