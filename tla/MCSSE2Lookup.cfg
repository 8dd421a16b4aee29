CONSTANTS
  NumDocs = 3
  Words <- MCWords
  Stems = {s1, s2, s3}
  Base = 2

SPECIFICATION Spec

SYMMETRY Symmetry

INVARIANT TypeOK
INVARIANT NoFalseHits
INVARIANT NoMisses
