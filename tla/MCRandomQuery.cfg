CONSTANTS
  NumDocs = 2
  Words <- MCWords
  Stems = {s1, s2}
  Base = 2

SPECIFICATION Spec

SYMMETRY Symmetry

INVARIANT PicksFromDictionary
