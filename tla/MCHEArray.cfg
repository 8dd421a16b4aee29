CONSTANTS
  MaxLength = 5
  MaxValue = 2
  NSlots = 2
  P = 3

SPECIFICATION HESpec

INVARIANT HETypeOK
INVARIANT ScoreIsProduct
INVARIANT DifferentSizes
