CONSTANTS
  MaxItems = 30
  MaxSize = 9

SPECIFICATION Spec

INVARIANT Disjoint
INVARIANT Layout
INVARIANT Covered
