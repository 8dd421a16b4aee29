CONSTANTS
  Docs = {1, 2, 3}
  Stems = {"a", "b"}
  StemOf <- MCStemOf
  PoolSize = 2
  MaxImports = 2
  MaxProcesses = 2

SPECIFICATION Spec

INVARIANT PairVouches
INVARIANT PairInMenu
INVARIANT SearchRight
