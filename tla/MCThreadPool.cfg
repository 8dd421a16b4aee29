CONSTANTS
  Threads = {w1, w2, w3}
  Main = main
  NULL = null
  NumTasks = 4

SPECIFICATION FairSpec

INVARIANT TaskConservation
INVARIANT BarrierComplete
PROPERTY NoOverwrite
PROPERTY Implements
PROPERTY EveryTaskRuns
PROPERTY MainReturns
