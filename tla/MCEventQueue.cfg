CONSTANTS
  Producers = {p1, p2, p3}
  Consumer = consumer
  Max = 2
  Burst = 2
  NULL = null

SPECIFICATION FairSpec

INVARIANT Conservation
INVARIANT DequeueFindsEvent
PROPERTY Implements
PROPERTY EveryEventHandled
PROPERTY EnqueueReturns
