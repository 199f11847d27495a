SPECIFICATION FairQueueSpec
CONSTANTS
  Keys = {k1, k2, k3}
  Tasks = {t1}
  Callers = {c1, c2, c3}
  Concurrency = 1
  MaxJobs = 4
INVARIANTS
  StartsInOrder
PROPERTIES
  ImplementsSlots EveryCallReturns
CHECK_DEADLOCK FALSE
