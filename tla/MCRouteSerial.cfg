CONSTANTS
  r1 = r1  r2 = r2
  p1 = p1  p2 = p2
  h1 = h1  h2 = h2
  Routes <- TwoRoutes
  Ports <- TwoPorts
  MaxNames = 1
  MaxRuns = 2
  Handlers <- OneHandler
  FirstClass = TRUE
  Requests = {"edit", "reconcile", "retry", "delete"}
  MaxFaults = 1
  OneRequestPerRoute = TRUE
  Timeouts = FALSE
  Disturbed = TRUE
  MaxRestarts = 0
SPECIFICATION Spec
SYMMETRY Symmetry
CHECK_DEADLOCK FALSE
PROPERTY ImplementsLedger
INVARIANTS
  AllocationFollowsStatus ActiveIsWhatWasBuilt
