CONSTANTS
  r1 = r1  r2 = r2
  p1 = p1  p2 = p2
  h1 = h1  h2 = h2
  Routes <- OneRoute
  Ports <- TwoPorts
  MaxNames = 1
  MaxRuns = 2
  Handlers <- TwoHandlers
  FirstClass = TRUE
  Requests = {"edit", "retry"}
  MaxFaults = 1
  OneRequestPerRoute = FALSE
  Timeouts = TRUE
  Disturbed = FALSE
  MaxRestarts = 1
SPECIFICATION Spec
SYMMETRY Symmetry
CHECK_DEADLOCK FALSE
INVARIANTS PortMirror RollbackComplete
