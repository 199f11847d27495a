SPECIFICATION MCSpec
CONSTANTS
  r1 = r1  r2 = r2  e1 = e1  e2 = e2
  Routes <- MCRoutes
  Emails <- MCEmails
  MaxHands = 2
  MaxFaults = 1
  MaxRuns = 3
SYMMETRY RouteSymmetry
INVARIANT LinkNotOlder
PROPERTY OthersKeepTheirClient
CHECK_DEADLOCK FALSE
