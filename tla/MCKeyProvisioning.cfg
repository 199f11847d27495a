CONSTANTS
  s1 = s1  s10 = s10  h1 = h1  p1 = p1  p2 = p2
  None = None
  Servers <- TwoServers
  Hosts <- OneHost
  HostOf <- OnOneHost
  Within <- FirstWithin
  Passwords <- TwoPasswords
  MaxOps = 2
  MaxChanges = 1
  MaxFaults = 1
SPECIFICATION Spec
CHECK_DEADLOCK FALSE
INVARIANTS VerifiedWasAccepted
PROPERTIES AccessSurvives
