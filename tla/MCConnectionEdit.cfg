CONSTANTS
  c1 = c1  c2 = c2
  i1 = i1  i2 = i2
  f1 = f1  f2 = f2
  n1 = n1  n2 = n2  n3 = n3
  p1 = p1  p2 = p2  p3 = p3
  q1 = q1  q2 = q2  q3 = q3
  None = None
  Conns <- TwoConns
  Irans <- TwoIrans
  Foreigns <- TwoForeigns
  Names <- SomeNames
  Params <- SomeParams
  PortLists <- SomePorts
  Start <- ApartStart
  Edits <- AllEdits
  MaxOps = 3
  MaxFaults = 1
SPECIFICATION Spec
CHECK_DEADLOCK FALSE
INVARIANTS LocksExact MoveKeepsAPath
PROPERTIES CommitInPlace CleanRollback
