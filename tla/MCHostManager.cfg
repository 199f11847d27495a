SPECIFICATION Spec
CONSTANTS
  a = a
  b = b
  Names = {a, b}
  n1 = n1
  n2 = n2
  Nets = {n1, n2}
  l1 = l1
  l2 = l2
  Links = {l1, l2}
  p = p
  q = q
  Ports = {p, q}
  Requested <- MCRequested
  None = None
  MaxEvents = 3
INVARIANTS
  FilesDisjoint
  NoStaleRules
  UpForwards
PROPERTIES
  EditAllOrNothing
  TunnelsComeBack
