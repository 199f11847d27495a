SPECIFICATION MCSpec
CONSTANTS
  Keys = {k1}
  Tasks = {"full", "health"}
  Callers = {c1, c2}
  Concurrency = 2
  MaxJobs = 3
  MaxVersion = 2
  MaxRestarts = 1
  MaxLost = 1
  MaxSignOuts = 1
  Managed <- MCManaged
  RolesAt <- MCRolesAt
  StatusAt <- MCStatusAt
INVARIANTS
  GroupsWereRead
  CardAndDrawerAgree
PROPERTIES
  SnapshotNeverOlder
  PageCatchesUp
CHECK_DEADLOCK FALSE
