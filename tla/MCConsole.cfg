SPECIFICATION MCSpec
CONSTANTS
  Routes = {1, 2}
  Pollers = {p1}
  MaxEvents = 2
  MaxAttempts = 2
  MaxRestarts = 1
  MaxClicks = 2
  MaxLost = 1
  Servers = {1, 2}
  MaxCalls = 2
  MaxForms = 2
  MaxLoads = 2
  MaxRuns = 1
  MaxOutages = 1
  NoValue = NoValue
  Typed = Typed
  Pages = {1, 2}
  Browsers = {1, 2}
  MaxSessions = 2
  MaxPasswords = 2
  MaxSecrets = 2
  MaxWrong = 1
  MaxFails = 1
  Panels = {1, 2}
  MaxProbes = 2
  MaxUpgrades = 1
  Terms = {t1, t2}
  Blank = Blank
  MaxAsks = 3
  MaxSeq = 3
  Editors = {"A", "B"}
  Fields = {"key", "ports"}
  Clearable = {"ports"}
  Empty = Empty
  Entries = {x, y}
  MaxEdits = 2
INVARIANTS
  FinishedShowsAll
  NoLostWakeup
  TypedWhereShown
  SecondFactorHeld
  StoredModelWasServed
  BuiltOnAKnownPair
  SuggestedFromItsServer
PROPERTIES
  StaleIsNeutral
  FollowEnds
  OffersNewest
  UntouchedFieldsStay
CHECK_DEADLOCK FALSE
