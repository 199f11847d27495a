SPECIFICATION MCSpec
CONSTANTS
  MinLegal = 2
  Margin = 0
  Tolerance = 0
  None = None
  Mtus <- MCMtus
  Overhead = 1
  Path <- MCPath
  Nic <- MCNic
  CliProbes = TRUE
  Codes <- MCCodes
  MtuCode = "mtu_mismatch"
  Deep <- MCDeep
  Handled <- MCHandled
  Window = 2
  MaxOps = 3
  MaxFaults = 2
INVARIANTS
  SummaryIsLive
  FitsWhatWasMeasured
PROPERTIES
  HealthyMeansBothClean
CHECK_DEADLOCK FALSE
