SPECIFICATION Spec
CONSTANTS
  Releases <- MCReleases
  WithManifest <- MCWithManifest
  MaxTransactions = 1
  MaxFaults = 1
  MaxDisturbances = 1
INVARIANT RecoveryRestores
CHECK_DEADLOCK FALSE
