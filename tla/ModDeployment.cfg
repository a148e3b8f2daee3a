SPECIFICATION Spec
CONSTANTS
  Releases <- MCReleases
  WithManifest <- MCWithManifest
  MaxTransactions = 2
  MaxFaults = 3
  MaxDisturbances = 1
INVARIANTS
  TypeOK
  PriorIsKept
  AdoptedIsKept
PROPERTIES
  AllOldOrAllNew
  OthersFilesSurvive
CHECK_DEADLOCK FALSE
