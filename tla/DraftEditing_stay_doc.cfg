SPECIFICATION Spec
CONSTANTS
  Edits = {edit}
  NoEdits = none
  MaxTargets = 2
  MaxDocuments = 2
  MaxDrafts = 2
  MaxRevision = 2
  MaxFaults = 1
  MaxRequests = 2
  Nothing = Nothing
  Unanswered = Unanswered
INVARIANT StayAvailable
CHECK_DEADLOCK FALSE
