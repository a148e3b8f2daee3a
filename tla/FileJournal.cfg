SPECIFICATION Spec
CONSTANTS
  Values = {r1, r2}
  MaxFrames = 4
INVARIANTS
  TypeOK
  OpenShowsAcknowledged
  AcknowledgedIsDurable
PROPERTY PromisedSpec
CHECK_DEADLOCK FALSE
