SPECIFICATION Spec
CONSTANTS
  Keys = {k1, k2}
  MaxPlans = 2
  MaxCalls = 3
  MaxReplays = 2
  None = None
SYMMETRY KeySymmetry
INVARIANTS
  TypeOK
  ForgottenIsSettled
  RepetitionIsExact
  RecordedOperationIsOwn
  UncertainIsRetained
PROPERTY GivenUpWasNeverSent
CHECK_DEADLOCK FALSE
