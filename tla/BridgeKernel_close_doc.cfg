SPECIFICATION Spec
CONSTANTS
  launchPlan = launchPlan
  savePlan = savePlan
  shared = shared
  private = private
  k1 = k1
  k2 = k2
  Operations = {1}
  Plans = {savePlan}
  Keys = {k1}
  Resources = {shared, private}
  PlanResources <- MCPlanResources
  LaunchPlans = {}
  SettledPlans = {}
  MaxOperations = 2
  MaxPreparations = 2
  MaxIssuedPlans = 2
  MaxEpoch = 1
  PortFaults = TRUE
CHECK_DEADLOCK FALSE
PROPERTY CloseWaitsForOwnerBoundary
