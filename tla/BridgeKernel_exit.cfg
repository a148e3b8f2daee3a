SPECIFICATION Spec
CONSTANTS
  launchPlan = launchPlan
  savePlan = savePlan
  shared = shared
  private = private
  k1 = k1
  k2 = k2
  Operations = {1, 2}
  Plans = {launchPlan, savePlan}
  Keys = {k1, k2}
  Resources = {shared, private}
  PlanResources <- MCPlanResources
  LaunchPlans = {launchPlan}
  SettledPlans = {launchPlan}
  MaxOperations = 2
  MaxPreparations = 2
  MaxIssuedPlans = 2
  MaxEpoch = 2
  PortFaults = FALSE
CHECK_DEADLOCK FALSE
SYMMETRY KeySymmetry
INVARIANT PoisonedHostDefersExit
PROPERTIES
  ExitLeavesNothingOpen
  PublicationNotDropped
