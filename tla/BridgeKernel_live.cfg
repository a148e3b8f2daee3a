SPECIFICATION MCFairSpec
CONSTANTS
  launchPlan = launchPlan
  savePlan = savePlan
  shared = shared
  private = private
  k1 = k1
  k2 = k2
  Operations = {1, 2}
  Plans = {launchPlan, savePlan}
  Keys = {k1, k2}
  Resources = {shared, private}
  PlanResources <- MCDisjointResources
  LaunchPlans = {}
  SettledPlans = {launchPlan, savePlan}
  MaxOperations = 2
  MaxPreparations = 2
  MaxIssuedPlans = 2
  MaxEpoch = 1
  PortFaults = FALSE
CHECK_DEADLOCK FALSE
PROPERTY AdmittedIsServed
