--------------------------- MODULE MCBridgeKernel ---------------------------
(***************************************************************************)
(* Instances of BridgeKernel.  Two plans contend for a resource: the first *)
(* one launches a game and may leave a session in the host's custody.      *)
(* Which plans require terminal settlement is said in the configuration.   *)
(***************************************************************************)
EXTENDS BridgeKernel, TLC

CONSTANTS launchPlan, savePlan, shared, private, k1, k2

MCPlanResources ==
  [p \in Plans |-> IF p = launchPlan THEN {shared} ELSE {shared, private}]

\* Plans that do not contend: their operations are in flight together.
MCDisjointResources ==
  [p \in Plans |-> IF p = launchPlan THEN {shared} ELSE {private}]

\* The liveness instance follows one host while it lives and its journal is
\* healthy, and every plan is committed in time: none of what is left out leaves
\* an operation waiting.  Its two plans differ in nothing but their resources
\* and its keys in nothing at all, so each operation is given one of each; the
\* order of identities, which the pump goes by, stays free.
MCCommitOf(o) ==
  IF o = 1 THEN [epoch |-> 1, plan |-> launchPlan, key |-> k1]
           ELSE [epoch |-> 1, plan |-> savePlan, key |-> k2]
MCServing ==
  /\ up' /\ ~poisoned' /\ expired' = {}
  /\ \A o \in DOMAIN durable' : durable'[o].commit = MCCommitOf(o)
MCFairSpec == Init /\ [][Next /\ MCServing]_vars /\ Fairness

\* Keys are only compared for equality.
KeySymmetry == Permutations(Keys)
=============================================================================
