CONSTANTS
  policy = policy
  franka = franka
  Threads = {policy, franka}
  Runs = {"run1", "run2"}
  Authorizations <- MCAuthorizations
  MaxGateTime = 2
SPECIFICATION Spec
INVARIANTS
  ArmedMeansSafe
  AuthorizationSpentOnce
  NoFalseRegression
CHECK_DEADLOCK FALSE
