SPECIFICATION Spec
CONSTANTS
  t0 = t0  t1 = t1  t2 = t2  t3 = t3  t4 = t4  t5 = t5  td = td
  q0 = q0  q1 = q1  q2 = q2  q3 = q3  qd = qd  g = g  mg = mg
  a4 = a4  a8 = a8  a12 = a12  y0 = y0  z0 = z0  none = none
  State <- TheState
  Action <- TheAction
  Transition <- TheTransition
  Goal <- TheGoal
  ActionCost <- TheActionCost
  TerminationCost <- TheTerminationCost
  Infinite <- INFINITE_VALUE
  Estimate <- TheEstimate
  Epsilon = 0
  NoAction = none
  OptimalValue <- TheOptimalValue
  Configs <- MCConfigs
  InitialStates <- ChoiceStates
  StorePolicy = TRUE
INVARIANTS
  Optimal
