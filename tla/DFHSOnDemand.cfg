SPECIFICATION MCSpec
CONSTANTS
  r0 = r0  r1 = r1  r2 = r2  d0 = d0  d1 = d1  d2 = d2  e0 = e0  t0 = t0  t1 = t1
  c0 = c0  c1 = c1  n0 = n0  n1 = n1
  k0 = k0  p0 = p0  p1 = p1  p2 = p2
  m0 = m0  m1 = m1  m2 = m2  m3 = m3  g = g  mg = mg
  a4 = a4  a8 = a8  a12 = a12  y0 = y0  z0 = z0  none = none
  State <- TheState
  Action <- TheAction
  Transition <- TheTransition
  Goal <- TheGoal
  ActionCost <- TheActionCost
  TerminationCost <- TheTerminationCost
  Infinite <- INFINITE_VALUE
  Estimate <- TheEstimate
  Epsilon = 0
  NoAction = none
  OptimalValue <- TheOptimalValue
  Configs <- OnDemandConfigs
  InitialStates <- ConsistentStates
INVARIANTS
  Optimal
