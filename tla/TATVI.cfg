SPECIFICATION Spec
CONSTANTS
  x0 = x0  x1 = x1  j0 = j0  v0 = v0  v1 = v1  v2 = v2  v3 = v3
  w0 = w0  w2 = w2  w3 = w3  w4 = w4  w5 = w5  i0 = i0  i1 = i1
  q0 = q0  q1 = q1  q2 = q2  u0 = u0  u1 = u1  h0 = h0  h1 = h1
  s0 = s0  s1 = s1  s2 = s2  c0 = c0  d0 = d0  d1 = d1  p0 = p0  p1 = p1  p2 = p2
  f0 = f0  f1 = f1  f2 = f2  r0 = r0  r1 = r1  l0 = l0  l1 = l1  b0 = b0  b1 = b1
  dd = dd  g = g  mg = mg
  a4 = a4  a8 = a8  a12 = a12  y0 = y0  z0 = z0  none = none
  State <- TheState
  Action <- TheAction
  Transition <- TheTransition
  Goal <- TheGoal
  ActionCost <- TheActionCost
  TerminationCost <- TheTerminationCost
  Infinite <- INFINITE_VALUE
  Estimate <- TheEstimate
  Epsilon = 0
  NoAction = none
  OptimalValue <- TheOptimalValue
  Denominator <- TheDenominator
  InitialStates <- MCInitialStates
INVARIANTS
  TypeOK
  NoTrapLeft
  PartitionAgrees
  CountersAgree
  ClosedOptimal
PROPERTIES
  Termination
