SPECIFICATION Spec
CONSTANTS
  n1 = n1
  n2 = n2
  n3 = n3
  n4 = n4
  Nets = {n1, n2, n3, n4}
  Fanout <- OneSink
  Width = 5
  Height = 5
  MinNets = 2
  Placements <- TreePlacement
  BBFactors = {1}
  Dynamic = FALSE
  ConflictedAt = 9
  MaxIterations = 3
  MaxConvergence = 1
INVARIANTS
  SuccessIsComplete
