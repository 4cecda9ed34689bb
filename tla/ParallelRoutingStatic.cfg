\* Boxes change only by a retry with the whole device.
SPECIFICATION FairSpec
CONSTANTS
  n1 = n1
  n2 = n2
  n3 = n3
  n4 = n4
  Nets = {n1, n2, n3, n4}
  Fanout <- OneSink
  Width = 5
  Height = 5
  MinNets = 2
  Placements <- AllPlacements
  BBFactors = {0, 1}
  Dynamic = FALSE
  ConflictedAt = 9
  MaxIterations = 2
  MaxConvergence = 2
INVARIANTS
  TypeOK
  TreeOfRegions
  HomeHoldsBox
  DisjointRouting
  EveryNetVisited
  AssertsOnlyWhenTight
  IncompleteIsReported
PROPERTIES
  RouteTerminates
