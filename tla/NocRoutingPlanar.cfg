SPECIFICATION Spec
CONSTANTS
  Width = 3
  Height = 2
  Depth = 1
  Logical <- Cross
  Flows = {1, 2, 3, 4}
  Source <- CrossSource
  Sink <- CrossSink
  Bandwidth <- CrossBandwidth
  Capacity = 2
  Algorithms = {"xy", "west_first", "north_last", "negative_first", "odd_even", "bfs"}
  Hash <- Mixed
  LinkOrder <- Ordered
  StartLocs <- PlanarStarts
  MaxMoves = 2
  MainMoves = 1
INVARIANTS
  RoutesServeTheirFlows
  TurnsAllowed
  DeadlockFree
  UsageMatchesRoutes
  CostsMatchRoutes
  KeepsTheBest
CHECK_DEADLOCK FALSE
