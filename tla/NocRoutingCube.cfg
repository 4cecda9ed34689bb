SPECIFICATION Spec
CONSTANTS
  Width = 2
  Height = 2
  Depth = 2
  Logical <- Pair
  Flows = {1, 2}
  Source <- PairSource
  Sink <- PairSink
  Bandwidth <- PairBandwidth
  Capacity = 2
  Algorithms = {"xy", "west_first", "north_last", "negative_first", "odd_even"}
  Hash <- Murmur3
  LinkOrder <- Ordered
  StartLocs <- CubeStarts
  MaxMoves = 0
  MainMoves = 0
INVARIANTS
  RouteFound
CHECK_DEADLOCK FALSE
