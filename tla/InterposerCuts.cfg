SPECIFICATION Spec
CONSTANTS
  Columns = {1, 2}
  Height = 5
  Tracks = 4
  XMax = 2
  Layouts <- MCLayouts
  Directions <- MCDirections
  Architectures <- MCArchitectures
  InternalDelays = {"fast", "slow"}
  InternalEdges = 2
  MaxCuts = 2
  NoNode = NoNode
  NodeLimit = 18
  MaxBuilds = 1
INVARIANTS
  LookupFollowsTheSplit
  SplitsKeepTheSpan
  EdgesKeepTheirSwitch
CHECK_DEADLOCK FALSE
