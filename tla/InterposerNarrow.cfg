SPECIFICATION Spec
CONSTANTS
  Columns = {1}
  Height = 5
  Tracks = 4
  XMax = 2
  Layouts <- MCLayouts
  Directions <- MCDirections
  Architectures <- MCArchitectures
  InternalDelays = {"fast", "slow"}
  InternalEdges = 2
  MaxCuts = 1
  NoNode = NoNode
  NodeLimit = 18
  MaxBuilds = 0
INVARIANTS
  NoNodeIsHidden
CHECK_DEADLOCK FALSE
