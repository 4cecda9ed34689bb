SPECIFICATION Spec
CONSTANTS
  Columns = {1}
  Height = 3
  Tracks = 2
  XMax = 4
  Layouts <- MCLayouts
  Directions <- MCDirections
  Architectures <- MCArchitectures
  InternalDelays = {"fast", "slow"}
  InternalEdges = 2
  MaxCuts = 0
  NoNode = NoNode
  NodeLimit = 18
  MaxBuilds = 1
INVARIANTS
  FaninIsKnown
CHECK_DEADLOCK FALSE
