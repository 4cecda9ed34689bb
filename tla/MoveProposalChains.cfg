SPECIFICATION ProposalSpec
CONSTANTS
  Height = 6
  a1 = a1
  a2 = a2
  b1 = b1
  b2 = b2
  b3 = b3
  s1 = s1
  f1 = f1
  A = A
  B = B
  StepB = 1
  Down = FALSE
  LabRows = {5}
  NotInLab = {a1, a2}
  NoBlock = NoBlock
  NoMacro = NoMacro
  Blocks = {a1, a2, b1, b2, b3, s1, f1}
  Fixed = {f1}
  Macros = {A, B}
  Locs <- MCLocs
  Tiles <- MCTiles
  Kind <- MCKind
  TileOf <- MCTileOf
  SubTile <- MCSubTile
  Members <- MCMembers
  Offset <- MCOffset
  Fits <- MCFits
  Worth <- MCPlacements
  Placements <- MCPlacements
INVARIANTS
  GridIsInverse
  UsageCounts
  PinsMatchTile
  MacrosKeepShape
  BlocksFit
  InversionEnds
PROPERTIES
  ImplementsTransaction
  FixedBlocksStay
