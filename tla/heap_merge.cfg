SPECIFICATION InsertSpec
CONSTANTS
  Width = 3
  MaskModulus = 8
  f = f
  g = g
  Fields = {f, g}
  Values = {1, 2}
  Scalars = {x}
  Empty = Empty
  Clash = Clash
  Node = Node
  Absent = Absent
  MergeRecordCollisions = TRUE
  Inputs <- HashesAndScalars
  Insertable <- ChainAndNeighbours
  Ipv4Bits = 1
  Ipv4Aliases <- NoAliases
  MaxNodes = 4
PROPERTIES ImplementsTree
CHECK_DEADLOCK FALSE
