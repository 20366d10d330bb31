SPECIFICATION AliasSpec
CONSTANTS
  Width = 4
  MaskModulus = 8
  f = f
  g = g
  Fields = {}
  Values = {}
  Scalars = {x, y}
  Empty = Empty
  Clash = Clash
  Node = Node
  Absent = Absent
  MergeRecordCollisions = FALSE
  Inputs <- Scalars
  Insertable <- Ipv4AndMapped
  Ipv4Bits = 2
  Ipv4Aliases <- Aliases
  MaxNodes = 5
INVARIANTS HeapTypeOK NodesFormTree LookupFindsRecord
CHECK_DEADLOCK FALSE
