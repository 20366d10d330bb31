SPECIFICATION Spec
CONSTANTS
  Width = 3
  MaskModulus = 8
  f = f
  Fields = {f}
  Values = {1}
  Scalars = {x}
  Empty = Empty
  Clash = Clash
  Node = Node
  Absent = Absent
  MergeRecordCollisions = FALSE
  Inputs <- HashesAndScalars
  Insertable <- Networks4
  Ipv4Bits = 2
  Ipv4Aliases <- NoAliases
  MaxNodes = 5
  AliasIpv6ToIpv4 = FALSE
  Nibble = 2
  record_size = 28
  Separator = 16
  StoredSize = 60
  NoCount = NoCount
  NoFile = NoFile
  MaxSection = 3
  Liberties = {"insert after count"}
INVARIANTS FileAnswersLookups
CHECK_DEADLOCK FALSE
