SPECIFICATION Spec
CONSTANTS
  Width = 4
  MaskModulus = 8
  f = f
  Fields = {f}
  Values = {1}
  Scalars = {x}
  Empty = Empty
  Clash = Clash
  Node = Node
  Absent = Absent
  MergeRecordCollisions = TRUE
  Inputs <- HashesAndScalars
  Insertable <- CoveringIpv4
  Ipv4Bits = 3
  Ipv4Aliases <- Aliases
  MaxNodes = 7
  AliasIpv6ToIpv4 = TRUE
  Nibble = 2
  record_size = 28
  Separator = 16
  StoredSize = 60
  NoCount = NoCount
  NoFile = NoFile
  MaxSection = 3
  Liberties = {}
INVARIANTS FinalizedIsNumbered FileAnswersLookups AliasesAnswerAsIpv4
CHECK_DEADLOCK FALSE
