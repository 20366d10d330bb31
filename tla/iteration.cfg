SPECIFICATION Spec
CONSTANTS
  Width = 4
  MaskModulus = 8
  f = f
  Fields = {f}
  Values = {1}
  Scalars = {x}
  Empty = Empty
  Clash = Clash
  Node = Node
  Absent = Absent
  MergeRecordCollisions = TRUE
  Inputs <- HashAndScalars
  Insertable <- Nested
  Ipv4Bits = 2
  Ipv4Aliases <- Aliases
  MaxNodes = 5
  NoCount = NoCount
  all = all
  onlyData = onlyData
  nothing = nothing
  Receivers <- Objects
  Methods <- ObjectMethods
  NoArgs = NoArgs
INVARIANTS VisitsInOrder ReportsMatchLookups NumbersAgree CallsReceiver
CHECK_DEADLOCK FALSE
