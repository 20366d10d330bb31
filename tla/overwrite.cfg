SPECIFICATION GapSpec
CONSTANTS
  Width = 3
  MaskModulus = 8
  f = f
  g = g
  Fields = {}
  Values = {}
  Scalars = {x, y}
  Empty = Empty
  Clash = Clash
  Node = Node
  Absent = Absent
  MergeRecordCollisions = FALSE
  Inputs <- Scalars
  Insertable <- UpperQuarters
INVARIANTS CanonicalWhenIdle
PROPERTIES ImplementsMap
