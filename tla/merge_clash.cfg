SPECIFICATION GapSpec
CONSTANTS
  Width = 3
  MaskModulus = 8
  f = f
  g = g
  Fields = {f}
  Values = {1}
  Scalars = {x}
  Empty = Empty
  Clash = Clash
  Node = Node
  Absent = Absent
  MergeRecordCollisions = TRUE
  Inputs <- HashAndScalars
  Insertable <- UpperHalves
PROPERTIES ImplementsMap InsertsReturn
