SPECIFICATION Spec
CONSTANTS
  Width = 2
  MaskModulus = 8
  f = f
  g = g
  Fields = {}
  Values = {}
  Scalars = {x}
  Empty = Empty
  Clash = Clash
  Node = Node
  Absent = Absent
  MergeRecordCollisions = FALSE
  Inputs <- Scalars
  Insertable <- AllNetworks
PROPERTIES ImplementsMap
