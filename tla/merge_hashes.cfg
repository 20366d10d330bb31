SPECIFICATION GapSpec
CONSTANTS
  Width = 3
  MaskModulus = 8
  f = f
  g = g
  Fields = {f, g}
  Values = {1, 2}
  Scalars = {}
  Empty = Empty
  Clash = Clash
  Node = Node
  Absent = Absent
  MergeRecordCollisions = TRUE
  Inputs <- Hashes
  Insertable <- UpperHalves
INVARIANTS CanonicalWhenIdle
PROPERTIES ImplementsMap InsertsReturn
