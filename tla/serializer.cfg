SPECIFICATION Spec
CONSTANTS
  Byte = 4
  PointerHigh = 1
  Item <- All
  Requests <- Roots
  KeyType <- KeyTypes
  Unsure <- UnsureKeys
  NoType <- NoTypeValue
  Undef = Undef
  DeduplicateData = TRUE
  MinimumCacheableSize = 4
  LongNumber = 1000
  MaxBuffer = 28
  MaxDepth = 6
  NoRequest = NoRequest
INVARIANTS PointersLeadToValues
PROPERTIES ImplementsDataSection
CHECK_DEADLOCK FALSE
