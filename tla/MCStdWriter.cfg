SPECIFICATION Spec
CONSTANTS
  BufCap = 3
  BatchSizes = {0, 1, 2}
  MaxMsgs = 3
  MaxOpens = 2
CHECK_DEADLOCK FALSE
INVARIANTS
  TypeOK
  RecordsAligned
PROPERTIES
  ImplementsLog
