SPECIFICATION FairSpec
CONSTANTS
  Writers = {"Write", "WriteFixed"}
  RingDepth = 2
  RingEntries = 2
  CapMsgs = 2
  FixedEntries = 1
  BatchSizes = {1, 3}
  MaxMsgs = 3
  MaxOpens = 2
  Faults = {"error", "short", "enter", "interrupt", "partial", "sync", "reuse"}
CHECK_DEADLOCK FALSE
INVARIANTS
  TypeOK
  AckedIsLogged
  OlderAcksSafe
  BuffersOutliveOps
  NeverPanics
PROPERTIES
  ImplementsLog
  AppendOnly
  WriteBatchReturns
