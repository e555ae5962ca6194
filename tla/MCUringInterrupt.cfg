SPECIFICATION Spec
CONSTANTS
  Writers = {"Write"}
  RingDepth = 2
  RingEntries = 2
  CapMsgs = 2
  FixedEntries = 1
  BatchSizes = {0, 1, 3}
  MaxMsgs = 6
  MaxOpens = 1
  Faults = {"interrupt"}
CHECK_DEADLOCK FALSE
INVARIANTS
  BuffersAlwaysOutlive
