SPECIFICATION Spec
CONSTANTS
  P99s = {4, 5, 7, 10}
  MicroSec = 8
  Batches <- MCBatches
  LargeBatch = 2
  Kinds <- MCKinds
  MsgCounts = {0, 3}
  Speeds = {2, 3}
  Knobs <- MCKnobs
CHECK_DEADLOCK FALSE
INVARIANTS
  MedianIsMiddle
  PassIsWitnessed
  RatioAgainstOwnBaseline
  VerdictFollowsMatrix
  TimedIsDurable
  DoneMeansExported
