SPECIFICATION Spec
CONSTANTS
  P99s = {4, 5, 7, 10}
  MicroSec = 8
  Batches <- MCBatches
  LargeBatch = 2
  Kinds <- MCKinds
  MsgCounts = {0, 3}
  Speeds = {2, 3}
  Knobs <- MCTrialKnobs
CHECK_DEADLOCK FALSE
INVARIANTS
  PassSpreadUnderQuarter
