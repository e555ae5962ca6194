SPECIFICATION FairTrial
CONSTANTS
  Cap = 2
  Word = 4
  Values = {1, 2, 3, 4, 5, 6}
  Uninit = Uninit
  MaxSends = 6
  Warmup = 2
CHECK_DEADLOCK FALSE
INVARIANTS
  NeverStranded
  MeasuredRun
PROPERTIES
  TrialEnds
