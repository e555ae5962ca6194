SPECIFICATION FairTrial
CONSTANTS
  Threads = {main, publisher}
  Publisher = publisher
  BenchTopic <- MCTopic
  None = None
  Cap = 2
  Patterns <- MCTopics
  Topics <- MCTopics
  MaxSubs = 1
  MaxOffers = 6
  Warmup = 2
CHECK_DEADLOCK FALSE
INVARIANTS
  Accounted
PROPERTIES
  TrialEnds
