SPECIFICATION FairSpec
CONSTANTS
  Threads = {t1, t2}
  None = None
  Cap = 2
  Patterns <- MCPatterns
  Topics <- MCTopics
  MaxSubs = 2
  MaxOffers = 3
CHECK_DEADLOCK FALSE
INVARIANTS
  TypeOK
  TruthfulCounts
  RealTimeOrder
PROPERTIES
  EveryoneServed
  QuietAfterUnsubscribe
  OneCommonOrder
  OffersReturn
