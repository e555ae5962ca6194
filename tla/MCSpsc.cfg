SPECIFICATION FairSpec
CONSTANTS
  Cap = 2
  Word = 4
  Values = {a, b}
  Uninit = Uninit
  MaxSends = 5
CHECK_DEADLOCK FALSE
INVARIANTS
  TypeOK
  NoDataRace
  ExactlyOnceInOrder
  IInv
PROPERTIES
  HonestAnswers
  ImplementsFifo
  SendReturns
  AllDelivered
