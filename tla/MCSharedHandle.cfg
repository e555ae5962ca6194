SPECIFICATION Spec
CONSTANTS
  Senders = {s1, s2}
  Receivers = {r1}
  Cap = 2
  Word = 8
  MaxSends = 4
CHECK_DEADLOCK FALSE
INVARIANTS
  OkIsDeliveredOnce
