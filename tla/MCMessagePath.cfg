SPECIFICATION Spec
CONSTANTS
  TopicLen = 3
  PayloadLen = 2
  StampLen = 2
  MaxText = 4
  MaxPattern = 3
  Texts <- MCTexts
  Patterns <- MCPatterns
  Payloads <- MCPayloads
  Stamps <- MCStamps
CHECK_DEADLOCK FALSE
INVARIANTS
  RoundTrip
  FieldsReadBack
  RoutedAsWritten
