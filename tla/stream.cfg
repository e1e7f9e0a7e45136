SPECIFICATION FairSpec
CONSTANTS
  Texts <- MCTexts
  Payloads <- MCPayloads
  HasDeadline = TRUE
  MaxLines = 5
  MaxBuffered = 1
CHECK_DEADLOCK FALSE
INVARIANTS
  TypeOK
  ResultMatchesStream
PROPERTIES
  ImplementsContract
  Returns
