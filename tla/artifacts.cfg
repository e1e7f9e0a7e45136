SPECIFICATION Spec
CONSTANTS
  Texts <- MCTexts
  Payloads <- MCPayloads
  HasDeadline = TRUE
  MaxLines = 5
  MaxBuffered = 1
CHECK_DEADLOCK FALSE
INVARIANTS
  ArtifactsPreferred
