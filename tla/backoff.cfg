SPECIFICATION Spec
CONSTANTS
  Names <- MCNames
  Bytes <- MCBytes
  Ellipsis <- MCEllipsis
  Outputs <- ShortOnly
  Specs <- OneStageSpecs
  MaxStatusOutputLen = 4
  Oversized = {}
  MaxLag = 1
  MaxEdits = 0
  MaxFaults = 0
  MaxIncarnations = 1
  MaxStages = 2
  MaxRuns = 3
CHECK_DEADLOCK FALSE
PROPERTIES
  BackoffHonoured
