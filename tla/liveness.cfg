SPECIFICATION FairSpec
CONSTANTS
  Names <- MCNames
  Bytes <- MCBytes
  Ellipsis <- MCEllipsis
  Outputs <- ShortOnly
  Specs <- BlockingSpecs
  MaxStatusOutputLen = 4
  Oversized = {}
  MaxLag = 2
  MaxEdits = 2
  MaxFaults = 1
  MaxIncarnations = 1
  MaxStages = 2
  MaxRuns = 1
CHECK_DEADLOCK FALSE
PROPERTIES
  Terminates
  DeletionFinishes
  CleanedUp
