SPECIFICATION Spec
CONSTANTS
  Names <- MCNames
  Bytes <- MCBytes
  Ellipsis <- MCEllipsis
  Outputs <- MCOutputs
  Specs <- ResizedSpecs
  MaxStatusOutputLen = 4
  Oversized = {}
  MaxLag = 2
  MaxEdits = 1
  MaxFaults = 1
  MaxIncarnations = 1
  MaxStages = 2
  MaxRuns = 5
CHECK_DEADLOCK FALSE
INVARIANTS
  TypeOK
  StagesInOrder
  PhaseTellsStages
  NotForgotten
  OutputKept
  CompletedStageRan
  StoredOutputGenuine
  PromptFromPrevious
  InvocationsAccounted
PROPERTIES
  ImplementsLifecycle
  NothingUndone
  ContextLostOnlyToLag
