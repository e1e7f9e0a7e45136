SPECIFICATION Spec
CONSTANTS
  Names <- ClashNames
  Bytes <- MCBytes
  Ellipsis <- MCEllipsis
  Outputs <- MCOutputs
  Specs <- ClashSpecs
  MaxStatusOutputLen = 4
  Pids <- ClashPids
  SpecOf <- ClashSpecOf
  Words <- ClashWords
  Answers <- ClashAnswers
  Mute = {}
  MaxBehind = 1
  MaxUpsets = 0
CHECK_DEADLOCK FALSE
INVARIANTS
  OutputsApart
