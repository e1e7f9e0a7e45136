SPECIFICATION FairSpec
CONSTANTS
  Names <- MCNames
  Bytes <- MCBytes
  Ellipsis <- MCEllipsis
  Outputs <- MCOutputs
  Specs <- MCSpecs
  MaxStatusOutputLen = 4
  Pids <- MCPids
  SpecOf <- MCSpecOf
  Words <- MCWords
  Answers <- MCAnswers
  Mute <- MuteP
  MaxBehind = 1
  MaxUpsets = 1
CHECK_DEADLOCK FALSE
INVARIANTS
  TypeOK
  ChangesSeen
  OutputsApart
  WaitBounded
PROPERTIES
  ImplementLifecycles
  AllTerminate
