SPECIFICATION Spec
CONSTANTS
  MaxBody <- MCBothBodies
  SourceWindow = 2
  SinkWindow = 2
  EchoWindow = 2
  DropLosesData = FALSE
INVARIANTS
  TypeOK
  CleanEndIsWhole
  WritesWithinPermit
  TrapHasCause
  AnswerAgrees
PROPERTIES
  RelaysBodies
  FiltersMessages
