SPECIFICATION Spec
CONSTANTS
  MaxBody <- MCOneByte
  SourceWindow = 1
  SinkWindow = 2
  EchoWindow = 1
  DropLosesData = TRUE
INVARIANTS
  CompleteIsWhole
