SPECIFICATION MCFairSpec
CONSTANTS
  MaxBody <- MCLongRequest
  SourceWindow = 1
  SinkWindow = 2
  EchoWindow = 1
  DropLosesData = FALSE
INVARIANTS
  StuckOnlyInCircularWait
PROPERTIES
  CircularWaitLasts
  BreaksAreTold
  EndsUnlessCircular
  ResponseArrives
