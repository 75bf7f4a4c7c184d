SPECIFICATION MCSpec
CONSTANTS
  Ids = {1, 2, 3}
  RootIds = {"a", "b"}
  RootFactories = {"a"}
  ContextFactories = {"a"}
  MaxObjects = 4
  Tokens = {1, 2}
  MaxCalls = 4
  Typed = FALSE
  Fields <- MCFields
  MaxMetrics = 2
  MaxResolved = 2
  MaxUpdates = 3
INVARIANTS
  NeverCrashes
  RegistryAgrees
  RootsOutliveStreams
  AnswersReachTheirCall
  TablesAgree
  NoHandlerUsedAfterErase
  CombinationsAreIndependent
PROPERTY
  CallsEnd
CHECK_DEADLOCK FALSE
