SPECIFICATION Spec
CONSTANTS
  Ids = {1, 2}
  RootIds = {""}
  RootFactories = {""}
  ContextFactories = {""}
  MaxObjects = 4
  MaxRequests = 2
INVARIANT
  FreshContextPerRequest
CHECK_DEADLOCK FALSE
