SPECIFICATION Spec
CONSTANTS
  Ids = {1, 2, 3}
  RootIds = {"a", "b"}
  RootFactories = {"a"}
  ContextFactories = {"a"}
  MaxObjects = 4
INVARIANT
  GetRootFindsContexts
CHECK_DEADLOCK FALSE
