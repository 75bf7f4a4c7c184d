SPECIFICATION CalloutsSpec
CONSTANTS
  Tokens = {1, 2}
  MaxCalls = 4
  Typed = TRUE
INVARIANT
  NoHandlerUsedAfterErase
CHECK_DEADLOCK FALSE
