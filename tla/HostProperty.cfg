CONSTANTS
  Names = {"stream", "error"}
  Handles = {1, 2}
  MAX = 99
  Reuse <- AnyFree
  Sizes = {0, 4}
  WriteLimit = 4
  MaxCalls = 2
SPECIFICATION HostSpec
INVARIANT GetPropertyFinds
CHECK_DEADLOCK FALSE
