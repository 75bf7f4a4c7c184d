CONSTANTS
  Names = {n1, n2, n3}
  Handles = {h1, h2, h3}
  MAX = MAX
  Reuse <- AnyFree
SPECIFICATION AnyProgram
SYMMETRY Symmetric
INVARIANTS
  HandlesHaveOneOwner
  NothingStays
CHECK_DEADLOCK FALSE
