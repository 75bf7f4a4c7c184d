SPECIFICATION MCSpec
CONSTANTS
  Names <- MCNames
  Handles = {0, 1, 2, 3, 4, 5, 6, 7, 8, 9}
  MAX = 99
  Reuse <- FirstOrLast
  Sizes = {0, 1, 4, 5}
  WriteLimit = 4
  MaxCalls = 2
INVARIANTS
  ComponentsKeepRules
  NothingLeft
  ReturnsAfterSending
  LinesAreMessages
  LogTrapsHaveCause
PROPERTIES
  HelloAnswers
CHECK_DEADLOCK FALSE
