SPECIFICATION MetricsSpec
CONSTANTS
  Fields <- DottedFields
  MaxMetrics = 1
  MaxResolved = 2
  MaxUpdates = 1
INVARIANT
  CombinationsAreIndependent
CHECK_DEADLOCK FALSE
