SPECIFICATION FairSpec
CONSTANTS
  Request <- MCRequest
  Cardinality <- MCCardinality
  MaxMessages = 2
INVARIANTS
  ModappErrorsArrive
  CompletedStreamIsWhole
PROPERTIES
  EveryCallerIsTold
  CallersSeeRpc
\* A call ends.
CHECK_DEADLOCK FALSE
