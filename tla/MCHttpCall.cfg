SPECIFICATION FairSpec
CONSTANTS
  Request = {r1, r2}
  Route <- MCRoute
  Cardinality <- MCCardinality
INVARIANTS
  RespondsOnce
  StatusTellsOutcome
  ServerErrorsHaveABody
PROPERTY RequestIsAnswered
\* A call ends.
CHECK_DEADLOCK FALSE
