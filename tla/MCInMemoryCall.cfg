\* One task is enough: calls share the routes of the transport only, which other
\* tasks set and drop (Start, Stop).
SPECIFICATION FairSpec
CONSTANTS
  Request = {r1}
  Route <- MCRoute
  Cardinality <- MCCardinality
  Dependencies <- MCDependencies
  MaxDependencies = 2
  MetaKey = {"key"}
  MetaKwargs <- MCMetaKwargs
  MaxMessages = 2
INVARIANTS
  FinishedCallHoldsNothing
  AnswersFitTheRoute
  CancellationIsMasked
PROPERTIES
  CallersSeeRpc
  EveryCallReturns
