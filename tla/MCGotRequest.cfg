\* One task is enough: tasks share no state in got_request.
SPECIFICATION Spec
CONSTANTS
  Request = {r1}
  Route <- MCRoute
  Cardinality <- MCCardinality
  Dependencies <- MCDependencies
  MaxDependencies = 3
  MetaKey = {"key"}
  MetaKwargs <- MCMetaKwargs
  MaxMessages = 2
INVARIANTS
  TypeOK
  NoDependencyOutlivesGotRequest
  HandlerHoldsItsDependencies
  UnaryErrorsAreMasked
  ReplyMeansServed
  TeardownNeverSeesHandlerError
PROPERTIES
  TeardownIsLifo
  ImplementsRpc
\* A task ends: got_request is called once for each request.
CHECK_DEADLOCK FALSE
