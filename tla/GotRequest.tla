----------------------------- MODULE GotRequest -----------------------------
(***************************************************************************)
(* The server side of one call: BaseTransport.got_request together with    *)
(* Route.get_request_handler, which it awaits, and the AsyncExitStack the  *)
(* two share.                                                              *)
(*                                                                         *)
(* A request is an asyncio task.  It decodes the raw data, enters the      *)
(* dependencies of the route one after the other, runs the handler, closes *)
(* the exit stack in the finally clause and only then hands its outcome to *)
(* the transport.  On a UNARY_STREAM route the outcome is an asynchronous  *)
(* generator whose body (the nested handle_request) runs later, when the   *)
(* transport iterates it.                                                  *)
(*                                                                         *)
(* User code (dependencies, handlers, converters, models) is a choice over *)
(* everything it can do: return, or raise one of Errors.  A payload is     *)
(* reduced to what the code inspects, the class of the reply.              *)
(***************************************************************************)
EXTENDS Naturals, Sequences

CONSTANTS
  Request,        \* tasks in got_request
  Route,          \* registered routes
  Cardinality,    \* Cardinality[rt]: Route.proto_cardinality
  Dependencies,   \* Dependencies[rt]: the kinds of Route.dependant.dependencies
  MaxDependencies,\* no route has more dependencies than this
  MetaKey,        \* keys of request metadata
  MetaKwargs,     \* MetaKwargs[rt]: keys of Route.handler_meta_kwargs
  MaxMessages     \* bound on the messages of a stream

Cardinalities ==
  {"UNARY_UNARY", "UNARY_STREAM", "STREAM_UNARY", "STREAM_STREAM"}

\* What isgeneratorfunction and isasyncgenfunction say of a dependency.
DependencyKind == {"generator", "asyncgen", "other"}

Slot == 1..MaxDependencies

ASSUME RouteAssumption ==
  /\ MaxDependencies \in Nat
  /\ MaxMessages \in Nat
  /\ Cardinality \in [Route -> Cardinalities]
  /\ MetaKwargs \in [Route -> SUBSET MetaKey]
  /\ Dependencies \in [Route -> Seq(DependencyKind)]
  /\ \A rt \in Route : Len(Dependencies[rt]) <= MaxDependencies

\* The errors got_request lets pass, any other subclass of Exception, of which
\* PersistanceError is one here, and asyncio.CancelledError, a BaseException only.
ModappError == {"InvalidArgumentError", "NotFoundError", "ServerError"}
Errors == ModappError \cup {"Exception", "CancelledError"}
NoError == "no error"

\* A converted reply: an instance of route.reply_type, or of another model.
Replies == {"reply", "foreign reply"}
StreamEnds == {"completed", "abandoned"}
NoResult == "no result"
Results == Replies \cup Errors \cup StreamEnds \cup {"stream", NoResult}

\* The generator object of a dependency: at its yield it is "suspended"; it
\* was resumed and returned ("closed") or raised ("broken"); an exception was
\* thrown into it at its yield ("thrown"); it raised before it got to its yield
\* ("failed").
GenState == {"unstarted", "suspended", "closed", "broken", "thrown", "failed"}

VARIABLES
  pc,         \* where the task of the request is
  route,      \* the route argument of got_request
  stack,      \* the AsyncExitStack: entered dependencies, last one on top
  gen,        \* gen[r][i]: the generator of the i-th dependency
  unwinding,  \* the exception AsyncExitStack.aclose carries outwards
  result,     \* what the try block returns or raises, then the outcome
  messages,   \* raw messages the stream of the request has yielded
  calls       \* how often the handler of the route was called

vars == <<pc, route, stack, gen, unwinding, result, messages, calls>>

PC == {"idle", "dependencies", "handler", "closing", "opened", "streaming",
       "done"}

TypeOK ==
  /\ pc \in [Request -> PC]
  /\ route \in [Request -> Route]
  /\ stack \in [Request -> Seq(Slot)]
  /\ gen \in [Request -> [Slot -> GenState]]
  /\ unwinding \in [Request -> Errors \cup {NoError}]
  /\ result \in [Request -> Results]
  /\ messages \in [Request -> 0..MaxMessages]
  /\ calls \in [Request -> Nat]

Dependency(r) == Dependencies[route[r]]
Top_Fifo(r) == stack[r][1]
Top(r) == stack[r][Len(stack[r])]
Pop(s) == SubSeq(s, 1, Len(s) - 1)

-----------------------------------------------------------------------------
Init ==
  /\ pc = [r \in Request |-> "idle"]
  /\ route \in [Request -> Route]
  /\ stack = [r \in Request |-> <<>>]
  /\ gen = [r \in Request |-> [i \in Slot |-> "unstarted"]]
  /\ unwinding = [r \in Request |-> NoError]
  /\ result = [r \in Request |-> NoResult]
  /\ messages = [r \in Request |-> 0]
  /\ calls = [r \in Request |-> 0]

Goto(r, from, to) ==
  /\ pc[r] = from
  /\ pc' = [pc EXCEPT ![r] = to]

Outcome(r, o) == result' = [result EXCEPT ![r] = o]

\* The except clauses of got_request: these modapp errors pass, anything
\* else, a cancellation included, becomes a ServerError.
MapError_LetsExceptionPass(e) ==
  IF e \in ModappError \cup {"Exception"} THEN e ELSE "ServerError"

MapError_LetsCancellationPass(e) ==
  IF e \in ModappError \cup {"CancelledError"} THEN e ELSE "ServerError"

MapError(e) == IF e \in ModappError THEN e ELSE "ServerError"

\* raw_to_model, or the debug line that dumps the request, raises before the
\* try block is entered: no except clause maps the error.
DecodeFails(r) ==
  /\ Goto(r, "idle", "done")
  /\ \E e \in {"InvalidArgumentError", "ServerError", "Exception"} : Outcome(r, e)
  /\ UNCHANGED <<route, stack, gen, unwinding, messages, calls>>

\* get_request_handler looks up the metadata the handler asks for; a missing
\* key raises a plain Exception inside the try block.
Decode(r, meta) ==
  /\ MetaKwargs[route[r]] \subseteq meta
  /\ Goto(r, "idle", "dependencies")
  /\ UNCHANGED <<route, stack, gen, unwinding, result, messages, calls>>

MetaMissing(r, meta) ==
  /\ ~(MetaKwargs[route[r]] \subseteq meta)
  /\ Goto(r, "idle", "closing")
  /\ Outcome(r, MapError("Exception"))
  /\ UNCHANGED <<route, stack, gen, unwinding, messages, calls>>

\* solve_dependency enters the next dependency: its generator runs to the
\* yield and its exit is pushed on the stack.
EnterDependency(r) ==
  LET i == Len(stack[r]) + 1 IN
  /\ pc[r] = "dependencies"
  /\ i <= Len(Dependency(r))
  /\ Dependency(r)[i] # "other"
  /\ stack' = [stack EXCEPT ![r] = Append(@, i)]
  /\ gen' = [gen EXCEPT ![r][i] = "suspended"]
  /\ UNCHANGED <<pc, route, unwinding, result, messages, calls>>

\* The generator raises before its yield, nothing is pushed.  Only an
\* asyncgen is awaited, so only it can be cancelled.
DependencyFails(r) ==
  LET i == Len(stack[r]) + 1 IN
  /\ Goto(r, "dependencies", "closing")
  /\ i <= Len(Dependency(r))
  /\ Dependency(r)[i] # "other"
  /\ \E e \in Errors :
       /\ e = "CancelledError" => Dependency(r)[i] = "asyncgen"
       /\ Outcome(r, MapError(e))
  /\ gen' = [gen EXCEPT ![r][i] = "failed"]
  /\ UNCHANGED <<route, stack, unwinding, messages, calls>>

\* A dependency that is no generator function: raise Exception().
DependencyUnsupported(r) ==
  LET i == Len(stack[r]) + 1 IN
  /\ Goto(r, "dependencies", "closing")
  /\ i <= Len(Dependency(r))
  /\ Dependency(r)[i] = "other"
  /\ Outcome(r, MapError("Exception"))
  /\ UNCHANGED <<route, stack, gen, unwinding, messages, calls>>

AllEntered_OffByOne(r) == Len(stack[r]) + 1 >= Len(Dependency(r))

AllEntered(r) == Len(stack[r]) = Len(Dependency(r))

\* UNARY_UNARY: the handler is called and awaited.
CallHandler(r) ==
  /\ Goto(r, "dependencies", "handler")
  /\ AllEntered(r)
  /\ Cardinality[route[r]] = "UNARY_UNARY"
  /\ calls' = [calls EXCEPT ![r] = @ + 1]
  /\ UNCHANGED <<route, stack, gen, unwinding, result, messages>>

\* UNARY_STREAM: got_request returns the generator without running it.
MakeStream(r) ==
  /\ Goto(r, "dependencies", "closing")
  /\ AllEntered(r)
  /\ Cardinality[route[r]] = "UNARY_STREAM"
  /\ Outcome(r, "stream")
  /\ UNCHANGED <<route, stack, gen, unwinding, messages, calls>>

\* No branch for the other cardinalities: the raise Exception() at the end of
\* got_request, behind the finally clause.
NoBranch(r) ==
  /\ Goto(r, "dependencies", "closing")
  /\ AllEntered(r)
  /\ Cardinality[route[r]] \in {"STREAM_UNARY", "STREAM_STREAM"}
  /\ Outcome(r, "Exception")
  /\ UNCHANGED <<route, stack, gen, unwinding, messages, calls>>

\* What the try block makes of a returned value: the assertion on its class,
\* model_to_raw and the debug line that dumps the reply can each raise.
ReplyOutcomes_NoAssert(value) == {value, MapError("Exception"), "ServerError"}

ReplyOutcomes(value) ==
  IF value \in Replies
  THEN {value, MapError("Exception"), "ServerError"}
  ELSE {MapError("Exception")}

HandlerReturns(r) ==
  /\ Goto(r, "handler", "closing")
  /\ \E value \in Replies \cup {"not a model"} :
       \E o \in ReplyOutcomes(value) : Outcome(r, o)
  /\ UNCHANGED <<route, stack, gen, unwinding, messages, calls>>

HandlerRaises_NoFinally(r) ==
  /\ Goto(r, "handler", "done")
  /\ \E e \in Errors : Outcome(r, MapError(e))
  /\ UNCHANGED <<route, stack, gen, unwinding, messages, calls>>

HandlerRaises_WithExcInfo(r) ==
  /\ Goto(r, "handler", "closing")
  /\ \E e \in Errors :
       /\ Outcome(r, MapError(e))
       /\ unwinding' = [unwinding EXCEPT ![r] = e]
  /\ UNCHANGED <<route, stack, gen, messages, calls>>

HandlerRaises(r) ==
  /\ Goto(r, "handler", "closing")
  /\ \E e \in Errors : Outcome(r, MapError(e))
  /\ UNCHANGED <<route, stack, gen, unwinding, messages, calls>>

-----------------------------------------------------------------------------
\* contextmanager.__exit__: without an exception in flight the generator is
\* resumed, otherwise the exception is thrown into it.
ExitState(inFlight, raised) ==
  IF inFlight # NoError THEN "thrown"
  ELSE IF raised = NoError THEN "closed" ELSE "broken"

\* One turn of the loop of AsyncExitStack.aclose.  The exit may raise, may let
\* the exception in flight pass, may replace it or swallow it; the dependencies
\* further out are exited whatever happens.
ExitDependency(r) ==
  /\ pc[r] = "closing"
  /\ stack[r] # <<>>
  /\ \E raised \in Errors \cup {NoError} :
       /\ unwinding' = [unwinding EXCEPT ![r] = raised]
       /\ gen' = [gen EXCEPT ![r][Top(r)] = ExitState(unwinding[r], raised)]
  /\ stack' = [stack EXCEPT ![r] = Pop(@)]
  /\ UNCHANGED <<pc, route, result, messages, calls>>

Finish_ErrorLost(r) ==
  /\ Goto(r, "closing", IF result[r] = "stream" THEN "opened" ELSE "done")
  /\ stack[r] = <<>>
  /\ UNCHANGED <<route, stack, gen, unwinding, result, messages, calls>>

\* The finally clause is over.  An exception of a dependency's exit replaces
\* whatever the try block returned or raised, and no except clause maps it.
Finish(r) ==
  /\ Goto(r, "closing", IF unwinding[r] = NoError /\ result[r] = "stream"
                        THEN "opened" ELSE "done")
  /\ stack[r] = <<>>
  /\ Outcome(r, IF unwinding[r] = NoError THEN result[r] ELSE unwinding[r])
  /\ UNCHANGED <<route, stack, gen, unwinding, messages, calls>>

-----------------------------------------------------------------------------
\* handle_request, run by the first __anext__ of the transport: the handler is
\* called and must give an asynchronous iterator.
StreamHandlerReturns(r) ==
  /\ Goto(r, "opened", "streaming")
  /\ calls' = [calls EXCEPT ![r] = @ + 1]
  /\ UNCHANGED <<route, stack, gen, unwinding, result, messages>>

\* It raises, or the assertion on the iterator does; nothing maps the error.
StreamHandlerFails(r) ==
  /\ Goto(r, "opened", "done")
  /\ \E e \in Errors : Outcome(r, e)
  /\ calls' = [calls EXCEPT ![r] = @ + 1]
  /\ UNCHANGED <<route, stack, gen, unwinding, messages>>

StreamYields_BeforeTeardown(r) ==
  /\ pc[r] = "streaming" \/ (pc[r] = "closing" /\ result[r] = "stream")
  /\ messages[r] < MaxMessages
  /\ messages' = [messages EXCEPT ![r] = @ + 1]
  /\ UNCHANGED <<pc, route, stack, gen, unwinding, result, calls>>

StreamYields(r) ==
  /\ pc[r] = "streaming"
  /\ messages[r] < MaxMessages
  /\ messages' = [messages EXCEPT ![r] = @ + 1]
  /\ UNCHANGED <<pc, route, stack, gen, unwinding, result, calls>>

\* The iterator of the handler, or model_to_raw, raises.
StreamFails(r) ==
  /\ Goto(r, "streaming", "done")
  /\ \E e \in Errors : Outcome(r, e)
  /\ UNCHANGED <<route, stack, gen, unwinding, messages, calls>>

StreamCompletes(r) ==
  /\ Goto(r, "streaming", "done")
  /\ Outcome(r, "completed")
  /\ UNCHANGED <<route, stack, gen, unwinding, messages, calls>>

\* The transport stops iterating: its send failed or its task was cancelled.
StreamAbandoned(r) ==
  /\ pc[r] \in {"opened", "streaming"}
  /\ pc' = [pc EXCEPT ![r] = "done"]
  /\ Outcome(r, "abandoned")
  /\ UNCHANGED <<route, stack, gen, unwinding, messages, calls>>

Start(r) ==
  \/ DecodeFails(r)
  \/ \E meta \in SUBSET MetaKey : Decode(r, meta) \/ MetaMissing(r, meta)

Serve(r) ==
  \/ EnterDependency(r)
  \/ DependencyFails(r)
  \/ DependencyUnsupported(r)
  \/ CallHandler(r)
  \/ MakeStream(r)
  \/ NoBranch(r)
  \/ HandlerReturns(r)
  \/ HandlerRaises(r)
  \/ ExitDependency(r)
  \/ Finish(r)

Stream(r) ==
  \/ StreamHandlerReturns(r)
  \/ StreamHandlerFails(r)
  \/ StreamYields(r)
  \/ StreamFails(r)
  \/ StreamCompletes(r)
  \/ StreamAbandoned(r)

Next == \E r \in Request : Start(r) \/ Serve(r) \/ Stream(r)

Spec == Init /\ [][Next]_vars

-----------------------------------------------------------------------------
\* When got_request has returned or raised, no dependency it entered is left
\* at its yield: the finally clause covers the error paths, an exit that raises
\* does not keep the others from running.  For a stream this holds before its
\* first message: the body of a streaming handler never runs inside its
\* dependencies.
NoDependencyOutlivesGotRequest ==
  \A r \in Request :
    pc[r] \in {"opened", "streaming", "done"} =>
      \A i \in Slot : gen[r][i] # "suspended"

\* A unary handler runs while every dependency of its route is at its yield.
HandlerHoldsItsDependencies ==
  \A r \in Request :
    pc[r] = "handler" =>
      \A i \in 1..Len(Dependency(r)) : gen[r][i] = "suspended"

\* A dependency is exited only after every dependency entered later: a session
\* is closed before the connection it was made from.
TeardownIsLifo ==
  [][\A r \in Request : \A i, j \in Slot :
       gen[r][i] = "suspended" /\ gen'[r][i] # "suspended" /\ i < j
         => gen[r][j] # "suspended"]_vars

\* Whatever a unary handler raises, the transport sees one of the errors that
\* pass; another exception or a cancellation gets through only when it comes out
\* of the exit of a dependency.
UnaryErrorsAreMasked ==
  \A r \in Request :
    /\ pc[r] = "done"
    /\ calls[r] # 0
    /\ Cardinality[route[r]] = "UNARY_UNARY"
    /\ result[r] \notin Replies \cup ModappError
    => unwinding[r] = result[r]

\* got_request gives a raw reply only when the handler was called once and
\* every dependency of the route was entered and exited without an exception
\* left over.
ReplyMeansServed ==
  \A r \in Request :
    pc[r] = "done" /\ result[r] \in Replies =>
      /\ calls[r] = 1
      /\ unwinding[r] = NoError
      /\ \A i \in 1..Len(Dependency(r)) :
           gen[r][i] \in {"closed", "broken", "thrown"}

\* The stack is closed with aclose, not with the exception in flight: a
\* dependency learns of the failure of an inner dependency's exit, never of the
\* failure of the handler, and runs its success path (a commit) after it.
TeardownNeverSeesHandlerError ==
  \A r \in Request : \A i \in Slot :
    gen[r][i] = "thrown" => \E j \in Slot : i < j /\ gen[r][j] = "broken"

-----------------------------------------------------------------------------
\* A request seen as a call of Rpc.
Call(r) ==
  CASE pc[r] = "idle" -> "idle"
    [] pc[r] \in {"dependencies", "handler", "closing"} -> "pending"
    [] pc[r] \in {"opened", "streaming"} -> "streaming"
    [] pc[r] = "done" -> result[r]

RpcCalls == INSTANCE Rpc WITH
  Reply <- Replies,
  Error <- Errors,
  StreamEnd <- StreamEnds,
  call <- [r \in Request |-> Call(r)],
  delivered <- messages

\* got_request keeps the promise of Rpc: one final outcome for each call.
ImplementsRpc == RpcCalls!Spec
=============================================================================
