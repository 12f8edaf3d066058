---------------------------- MODULE InMemoryCall ----------------------------
(***************************************************************************)
(* Calls over the in-memory transport: InMemoryChannel awaits              *)
(* InMemoryTransport.handle_request, which awaits got_request (GotRequest) *)
(* in the same task.  No wire lies between the two ends: an exception      *)
(* arrives as it is, and a cancellation of the caller is one of what the   *)
(* server awaits.  The metadata and the timeout of a call go nowhere.      *)
(*                                                                         *)
(* GotRequest is contained with its variables; what it returns reaches the *)
(* caller in the same step, for there is no await in between.              *)
(***************************************************************************)
EXTENDS Naturals, Sequences

CONSTANTS
  Request, Route, Cardinality, Dependencies, MaxDependencies, MetaKey,
  MetaKwargs, MaxMessages           \* as in GotRequest

VARIABLES
  pc, route, stack, gen, unwinding, result, messages, calls, \* of GotRequest
  started,    \* InMemoryTransport.routes is not None
  method,     \* the method of the channel a call uses
  call,       \* "idle", "pending", "streaming" or what the caller got
  received    \* models the caller took from the stream

Server == INSTANCE GotRequest

ASSUME RequestPathAssumption ==
  /\ MaxDependencies \in Nat
  /\ MaxMessages \in Nat
  /\ Cardinality \in [Route -> Server!Cardinalities]
  /\ MetaKwargs \in [Route -> SUBSET MetaKey]
  /\ Dependencies \in [Route -> Seq(Server!DependencyKind)]
  /\ \A rt \in Route : Len(Dependencies[rt]) <= MaxDependencies

server == <<pc, route, stack, gen, unwinding, result, messages, calls>>
vars == <<server, started, method, call, received>>

Methods == {"send_unary_unary", "send_unary_stream"}
Over(r) == call[r] \notin {"idle", "pending", "streaming"}

\* What a converter raises.
ConversionErrors == {"InvalidArgumentError", "ServerError", "Exception"}

Init ==
  /\ Server!Init
  /\ started = FALSE
  /\ method \in [Request -> Methods]
  /\ call = [r \in Request |-> "idle"]
  /\ received = [r \in Request |-> 0]

Answer(r, o) == call' = [call EXCEPT ![r] = o]

\* InMemoryTransport.start and stop: the routes are set and dropped, calls in
\* flight are not looked at.
Start ==
  /\ ~started
  /\ started' = TRUE
  /\ UNCHANGED <<server, method, call, received>>

Stop ==
  /\ started
  /\ started' = FALSE
  /\ UNCHANGED <<server, method, call, received>>

-----------------------------------------------------------------------------
\* A call that does not get to got_request: the request cannot be converted,
\* the transport is not started, or it has no such path.
Refused(r) ==
  /\ call[r] = "idle"
  /\ \/ \E e \in ConversionErrors : Answer(r, e)
     \/ ~started /\ Answer(r, "Exception")
     \/ started /\ Answer(r, "ServerError")
  /\ UNCHANGED <<server, started, method, received>>

\* The channel looks at what handle_request returned or raised: bytes for
\* send_unary_unary, an asynchronous iterator for send_unary_stream.
Return(r) ==
  LET returned == IF pc'[r] = "opened" THEN "stream" ELSE result'[r] IN
  \/ /\ pc'[r] \notin {"opened", "done"}
     /\ Answer(r, "pending")
  \/ /\ pc'[r] = "done"
     /\ returned \in Server!Errors
     /\ Answer(r, returned)
  \/ /\ pc'[r] = "done"
     /\ returned \in Server!Replies
     /\ \E o \in IF method[r] = "send_unary_unary"
                 THEN {returned} \cup ConversionErrors ELSE {"Exception"} :
          Answer(r, o)
  \/ /\ pc'[r] = "opened"
     /\ Answer(r, IF method[r] = "send_unary_stream" THEN "streaming" ELSE "Exception")

\* handle_request passes an empty metadata dictionary.
Meta_OfTheCall == MetaKey
Meta == {}

HandleRequest(r) ==
  /\ call[r] = "idle"
  /\ started
  /\ \/ Server!DecodeFails(r)
     \/ Server!Decode(r, Meta)
     \/ Server!MetaMissing(r, Meta)
  /\ Return(r)
  /\ UNCHANGED <<started, method, received>>

Serve_WhileStarted(r) ==
  /\ started
  /\ call[r] = "pending"
  /\ Server!Serve(r)
  /\ Return(r)
  /\ UNCHANGED <<started, method, received>>

Serve(r) ==
  /\ call[r] = "pending"
  /\ Server!Serve(r)
  /\ Return(r)
  /\ UNCHANGED <<started, method, received>>

-----------------------------------------------------------------------------
\* The async for of send_unary_stream.
IteratorStarts(r) ==
  /\ call[r] = "streaming"
  /\ Server!StreamHandlerReturns(r)
  /\ UNCHANGED <<started, method, call, received>>

\* A message the channel cannot convert ends the call and leaves the iterator.
MessageArrives_AfterTheEnd(r) ==
  /\ Server!StreamYields(r)
  /\ received' = [received EXCEPT ![r] = @ + 1]
  /\ UNCHANGED <<started, method, call>>

MessageArrives(r) ==
  /\ call[r] = "streaming"
  /\ Server!StreamYields(r)
  /\ \/ received' = [received EXCEPT ![r] = @ + 1] /\ UNCHANGED call
     \/ UNCHANGED received /\ \E e \in ConversionErrors : Answer(r, e)
  /\ UNCHANGED <<started, method>>

IteratorEnds(r) ==
  /\ call[r] = "streaming"
  /\ \/ Server!StreamHandlerFails(r)
     \/ Server!StreamFails(r)
     \/ Server!StreamCompletes(r)
  /\ Answer(r, result'[r])
  /\ UNCHANGED <<started, method, received>>

\* The caller leaves its loop.  Nobody closes the iterator of got_request.
CallerStops(r) ==
  /\ call[r] = "streaming"
  /\ Answer(r, "abandoned")
  /\ UNCHANGED <<server, started, method, received>>

\* The interpreter collects an iterator without a caller.
Collect(r) ==
  /\ Over(r)
  /\ Server!StreamAbandoned(r)
  /\ UNCHANGED <<started, method, call, received>>

Next ==
  \/ Start
  \/ Stop
  \/ \E r \in Request :
       \/ Refused(r)
       \/ HandleRequest(r)
       \/ Serve(r)
       \/ IteratorStarts(r)
       \/ MessageArrives(r)
       \/ IteratorEnds(r)
       \/ CallerStops(r)
       \/ Collect(r)

Spec == Init /\ [][Next]_vars

\* The event loop resumes the task, and user code returns or raises.
FairSpec == Spec /\ \A r \in Request : WF_vars(Serve(r))

-----------------------------------------------------------------------------
\* A call that is over for its caller holds no dependency of the server at its
\* yield, whoever ended it: a handler that raised, a wrong method of the
\* channel, a reply that cannot be converted, a caller that left the stream, a
\* transport stopped in between.
FinishedCallHoldsNothing ==
  \A r \in Request : Over(r) =>
    \A i \in 1..MaxDependencies : gen[r][i] # "suspended"

\* The caller gets models only when its method fits the route, and then from
\* one call of the handler.  The empty metadata shuts it out of every route
\* that asks for some.
AnswersFitTheRoute ==
  \A r \in Request :
    call[r] \in Server!Replies \cup {"completed"} \/ received[r] # 0 =>
      /\ Cardinality[route[r]] =
           (IF method[r] = "send_unary_unary" THEN "UNARY_UNARY" ELSE "UNARY_STREAM")
      /\ MetaKwargs[route[r]] = {}
      /\ calls[r] = 1

\* A caller that is cancelled while it awaits a unary handler gets a
\* ServerError, and a timeout around the call does not see its cancellation
\* again; a CancelledError comes out of the exit of a dependency only.
CancellationIsMasked ==
  \A r \in Request :
    method[r] = "send_unary_unary" /\ call[r] = "CancelledError" =>
      unwinding[r] = "CancelledError"

\* A call that got to the server comes back to its caller, also when the
\* transport is stopped meanwhile.
EveryCallReturns == \A r \in Request : call[r] = "pending" ~> call[r] # "pending"

\* The two ends together keep the promise of Rpc to the caller.
Promise == INSTANCE Rpc WITH
  Reply <- Server!Replies,
  Error <- Server!Errors,
  StreamEnd <- Server!StreamEnds,
  delivered <- received

CallersSeeRpc == Promise!Spec
=============================================================================
