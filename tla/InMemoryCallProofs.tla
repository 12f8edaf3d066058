------------------------- MODULE InMemoryCallProofs -------------------------
(***************************************************************************)
(* Proofs about InMemoryCall, for any routes and requests.  What concerns  *)
(* the server alone comes from GotRequestProofs: each step of a call is a  *)
(* step of got_request or leaves it alone, so its invariant holds here.    *)
(***************************************************************************)
EXTENDS InMemoryCall, TLAPS

Path == INSTANCE GotRequestProofs

\* The steps of got_request a call can cause.
ServerStep(r) ==
  \/ Server!DecodeFails(r) \/ Server!Decode(r, Meta) \/ Server!MetaMissing(r, Meta)
  \/ Server!Serve(r)
  \/ Server!StreamHandlerReturns(r) \/ Server!StreamHandlerFails(r)
  \/ Server!StreamYields(r) \/ Server!StreamFails(r)
  \/ Server!StreamCompletes(r) \/ Server!StreamAbandoned(r)

\* Where got_request is while the call is where it is.
CallInv(r) ==
  /\ call[r] = "idle" => pc[r] = "idle" /\ received[r] = 0
  /\ call[r] = "pending" =>
       pc[r] \in {"dependencies", "handler", "closing"} /\ received[r] = 0
  /\ call[r] = "streaming" =>
       pc[r] \in {"opened", "streaming"} /\ method[r] = "send_unary_stream"
  /\ call[r] = "streaming" /\ pc[r] = "opened" => received[r] = 0
  /\ Over(r) => pc[r] \in {"idle", "opened", "streaming", "done"}

\* Who gets past the lookup of metadata, and what comes of which route.
RouteInv(r) ==
  /\ pc[r] \in {"dependencies", "handler", "opened", "streaming"} =>
       MetaKwargs[route[r]] = {}
  /\ pc[r] = "opened" => calls[r] = 0
  /\ pc[r] = "streaming" => calls[r] = 1
  /\ pc[r] = "closing" =>
       /\ result[r] # "CancelledError"
       /\ result[r] \in Server!Replies \cup {"stream"} => MetaKwargs[route[r]] = {}
       /\ result[r] \in Server!Replies => Cardinality[route[r]] = "UNARY_UNARY"

Got(r) == call[r] \in Server!Replies \cup {"completed"} \/ received[r] # 0

AnswerInv(r) ==
  /\ Got(r) =>
       /\ Cardinality[route[r]] =
            (IF method[r] = "send_unary_unary" THEN "UNARY_UNARY" ELSE "UNARY_STREAM")
       /\ MetaKwargs[route[r]] = {}
       /\ calls[r] = 1
  /\ method[r] = "send_unary_unary" /\ call[r] = "CancelledError" =>
       unwinding[r] = "CancelledError"

Outcomes ==
  {"idle", "pending", "streaming", "abandoned", "completed"}
    \cup Server!Replies \cup Server!Errors

CallTypeOK ==
  /\ method \in [Request -> Methods]
  /\ call \in [Request -> Outcomes]
  /\ received \in [Request -> Nat]

Inv ==
  /\ Path!Inv
  /\ CallTypeOK
  /\ \A r \in Request : CallInv(r) /\ RouteInv(r) /\ AnswerInv(r)

-----------------------------------------------------------------------------
\* The two instances of GotRequest are one.
LEMMA ServerStepIsStep ==
  ASSUME NEW r \in Request, ServerStep(r)
  PROVE  Path!Step(r)
<1> USE DEF Server!Goto, Path!Goto, Server!Outcome, Path!Outcome,
            Server!Errors, Path!Errors, Server!ModappError, Path!ModappError,
            Server!MapError, Path!MapError, Server!Dependency, Path!Dependency
<1>1. CASE Server!DecodeFails(r)
  BY <1>1 DEF Server!DecodeFails, Path!DecodeFails, Path!Step, Path!Start
<1>2. CASE Server!Decode(r, Meta) \/ Server!MetaMissing(r, Meta)
  <2>1. Meta \in SUBSET MetaKey
    BY DEF Meta
  <2>2. Path!Decode(r, Meta) \/ Path!MetaMissing(r, Meta)
    BY <1>2 DEF Server!Decode, Path!Decode, Server!MetaMissing, Path!MetaMissing
  <2> QED BY <2>1, <2>2 DEF Path!Step, Path!Start
<1>3. CASE Server!Serve(r)
  <2>1. CASE Server!EnterDependency(r)
    BY <2>1 DEF Server!EnterDependency, Path!EnterDependency, Path!Step, Path!Serve
  <2>2. CASE Server!DependencyFails(r)
    BY <2>2 DEF Server!DependencyFails, Path!DependencyFails, Path!Step, Path!Serve
  <2>3. CASE Server!DependencyUnsupported(r)
    BY <2>3 DEF Server!DependencyUnsupported, Path!DependencyUnsupported,
                Path!Step, Path!Serve
  <2>4. CASE Server!CallHandler(r)
    BY <2>4 DEF Server!CallHandler, Path!CallHandler, Server!AllEntered,
                Path!AllEntered, Path!Step, Path!Serve
  <2>5. CASE Server!MakeStream(r)
    BY <2>5 DEF Server!MakeStream, Path!MakeStream, Server!AllEntered,
                Path!AllEntered, Path!Step, Path!Serve
  <2>6. CASE Server!NoBranch(r)
    BY <2>6 DEF Server!NoBranch, Path!NoBranch, Server!AllEntered,
                Path!AllEntered, Path!Step, Path!Serve
  <2>7. CASE Server!HandlerReturns(r)
    BY <2>7 DEF Server!HandlerReturns, Path!HandlerReturns, Server!ReplyOutcomes,
                Path!ReplyOutcomes, Server!Replies, Path!Replies, Path!Step, Path!Serve
  <2>8. CASE Server!HandlerRaises(r)
    BY <2>8 DEF Server!HandlerRaises, Path!HandlerRaises, Path!Step, Path!Serve
  <2>9. CASE Server!ExitDependency(r)
    BY <2>9 DEF Server!ExitDependency, Path!ExitDependency, Server!Top, Path!Top,
                Server!Pop, Path!Pop, Server!ExitState, Path!ExitState,
                Server!NoError, Path!NoError, Path!Step, Path!Serve
  <2>10. CASE Server!Finish(r)
    BY <2>10 DEF Server!Finish, Path!Finish, Server!NoError, Path!NoError,
                 Path!Step, Path!Serve
  <2> QED BY <1>3, <2>1, <2>2, <2>3, <2>4, <2>5, <2>6, <2>7, <2>8, <2>9, <2>10
             DEF Server!Serve
<1>4. CASE Server!StreamHandlerReturns(r) \/ Server!StreamHandlerFails(r)
  BY <1>4 DEF Server!StreamHandlerReturns, Path!StreamHandlerReturns,
              Server!StreamHandlerFails, Path!StreamHandlerFails,
              Path!Step, Path!Stream
<1>5. CASE Server!StreamYields(r) \/ Server!StreamFails(r)
  BY <1>5 DEF Server!StreamYields, Path!StreamYields,
              Server!StreamFails, Path!StreamFails, Path!Step, Path!Stream
<1>6. CASE Server!StreamCompletes(r) \/ Server!StreamAbandoned(r)
  BY <1>6 DEF Server!StreamCompletes, Path!StreamCompletes,
              Server!StreamAbandoned, Path!StreamAbandoned, Path!Step, Path!Stream
<1> QED BY <1>1, <1>2, <1>3, <1>4, <1>5, <1>6 DEF ServerStep

\* What GotRequestProofs says of such a step.
LEMMA ServerStepEffect ==
  ASSUME Path!Inv, NEW r \in Request, ServerStep(r)
  PROVE  /\ Path!Inv'
         /\ route' = route
         /\ \A s \in Request : s # r =>
              /\ pc'[s] = pc[s] /\ result'[s] = result[s]
              /\ calls'[s] = calls[s] /\ unwinding'[s] = unwinding[s]
<1> USE RequestPathAssumption DEF Server!Cardinalities, Server!DependencyKind,
                                  Path!Cardinalities, Path!DependencyKind
<1>1. Path!Step(r)
  BY ServerStepIsStep
<1>2. Path!Inv'
  BY <1>1, Path!StepKeepsInv
<1>3. route' = route
  BY <1>1, Path!RouteIsFixed
<1>4. Path!TypeOK
  BY DEF Path!Inv
<1>5. ASSUME NEW s \in Request, s # r
      PROVE  /\ pc'[s] = pc[s] /\ result'[s] = result[s]
             /\ calls'[s] = calls[s] /\ unwinding'[s] = unwinding[s]
  BY <1>1, <1>4, <1>5, Path!OthersUntouched
<1> QED BY <1>2, <1>3, <1>5

-----------------------------------------------------------------------------
\* No call has been made in the initial state.
LEMMA InitInv == Init => Inv
<1> SUFFICES ASSUME Init PROVE Inv
  OBVIOUS
<1>1. Path!Init
  BY DEF Init, Server!Init, Path!Init, Server!Slot, Path!Slot, Server!NoError,
         Path!NoError, Server!NoResult, Path!NoResult
<1>2. Path!Inv
  BY <1>1, Path!InitInv, RequestPathAssumption
     DEF Server!Cardinalities, Server!DependencyKind,
         Path!Cardinalities, Path!DependencyKind
<1>3. CallTypeOK
  BY DEF Init, CallTypeOK, Outcomes
<1>4. ASSUME NEW r \in Request PROVE CallInv(r) /\ RouteInv(r) /\ AnswerInv(r)
  <2>1. pc[r] = "idle" /\ call[r] = "idle" /\ received[r] = 0
    BY DEF Init, Server!Init
  <2>2. CallInv(r)
    BY <2>1 DEF CallInv, Over
  <2>3. RouteInv(r)
    BY <2>1 DEF RouteInv
  <2>4. AnswerInv(r)
    BY <2>1 DEF AnswerInv, Got, Server!Replies
  <2> QED BY <2>2, <2>3, <2>4
<1> QED BY <1>2, <1>3, <1>4 DEF Inv

\* What the step leaves for the transport.
LEMMA RouteStep ==
  ASSUME Path!Inv, NEW r \in Request, ServerStep(r), RouteInv(r)
  PROVE  RouteInv(r)'
<1> USE DEF Server!Goto, Server!Outcome, Server!MapError, Server!ModappError,
            Server!Errors, Server!Replies
<1>0. /\ pc \in [Request -> Path!PC] /\ route' = route
      /\ result \in [Request -> Path!Results] /\ calls \in [Request -> Nat]
  BY ServerStepEffect DEF Path!Inv, Path!TypeOK
<1>1. CASE Server!DecodeFails(r)
  BY <1>0, <1>1 DEF Server!DecodeFails, RouteInv
<1>2. CASE Server!Decode(r, Meta) \/ Server!MetaMissing(r, Meta)
  BY <1>0, <1>2 DEF Server!Decode, Server!MetaMissing, Meta, RouteInv
<1>3. CASE Server!Serve(r)
  <2>1. CASE Server!EnterDependency(r)
    BY <1>0, <2>1 DEF Server!EnterDependency, RouteInv
  <2>2. CASE Server!DependencyFails(r) \/ Server!DependencyUnsupported(r)
    BY <1>0, <2>2 DEF Server!DependencyFails, Server!DependencyUnsupported, RouteInv
  <2>3. CASE Server!CallHandler(r)
    BY <1>0, <2>3 DEF Server!CallHandler, RouteInv
  <2>4. CASE Server!MakeStream(r) \/ Server!NoBranch(r)
    BY <1>0, <2>4 DEF Server!MakeStream, Server!NoBranch, RouteInv
  <2>5. CASE Server!HandlerReturns(r)
    <3>1. PICK o \in Server!Replies \cup Server!ModappError :
            result' = [result EXCEPT ![r] = o]
      BY <2>5 DEF Server!HandlerReturns, Server!ReplyOutcomes
    <3>2. Cardinality[route[r]] = "UNARY_UNARY"
      BY <2>5 DEF Server!HandlerReturns, Path!Inv, Path!RequestInv, Path!PlaceInv
    <3> QED BY <1>0, <2>5, <3>1, <3>2 DEF Server!HandlerReturns, RouteInv
  <2>6. CASE Server!HandlerRaises(r)
    BY <1>0, <2>6 DEF Server!HandlerRaises, RouteInv
  <2>7. CASE Server!ExitDependency(r)
    BY <1>0, <2>7 DEF Server!ExitDependency, RouteInv
  <2>8. CASE Server!Finish(r)
    <3>1. result[r] = "stream" => calls[r] = 0
      BY <2>8 DEF Server!Finish, Path!Inv, Path!RequestInv, Path!OutcomeInv,
                  Path!Replies, Path!ModappError
    <3>2. pc'[r] = "opened" => result[r] = "stream"
      BY <1>0, <2>8 DEF Server!Finish
    <3>3. pc'[r] \in {"opened", "done"}
      BY <1>0, <2>8 DEF Server!Finish
    <3> QED BY <1>0, <2>8, <3>1, <3>2, <3>3 DEF Server!Finish, RouteInv
  <2> QED BY <1>3, <2>1, <2>2, <2>3, <2>4, <2>5, <2>6, <2>7, <2>8 DEF Server!Serve
<1>4. CASE Server!StreamHandlerReturns(r)
  BY <1>0, <1>4 DEF Server!StreamHandlerReturns, RouteInv
<1>5. CASE Server!StreamHandlerFails(r)
  BY <1>0, <1>5 DEF Server!StreamHandlerFails, RouteInv
<1>6. CASE Server!StreamYields(r) \/ Server!StreamFails(r)
  BY <1>0, <1>6 DEF Server!StreamYields, Server!StreamFails, RouteInv
<1>7. CASE Server!StreamCompletes(r) \/ Server!StreamAbandoned(r)
  BY <1>0, <1>7 DEF Server!StreamCompletes, Server!StreamAbandoned, RouteInv
<1> QED BY <1>1, <1>2, <1>3, <1>4, <1>5, <1>6, <1>7 DEF ServerStep

\* Where got_request goes while a call waits for it.
LEMMA ServeOutcome ==
  ASSUME Path!Inv, NEW r \in Request, RouteInv(r),
         Server!DecodeFails(r) \/ Server!Decode(r, Meta)
           \/ Server!MetaMissing(r, Meta) \/ Server!Serve(r)
  PROVE  /\ pc'[r] \in {"dependencies", "handler", "closing", "opened", "done"}
         /\ pc'[r] = "done" /\ result'[r] \in Server!Replies =>
              /\ Cardinality[route[r]] = "UNARY_UNARY"
              /\ MetaKwargs[route[r]] = {}
              /\ calls'[r] = 1
         /\ pc'[r] = "done" /\ result'[r] = "CancelledError" =>
              unwinding'[r] = "CancelledError"
<1> USE DEF Server!Goto, Server!Outcome, Server!Replies
<1>0. /\ pc \in [Request -> Path!PC]
      /\ result \in [Request -> Path!Results]
      /\ UNCHANGED unwinding => unwinding'[r] = unwinding[r]
  BY DEF Path!Inv, Path!TypeOK
<1>1. CASE Server!DecodeFails(r)
  BY <1>0, <1>1 DEF Server!DecodeFails
<1>2. CASE Server!Decode(r, Meta) \/ Server!MetaMissing(r, Meta)
  BY <1>0, <1>2 DEF Server!Decode, Server!MetaMissing
<1>3. CASE Server!Finish(r)
  <2>1. pc[r] = "closing" /\ calls'[r] = calls[r] /\ unwinding'[r] = unwinding[r]
    BY <1>3 DEF Server!Finish
  <2>2. result[r] \in Server!Replies => calls[r] = 1
    BY <2>1 DEF Path!Inv, Path!RequestInv, Path!OutcomeInv, Path!Replies
  <2>3. pc'[r] \in {"opened", "done"}
    BY <1>0, <1>3 DEF Server!Finish
  <2>4. result'[r] = IF unwinding[r] = Server!NoError THEN result[r] ELSE unwinding[r]
    BY <1>0, <1>3 DEF Server!Finish
  <2>5. unwinding[r] \notin Server!Replies
    BY DEF Path!Inv, Path!TypeOK, Path!Errors, Path!ModappError, Path!NoError
  <2>6. result'[r] = "CancelledError" => unwinding'[r] = "CancelledError"
    BY <2>1, <2>4 DEF RouteInv
  <2>7. result'[r] \in Server!Replies => result[r] \in Server!Replies
    BY <2>4, <2>5
  <2> QED BY <2>1, <2>2, <2>3, <2>6, <2>7 DEF RouteInv
<1>4. CASE Server!Serve(r) /\ ~Server!Finish(r)
  <2>1. pc'[r] \in {"dependencies", "handler", "closing"}
    BY <1>0, <1>4 DEF Server!Serve, Server!EnterDependency, Server!DependencyFails,
         Server!DependencyUnsupported, Server!CallHandler, Server!MakeStream,
         Server!NoBranch, Server!HandlerReturns, Server!HandlerRaises,
         Server!ExitDependency
  <2> QED BY <2>1
<1> QED BY <1>1, <1>2, <1>3, <1>4 DEF Server!Serve

-----------------------------------------------------------------------------
\* A step of a call looks at its own request only.
Quiet(r) ==
  /\ UNCHANGED method
  /\ \A s \in Request : s # r => call'[s] = call[s] /\ received'[s] = received[s]
  /\ ServerStep(r) \/ UNCHANGED server

Fits(r) == CallTypeOK' /\ Quiet(r) /\ CallInv(r)' /\ AnswerInv(r)'

\* Replies, errors and the states of a call are told apart.
LEMMA Words ==
  /\ Server!Replies \subseteq Outcomes /\ Server!Errors \subseteq Outcomes
  /\ ConversionErrors \subseteq Server!Errors \ {"CancelledError"}
  /\ \A o \in Server!Errors :
       o \notin Server!Replies \cup {"idle", "pending", "streaming", "completed"}
  /\ \A o \in Server!Replies :
       o \notin {"idle", "pending", "streaming", "completed", "CancelledError"}
BY DEF Outcomes, Server!Replies, Server!Errors, Server!ModappError, ConversionErrors

\* A refused call has not touched got_request.
LEMMA RefusedFits ==
  ASSUME Inv, NEW r \in Request, Refused(r)
  PROVE  Fits(r)
<1>1. PICK o \in Server!Errors \ {"CancelledError"} : call' = [call EXCEPT ![r] = o]
  BY Words DEF Refused, Answer, Server!Errors, Server!ModappError
<1>2. UNCHANGED <<server, method, received>> /\ call[r] = "idle"
  BY DEF Refused
<1>3. CallTypeOK' /\ call'[r] = o
  BY <1>1, <1>2, Words DEF Inv, CallTypeOK
<1>4. Quiet(r)
  BY <1>1, <1>2 DEF Quiet, Inv, CallTypeOK
<1>5. pc'[r] = "idle" /\ received'[r] = 0
  BY <1>2 DEF Inv, CallInv, server
<1>6. CallInv(r)'
  BY <1>3, <1>5, Words DEF CallInv
<1>7. AnswerInv(r)'
  BY <1>3, <1>5, Words DEF AnswerInv, Got
<1> QED BY <1>3, <1>4, <1>6, <1>7 DEF Fits

\* The channel has looked at what handle_request returned or raised.
LEMMA ReturnFits ==
  ASSUME Inv, NEW r \in Request, call[r] \in {"idle", "pending"},
         Server!DecodeFails(r) \/ Server!Decode(r, Meta)
           \/ Server!MetaMissing(r, Meta) \/ Server!Serve(r),
         Return(r), UNCHANGED <<method, received>>
  PROVE  Fits(r)
<1>0. /\ pc'[r] \in {"dependencies", "handler", "closing", "opened", "done"}
      /\ pc'[r] = "done" /\ result'[r] \in Server!Replies =>
           /\ Cardinality[route[r]] = "UNARY_UNARY"
           /\ MetaKwargs[route[r]] = {}
           /\ calls'[r] = 1
      /\ pc'[r] = "done" /\ result'[r] = "CancelledError" =>
           unwinding'[r] = "CancelledError"
  BY ServeOutcome DEF Inv
<1>1. ServerStep(r) /\ received'[r] = 0 /\ method'[r] = method[r]
  BY DEF ServerStep, Inv, CallInv
<1>2. route' = route
  BY <1>1, ServerStepEffect DEF Inv
<1>3. ASSUME NEW o \in Outcomes, Answer(r, o)
      PROVE  CallTypeOK' /\ Quiet(r) /\ call'[r] = o
  BY <1>1, <1>3 DEF Answer, Quiet, Inv, CallTypeOK
<1>4. CASE pc'[r] \notin {"opened", "done"} /\ Answer(r, "pending")
  <2>1. CallTypeOK' /\ Quiet(r) /\ call'[r] = "pending"
    BY <1>3, <1>4 DEF Outcomes
  <2>2. CallInv(r)'
    BY <1>0, <1>1, <1>4, <2>1 DEF CallInv, Over
  <2>3. AnswerInv(r)'
    BY <1>1, <2>1, Words DEF AnswerInv, Got
  <2> QED BY <2>1, <2>2, <2>3 DEF Fits
<1>5. CASE pc'[r] = "done" /\ result'[r] \in Server!Errors /\ Answer(r, result'[r])
  <2>1. CallTypeOK' /\ Quiet(r) /\ call'[r] = result'[r]
    BY <1>3, <1>5, Words
  <2>2. CallInv(r)'
    BY <1>5, <2>1, Words DEF CallInv
  <2>3. AnswerInv(r)'
    BY <1>0, <1>1, <1>5, <2>1, Words DEF AnswerInv, Got
  <2> QED BY <2>1, <2>2, <2>3 DEF Fits
<1>6. CASE /\ pc'[r] = "done" /\ result'[r] \in Server!Replies
           /\ method[r] = "send_unary_unary" /\ Answer(r, result'[r])
  <2>1. CallTypeOK' /\ Quiet(r) /\ call'[r] = result'[r]
    BY <1>3, <1>6, Words
  <2>2. CallInv(r)'
    BY <1>6, <2>1, Words DEF CallInv
  <2>3. AnswerInv(r)'
    BY <1>0, <1>1, <1>2, <1>6, <2>1, Words DEF AnswerInv, Got
  <2> QED BY <2>1, <2>2, <2>3 DEF Fits
<1>7. ASSUME pc'[r] \in {"opened", "done"}, NEW o \in ConversionErrors, Answer(r, o)
      PROVE  Fits(r)
  <2>1. o \in Server!Errors /\ o # "CancelledError"
    BY Words
  <2>2. CallTypeOK' /\ Quiet(r) /\ call'[r] = o
    BY <1>3, <1>7, <2>1, Words
  <2>3. CallInv(r)'
    BY <1>7, <2>1, <2>2, Words DEF CallInv
  <2>4. AnswerInv(r)'
    BY <1>1, <2>1, <2>2, Words DEF AnswerInv, Got
  <2> QED BY <2>2, <2>3, <2>4 DEF Fits
<1>8. CASE /\ pc'[r] = "opened" /\ method[r] = "send_unary_stream"
           /\ Answer(r, "streaming")
  <2>1. CallTypeOK' /\ Quiet(r) /\ call'[r] = "streaming"
    BY <1>3, <1>8 DEF Outcomes
  <2>2. CallInv(r)'
    BY <1>1, <1>8, <2>1 DEF CallInv, Over
  <2>3. AnswerInv(r)'
    BY <1>1, <2>1, Words DEF AnswerInv, Got
  <2> QED BY <2>1, <2>2, <2>3 DEF Fits
<1>9. "Exception" \in ConversionErrors
  BY DEF ConversionErrors
<1>10. CASE pc'[r] = "done" /\ result'[r] \in Server!Replies
            /\ \E o \in IF method[r] = "send_unary_unary"
                        THEN {result'[r]} \cup ConversionErrors ELSE {"Exception"} :
                 Answer(r, o)
  BY <1>6, <1>7, <1>9, <1>10
<1>11. CASE pc'[r] = "opened"
            /\ Answer(r, IF method[r] = "send_unary_stream" THEN "streaming" ELSE "Exception")
  BY <1>7, <1>8, <1>9, <1>11
<1> QED BY <1>4, <1>5, <1>10, <1>11 DEF Return

\* The async for of the channel.
LEMMA StreamFits ==
  ASSUME Inv, NEW r \in Request,
         IteratorStarts(r) \/ MessageArrives(r) \/ IteratorEnds(r) \/ CallerStops(r)
  PROVE  Fits(r)
<1> USE DEF Server!Goto, Server!Outcome
<1>0. /\ call[r] = "streaming" /\ UNCHANGED method
      /\ pc[r] \in {"opened", "streaming"} /\ method[r] = "send_unary_stream"
      /\ pc[r] = "opened" => received[r] = 0
      /\ received[r] \in Nat
  BY DEF IteratorStarts, MessageArrives, IteratorEnds, CallerStops, Inv, CallInv, CallTypeOK
<1>1. /\ pc[r] = "streaming" => calls[r] = 1
      /\ MetaKwargs[route[r]] = {} /\ Cardinality[route[r]] = "UNARY_STREAM"
  BY <1>0 DEF Inv, RouteInv, Path!Inv, Path!RequestInv, Path!PlaceInv
<1>2. /\ pc \in [Request -> Path!PC] /\ result \in [Request -> Path!Results]
      /\ call \in [Request -> Outcomes] /\ received \in [Request -> Nat]
  BY DEF Inv, Path!Inv, Path!TypeOK, CallTypeOK
<1>3. ServerStep(r) \/ UNCHANGED server
  BY DEF IteratorStarts, MessageArrives, IteratorEnds, CallerStops, ServerStep
<1>4. route' = route
  BY <1>3, ServerStepEffect DEF Inv, server
<1>5. ASSUME NEW o \in Outcomes \ {"idle", "pending", "streaming"},
             call' = [call EXCEPT ![r] = o], UNCHANGED received,
             pc'[r] \in {"opened", "streaming", "done"},
             o \notin Server!Replies,
             o = "completed" \/ received[r] # 0 => calls'[r] = 1
      PROVE  Fits(r)
  <2>1. call'[r] = o /\ received'[r] = received[r] /\ method'[r] = method[r]
    BY <1>0, <1>2, <1>5
  <2>2. CallTypeOK' /\ Quiet(r)
    BY <1>0, <1>2, <1>3, <1>5 DEF Inv, CallTypeOK, Quiet
  <2>3. CallInv(r)'
    BY <1>5, <2>1 DEF CallInv
  <2>4. AnswerInv(r)'
    BY <1>0, <1>1, <1>4, <1>5, <2>1 DEF AnswerInv, Got
  <2> QED BY <2>2, <2>3, <2>4 DEF Fits
<1>6. CASE IteratorStarts(r)
  <2>1. /\ pc[r] = "opened" /\ pc'[r] = "streaming"
        /\ call' = call /\ received' = received
    BY <1>2, <1>6 DEF IteratorStarts, Server!StreamHandlerReturns
  <2>2. CallTypeOK' /\ Quiet(r)
    BY <1>0, <1>3, <2>1 DEF Inv, CallTypeOK, Quiet
  <2>3. CallInv(r)'
    BY <1>0, <2>1 DEF CallInv, Over
  <2>4. AnswerInv(r)'
    BY <1>0, <2>1, Words DEF AnswerInv, Got
  <2> QED BY <2>2, <2>3, <2>4 DEF Fits
<1>7. CASE MessageArrives(r)
  <2>0. pc[r] = "streaming" /\ UNCHANGED <<pc, calls>>
    BY <1>7 DEF MessageArrives, Server!StreamYields
  <2>1. CASE received' = [received EXCEPT ![r] = @ + 1] /\ UNCHANGED call
    <3>1. CallTypeOK' /\ Quiet(r)
      BY <1>0, <1>2, <1>3, <2>1 DEF Inv, CallTypeOK, Quiet
    <3>2. CallInv(r)'
      BY <1>0, <2>0, <2>1 DEF CallInv, Over
    <3>3. AnswerInv(r)'
      BY <1>0, <1>1, <1>4, <2>0, <2>1 DEF AnswerInv
    <3> QED BY <3>1, <3>2, <3>3 DEF Fits
  <2>2. CASE UNCHANGED received /\ \E e \in ConversionErrors : Answer(r, e)
    <3>1. PICK e \in ConversionErrors : call' = [call EXCEPT ![r] = e]
      BY <2>2 DEF Answer
    <3>2. e \in Server!Errors
      BY Words
    <3> QED BY <1>1, <1>5, <2>0, <2>2, <3>1, <3>2, Words
  <2> QED BY <1>7, <2>1, <2>2 DEF MessageArrives
<1>8. CASE IteratorEnds(r)
  <2>1. pc'[r] = "done" /\ UNCHANGED received /\ call' = [call EXCEPT ![r] = result'[r]]
    BY <1>2, <1>8 DEF IteratorEnds, Answer, Server!StreamHandlerFails,
                      Server!StreamFails, Server!StreamCompletes
  <2>2. result'[r] \in Server!Errors \/ (result'[r] = "completed" /\ pc[r] = "streaming")
    BY <1>2, <1>8 DEF IteratorEnds, Server!StreamHandlerFails, Server!StreamFails,
                      Server!StreamCompletes
  <2>3. pc[r] = "streaming" => calls'[r] = 1
    BY <1>1, <1>8 DEF IteratorEnds, Server!StreamHandlerFails, Server!StreamFails,
                      Server!StreamCompletes
  <2>4. result'[r] \in Outcomes \ {"idle", "pending", "streaming"}
    BY <2>2, Words DEF Outcomes
  <2>5. result'[r] \notin Server!Replies /\ (result'[r] = "completed" => pc[r] = "streaming")
    BY <2>2, Words DEF Server!Replies
  <2> QED BY <1>0, <1>5, <2>1, <2>3, <2>4, <2>5
<1>9. CASE CallerStops(r)
  <2>1. /\ UNCHANGED <<pc, calls, received>>
        /\ call' = [call EXCEPT ![r] = "abandoned"]
    BY <1>9 DEF CallerStops, Answer, server
  <2>2. /\ "abandoned" \in Outcomes \ {"idle", "pending", "streaming"}
        /\ "abandoned" \notin Server!Replies
    BY DEF Outcomes, Server!Replies
  <2> QED BY <1>0, <1>1, <1>5, <2>1, <2>2
<1> QED BY <1>6, <1>7, <1>8, <1>9

\* What the interpreter collects, no caller sees.
LEMMA CollectFits ==
  ASSUME Inv, NEW r \in Request, Collect(r)
  PROVE  Fits(r)
<1>1. /\ UNCHANGED <<method, call, received, calls, unwinding, route>>
      /\ ServerStep(r) /\ Over(r)
  BY DEF Collect, Server!StreamAbandoned, ServerStep
<1>2. pc'[r] = "done"
  BY DEF Collect, Server!StreamAbandoned, Inv, Path!Inv, Path!TypeOK
<1>3. CallTypeOK' /\ Quiet(r)
  BY <1>1 DEF Inv, CallTypeOK, Quiet
<1>4. CallInv(r)'
  BY <1>1, <1>2 DEF CallInv, Over
<1>5. AnswerInv(r)'
  BY <1>1 DEF Inv, AnswerInv, Got
<1> QED BY <1>3, <1>4, <1>5 DEF Fits

-----------------------------------------------------------------------------
\* A request that does not move keeps what holds of it.
LEMMA FitsKeepsInv ==
  ASSUME Inv, NEW r \in Request, Fits(r)
  PROVE  Inv'
<1>1. /\ Path!Inv' /\ route' = route /\ RouteInv(r)'
      /\ \A s \in Request : s # r =>
           /\ pc'[s] = pc[s] /\ result'[s] = result[s]
           /\ calls'[s] = calls[s] /\ unwinding'[s] = unwinding[s]
  <2>1. CASE ServerStep(r)
    BY <2>1, ServerStepEffect, RouteStep DEF Inv
  <2>2. CASE UNCHANGED server
    <3>1. Path!Inv'
      BY <2>2 DEF server, Inv, Path!Inv, Path!TypeOK, Path!RequestInv, Path!StackInv,
             Path!PlaceInv, Path!UnwindInv, Path!OutcomeInv, Path!Exited, Path!Dependency
    <3> QED BY <2>2, <3>1 DEF server, Inv, RouteInv
  <2> QED BY <2>1, <2>2 DEF Fits, Quiet
<1>2. ASSUME NEW s \in Request, s # r
      PROVE  CallInv(s)' /\ RouteInv(s)' /\ AnswerInv(s)'
  <2>1. /\ call'[s] = call[s] /\ received'[s] = received[s] /\ method' = method
        /\ pc'[s] = pc[s] /\ result'[s] = result[s] /\ route' = route
        /\ calls'[s] = calls[s] /\ unwinding'[s] = unwinding[s]
    BY <1>1, <1>2 DEF Fits, Quiet
  <2>2. CallInv(s)'
    BY <2>1 DEF Inv, CallInv, Over
  <2>3. RouteInv(s)'
    BY <2>1 DEF Inv, RouteInv
  <2>4. AnswerInv(s)'
    BY <2>1 DEF Inv, AnswerInv, Got
  <2> QED BY <2>2, <2>3, <2>4
<1> QED BY <1>1, <1>2 DEF Inv, Fits

\* Every step of a call, and starting or stopping, keeps the invariant.
LEMMA StepInv == Inv /\ [Next]_vars => Inv'
<1> SUFFICES ASSUME Inv, [Next]_vars PROVE Inv'
  OBVIOUS
<1>1. CASE UNCHANGED <<server, method, call, received>>
  <2>1. Path!Inv'
    BY <1>1 DEF server, Inv, Path!Inv, Path!TypeOK, Path!RequestInv, Path!StackInv,
           Path!PlaceInv, Path!UnwindInv, Path!OutcomeInv, Path!Exited, Path!Dependency
  <2> QED BY <1>1, <2>1 DEF server, Inv, CallTypeOK, CallInv, Over, RouteInv,
                            AnswerInv, Got
<1>2. CASE Start \/ Stop
  BY <1>1, <1>2 DEF Start, Stop
<1>3. ASSUME NEW r \in Request, HandleRequest(r) \/ Serve(r) PROVE Inv'
  <2>1. Fits(r)
    BY <1>3, ReturnFits DEF HandleRequest, Serve
  <2> QED BY <2>1, FitsKeepsInv
<1>4. ASSUME NEW r \in Request, Refused(r) \/ Collect(r) PROVE Inv'
  BY <1>4, RefusedFits, CollectFits, FitsKeepsInv
<1>5. ASSUME NEW r \in Request,
             IteratorStarts(r) \/ MessageArrives(r) \/ IteratorEnds(r) \/ CallerStops(r)
      PROVE  Inv'
  BY <1>5, StreamFits, FitsKeepsInv
<1>6. CASE UNCHANGED vars
  BY <1>1, <1>6 DEF vars
<1> QED BY <1>2, <1>3, <1>4, <1>5, <1>6 DEF Next

\* Channel, transport and got_request always fit together, also when the
\* transport is stopped or the caller has left.
THEOREM Invariance == Spec => []Inv
BY InitInv, StepInv, PTL DEF Spec

\* A call that is over holds no dependency of the server at its yield, whoever
\* ended it (FinishedCallHoldsNothing).
THEOREM NothingHeld == Spec => []FinishedCallHoldsNothing
<1>1. Inv => FinishedCallHoldsNothing
  <2> SUFFICES ASSUME Inv, NEW r \in Request, Over(r),
                      NEW i \in 1..MaxDependencies
               PROVE  gen[r][i] # "suspended"
    BY DEF FinishedCallHoldsNothing
  <2>1. pc[r] \in {"idle", "opened", "streaming", "done"}
    BY DEF Inv, CallInv
  <2>2. Len(stack[r]) = 0 /\ (gen[r][i] = "suspended" <=> i <= Len(stack[r]))
    BY <2>1 DEF Inv, Path!Inv, Path!RequestInv, Path!PlaceInv, Path!StackInv, Path!Slot
  <2> QED BY <2>2, RequestPathAssumption
<1> QED BY <1>1, Invariance, PTL

\* Models reach only a caller whose method fits a route without metadata
\* (AnswersFitTheRoute).
THEOREM AnswersFit == Spec => []AnswersFitTheRoute
<1>1. Inv => AnswersFitTheRoute
  BY DEF Inv, AnswerInv, Got, AnswersFitTheRoute
<1> QED BY <1>1, Invariance, PTL

\* The caller of a unary route sees no cancellation but one out of the exit of a
\* dependency (CancellationIsMasked).
THEOREM CancellationMasked == Spec => []CancellationIsMasked
<1>1. Inv => CancellationIsMasked
  BY DEF Inv, AnswerInv, CancellationIsMasked
<1> QED BY <1>1, Invariance, PTL

-----------------------------------------------------------------------------
\* What the caller sees is a call of Rpc.
LEMMA MoveIsCall ==
  ASSUME NEW r \in Request, NEW o, UNCHANGED received,
         call' = [call EXCEPT ![r] = o],
         \/ call[r] = "idle" /\ o \in {"pending"} \cup Server!Errors
         \/ call[r] = "pending" /\ o \in {"streaming"} \cup Server!Replies \cup Server!Errors
         \/ call[r] = "streaming" /\ o \in Server!Errors \cup Server!StreamEnds
  PROVE  Promise!Next
BY DEF Promise!Next, Promise!Move, Promise!Submit, Promise!Refuse, Promise!Answer,
       Promise!OpenStream, Promise!CloseStream

\* What handle_request returns is a move of the call.
LEMMA ReturnIsMove ==
  ASSUME Inv, NEW r \in Request,
         \/ /\ call[r] = "idle"
            /\ Server!DecodeFails(r) \/ Server!Decode(r, Meta) \/ Server!MetaMissing(r, Meta)
         \/ call[r] = "pending" /\ Server!Serve(r),
         Return(r), UNCHANGED received
  PROVE  Promise!Next \/ UNCHANGED Promise!vars
<1>0. pc \in [Request -> Path!PC] /\ result \in [Request -> Path!Results]
      /\ call \in [Request -> Outcomes]
  BY DEF Inv, Path!Inv, Path!TypeOK, CallTypeOK
<1>1. call[r] = "idle" =>
        /\ pc'[r] \in {"dependencies", "closing", "done"}
        /\ pc'[r] = "done" => result'[r] \in Server!Errors
  BY <1>0 DEF Server!DecodeFails, Server!Decode, Server!MetaMissing, Server!Goto,
              Server!Outcome, Server!Errors, Server!ModappError
<1>2. pc'[r] \in {"dependencies", "handler", "closing", "opened", "done"}
  BY ServeOutcome DEF Inv
<1>3. CASE pc'[r] \notin {"opened", "done"}
  <2>1. call' = [call EXCEPT ![r] = "pending"]
    BY <1>3 DEF Return, Answer
  <2>2. call[r] = "pending" => call' = call
    BY <1>0, <2>1
  <2> QED BY <2>1, <2>2, MoveIsCall DEF Promise!vars
<1>4. CASE pc'[r] = "opened"
  <2>1. call[r] = "pending"
    BY <1>1, <1>4
  <2>2. \E o \in {"streaming", "Exception"} : call' = [call EXCEPT ![r] = o]
    BY <1>4 DEF Return, Answer
  <2>3. "Exception" \in Server!Errors
    BY DEF Server!Errors
  <2> QED BY <2>1, <2>2, <2>3, MoveIsCall
<1>5. CASE pc'[r] = "done"
  <2>1. \E o \in Server!Errors \cup Server!Replies :
          /\ call' = [call EXCEPT ![r] = o]
          /\ o \in Server!Errors \/ result'[r] \in Server!Replies
    BY <1>5, Words DEF Return, Answer, ConversionErrors
  <2>2. call[r] = "idle" => result'[r] \notin Server!Replies
    BY <1>1, <1>5, Words
  <2> QED BY <2>1, <2>2, MoveIsCall
<1> QED BY <1>2, <1>3, <1>4, <1>5

\* Every step of the two ends is a step of Rpc or a stutter.
LEMMA StepSimulates ==
  ASSUME Inv, NEW r \in Request,
         \/ Refused(r) \/ HandleRequest(r) \/ Serve(r) \/ IteratorStarts(r)
         \/ MessageArrives(r) \/ IteratorEnds(r) \/ CallerStops(r) \/ Collect(r)
  PROVE  Promise!Next \/ UNCHANGED Promise!vars
<1>1. CASE Refused(r)
  <2>1. \E o \in Server!Errors : call' = [call EXCEPT ![r] = o]
    BY <1>1, Words DEF Refused, Answer, Server!Errors, Server!ModappError
  <2> QED BY <1>1, <2>1, MoveIsCall DEF Refused
<1>2. CASE HandleRequest(r) \/ Serve(r)
  BY <1>2, ReturnIsMove DEF HandleRequest, Serve
<1>3. CASE IteratorStarts(r) \/ Collect(r)
  BY <1>3 DEF IteratorStarts, Collect, Promise!vars
<1>4. CASE MessageArrives(r)
  <2>1. CASE received' = [received EXCEPT ![r] = @ + 1] /\ UNCHANGED call
    BY <1>4, <2>1 DEF MessageArrives, Promise!Next, Promise!Deliver
  <2>2. CASE UNCHANGED received /\ \E e \in ConversionErrors : Answer(r, e)
    BY <1>4, <2>2, Words, MoveIsCall DEF MessageArrives, Answer
  <2> QED BY <1>4, <2>1, <2>2 DEF MessageArrives
<1>5. CASE IteratorEnds(r)
  <2>1. result \in [Request -> Path!Results]
    BY DEF Inv, Path!Inv, Path!TypeOK
  <2>2. result'[r] \in Server!Errors \cup Server!StreamEnds
    BY <1>5, <2>1 DEF IteratorEnds, Server!StreamHandlerFails, Server!StreamFails,
                      Server!StreamCompletes, Server!Outcome, Server!StreamEnds
  <2> QED BY <1>5, <2>2, MoveIsCall DEF IteratorEnds, Answer
<1>6. CASE CallerStops(r)
  BY <1>6, MoveIsCall DEF CallerStops, Answer, Server!StreamEnds
<1> QED BY <1>1, <1>2, <1>3, <1>4, <1>5, <1>6

\* The two ends together implement Rpc (CallersSeeRpc).
THEOREM Implementation == Spec => CallersSeeRpc
<1>1. Init => Promise!Init
  BY DEF Init, Promise!Init
<1>2. Inv /\ [Next]_vars => [Promise!Next]_(Promise!vars)
  <2> SUFFICES ASSUME Inv, [Next]_vars
               PROVE  Promise!Next \/ UNCHANGED Promise!vars
    OBVIOUS
  <2>1. CASE Start \/ Stop \/ UNCHANGED vars
    BY <2>1 DEF Start, Stop, vars, Promise!vars
  <2> QED BY <2>1, StepSimulates DEF Next
<1> QED BY <1>1, <1>2, Invariance, PTL DEF Spec, CallersSeeRpc, Promise!Spec
=============================================================================
