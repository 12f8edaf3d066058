--------------------------- MODULE HttpCallProofs ---------------------------
(***************************************************************************)
(* Proofs about HttpCall, for any requests, routes and cardinalities, and  *)
(* any converter.                                                          *)
(***************************************************************************)
EXTENDS HttpCall, TLAPS

\* How route_handler and got_request go together: got_request runs while
\* route_handler awaits it, nothing is answered before route_handler is over,
\* and what on_error is given is what got_request raised.
Stages(r) ==
  /\ client[r] = "idle" => handler[r] = "idle"
  /\ handler[r] = "idle" => call[r] = "idle"
  /\ call[r] = "pending" => handler[r] = "calling"
  /\ handler[r] # "done" => ends[r] = 0
  /\ handler[r] = "failed" =>
       /\ error[r] \in Errors \ {"CancelledError"}
       /\ \/ call[r] = error[r]
          \/ call[r] = "idle" /\ error[r] = "Exception"

\* What has been answered tells what got_request came to.
Answers(r) ==
  /\ ends[r] <= 1
  /\ ends[r] = 0 => status[r] = "none" /\ body[r] = "none"
  /\ status[r] = "200" => call[r] \in Replies
  /\ status[r] = "422" => call[r] = "InvalidArgumentError"
  /\ status[r] = "404" =>
       call[r] = "NotFoundError" \/ Cardinality[route[r]] = "UNARY_STREAM"
  /\ status[r] = "500" =>
       /\ call[r] \notin Replies \cup {"NotFoundError", "InvalidArgumentError"}
       /\ converter \in OwnConverters => body[r] = "raw error"

Inv ==
  /\ TypeOK
  /\ \A r \in Request : Stages(r) /\ Answers(r)

-----------------------------------------------------------------------------
\* What the converters make of an error, whichever it is.
LEMMA ErrorBodiesType ==
  ASSUME NEW e PROVE ErrorBodies(e) \subseteq {"raw error", "Internal Error"}
BY DEF ErrorBodies, ErrorToRaw, JsonErrorToRaw, ProtobufErrorToRaw, ErrorShown

\* Any error but the two with a status of their own gets a body of the converter,
\* if that is one of modapp.
LEMMA OwnFaultHasABody ==
  ASSUME converter \in OwnConverters, NEW e, StatusOf(e) = "500"
  PROVE  \A b \in ErrorBodies(e) : b = "raw error"
<1>1. e \notin {"NotFoundError", "InvalidArgumentError"}
  BY DEF StatusOf
<1>2. ErrorToRaw(ErrorShown(e)) = {"raw error"}
  BY <1>1 DEF ErrorToRaw, JsonErrorToRaw, ProtobufErrorToRaw, ErrorShown, OwnConverters
<1> QED BY <1>2 DEF ErrorBodies

\* on_error knows three statuses.
LEMMA StatusOfType ==
  ASSUME NEW e PROVE StatusOf(e) \in Statuses \ {"200", "400"}
BY DEF StatusOf, Statuses

\* What the converter of a channel makes of a body.
LEMMA ParsedType ==
  ASSUME NEW r PROVE Parsed(r) \subseteq ClientOutcomes
BY DEF Parsed, ClientOutcomes, ModappError

\* Nothing has been answered before the first post.
LEMMA InitInv == Init => Inv
<1> SUFFICES ASSUME Init PROVE Inv
  OBVIOUS
<1> USE DEF Init, Got!Init
<1>1. TypeOK
  BY DEF TypeOK, Bodies, Statuses
<1>2. ASSUME NEW r \in Request PROVE Stages(r) /\ Answers(r)
  BY DEF Stages, Answers
<1> QED BY <1>1, <1>2 DEF Inv

-----------------------------------------------------------------------------
\* What Respond does to the response of r.
LEMMA RespondType ==
  ASSUME TypeOK, NEW r \in Request, NEW s \in Statuses,
         NEW b \in Bodies, Respond(r, s, b)
  PROVE  /\ ends' \in [Request -> Nat]
         /\ status' \in [Request -> Statuses \cup {"none"}]
         /\ body' \in [Request -> Bodies]
<1>1. ends' \in [Request -> Nat]
  BY DEF TypeOK, Respond
<1>2. status' \in [Request -> Statuses \cup {"none"}]
  BY DEF TypeOK, Respond
<1>3. body' \in [Request -> Bodies]
  BY DEF TypeOK, Respond
<1> QED BY <1>1, <1>2, <1>3

\* An action that takes r out of route_handler with a response.
LEMMA ResponseType ==
  ASSUME TypeOK, NEW r \in Request, NEW s \in Statuses,
         NEW b \in Bodies, Respond(r, s, b),
         handler' = [handler EXCEPT ![r] = "done"],
         UNCHANGED <<converter, route, call, error, client>>
  PROVE  TypeOK'
<1>1. /\ ends' \in [Request -> Nat]
      /\ status' \in [Request -> Statuses \cup {"none"}]
      /\ body' \in [Request -> Bodies]
  BY RespondType
<1>2. handler' \in [Request -> {"idle", "calling", "failed", "done"}]
  BY DEF TypeOK
<1> QED BY <1>1, <1>2 DEF TypeOK

\* Every step keeps the types.
LEMMA TypeStep == TypeOK /\ [Next]_vars => TypeOK'
<1> SUFFICES ASSUME TypeOK, [Next]_vars PROVE TypeOK'
  OBVIOUS
<1>1. CASE UNCHANGED vars
  BY <1>1 DEF vars, TypeOK
<1>2. ASSUME NEW r \in Request, Post(r) \/ PostRaises(r) PROVE TypeOK'
  BY <1>2 DEF Post, PostRaises, TypeOK, ClientOutcomes
<1>3. ASSUME NEW r \in Request, GotData(r) PROVE TypeOK'
  <2>1. call' \in [Request -> {"idle", "pending"} \cup Replies \cup Errors]
    BY <1>3 DEF GotData, Got!Submit, Got!Refuse, Got!Move, TypeOK
  <2>2. handler' \in [Request -> {"idle", "calling", "failed", "done"}]
    BY <1>3 DEF GotData, HandlerGoes, TypeOK
  <2> QED BY <1>3, <2>1, <2>2 DEF GotData, TypeOK
<1>4. ASSUME NEW r \in Request, StreamRefused(r) PROVE TypeOK'
  <2>1. PICK s \in Statuses : Respond(r, s, "text")
    BY <1>4 DEF StreamRefused, Statuses
  <2>2. "text" \in Bodies
    BY DEF Bodies
  <2> QED BY <1>4, <2>1, <2>2, ResponseType DEF StreamRefused, HandlerGoes
<1>5. ASSUME NEW r \in Request, NoBranch(r) \/ GotRaises(r) PROVE TypeOK'
  <2>1. error' \in [Request -> Errors \cup {"none"}]
    BY <1>5 DEF NoBranch, GotRaises, Raise, TypeOK, Errors
  <2>2. handler' \in [Request -> {"idle", "calling", "failed", "done"}]
    BY <1>5 DEF NoBranch, GotRaises, Raise, TypeOK
  <2> QED BY <1>5, <2>1, <2>2 DEF NoBranch, GotRaises, TypeOK
<1>6. ASSUME NEW r \in Request, GotAnswer(r) PROVE TypeOK'
  <2>1. call' \in [Request -> {"idle", "pending"} \cup Replies \cup Errors]
    BY <1>6 DEF GotAnswer, Got!Answer, Got!Move, TypeOK
  <2> QED BY <1>6, <2>1 DEF GotAnswer, TypeOK
<1>7. ASSUME NEW r \in Request, SendReply(r) PROVE TypeOK'
  <2>1. "200" \in Statuses /\ "raw reply" \in Bodies
    BY DEF Statuses, Bodies
  <2> QED BY <1>7, <2>1, ResponseType DEF SendReply, HandlerGoes
<1>8. ASSUME NEW r \in Request, OnError(r) PROVE TypeOK'
  <2>1. PICK b \in ErrorBodies(error[r]) : Respond(r, StatusOf(error[r]), b)
    BY <1>8 DEF OnError
  <2>2. b \in Bodies
    BY ErrorBodiesType DEF Bodies
  <2>3. StatusOf(error[r]) \in Statuses
    BY StatusOfType
  <2> QED BY <1>8, <2>1, <2>2, <2>3, ResponseType DEF OnError, HandlerGoes
<1>9. ASSUME NEW r \in Request, TakeResponse(r) \/ GiveUp(r) PROVE TypeOK'
  <2>1. PICK o \in ClientOutcomes : ClientGets(r, o)
    BY <1>9, ParsedType DEF TakeResponse, GiveUp, ClientOutcomes
  <2>2. client' \in [Request -> {"idle", "waiting"} \cup ClientOutcomes]
    BY <2>1 DEF ClientGets, TypeOK
  <2> QED BY <1>9, <2>2 DEF TakeResponse, GiveUp, TypeOK
<1> QED BY <1>1, <1>2, <1>3, <1>4, <1>5, <1>6, <1>7, <1>8, <1>9 DEF Next, RouteHandler

-----------------------------------------------------------------------------
\* What Respond makes of a response that has not begun.
LEMMA RespondEffect ==
  ASSUME TypeOK, NEW r \in Request, NEW s, NEW b, Respond(r, s, b),
         ends[r] = 0, status[r] = "none", body[r] = "none"
  PROVE  /\ ends'[r] <= 1 /\ ends'[r] # 0
         /\ \/ status'[r] = s /\ body'[r] = b
            \/ status'[r] = "none" /\ body'[r] = "none"
<1>1. ends'[r] <= 1 /\ ends'[r] # 0
  BY DEF TypeOK, Respond
<1>2. CASE client[r] = "waiting"
  <2>1. status'[r] = s
    BY <1>2 DEF TypeOK, Respond
  <2>2. body'[r] = b
    BY <1>2 DEF TypeOK, Respond
  <2> QED BY <1>1, <2>1, <2>2
<1>3. CASE client[r] # "waiting"
  <2>1. status' = status /\ body' = body
    BY <1>3 DEF Respond
  <2> QED BY <1>1, <2>1
<1> QED BY <1>2, <1>3

\* The responses to the others are left alone.
LEMMA RespondOthers ==
  ASSUME TypeOK, NEW r \in Request, NEW q \in Request \ {r}, NEW s, NEW b,
         Respond(r, s, b)
  PROVE  ends'[q] = ends[q] /\ status'[q] = status[q] /\ body'[q] = body[q]
<1>1. ends'[q] = ends[q]
  BY DEF TypeOK, Respond
<1>2. status'[q] = status[q]
  BY DEF TypeOK, Respond
<1>3. body'[q] = body[q]
  BY DEF TypeOK, Respond
<1> QED BY <1>1, <1>2, <1>3

\* The actions of one request.
Step(r) ==
  Post(r) \/ PostRaises(r) \/ RouteHandler(r) \/ TakeResponse(r) \/ GiveUp(r)

\* They leave the other requests as they are.
LEMMA OthersUntouched ==
  ASSUME TypeOK, NEW r \in Request, NEW q \in Request \ {r}, Step(r)
  PROVE  /\ call'[q] = call[q]
         /\ route'[q] = route[q]
         /\ handler'[q] = handler[q]
         /\ error'[q] = error[q]
         /\ status'[q] = status[q]
         /\ body'[q] = body[q]
         /\ ends'[q] = ends[q]
         /\ client'[q] = client[q]
         /\ converter' = converter
<1>1. CASE Post(r) \/ PostRaises(r)
  BY <1>1 DEF Post, PostRaises, TypeOK
<1>2. CASE GotData(r)
  <2>1. call'[q] = call[q]
    BY <1>2 DEF GotData, Got!Submit, Got!Refuse, Got!Move, TypeOK
  <2>2. handler'[q] = handler[q]
    BY <1>2 DEF GotData, HandlerGoes, TypeOK
  <2> QED BY <1>2, <2>1, <2>2 DEF GotData
<1>3. CASE StreamRefused(r) \/ SendReply(r) \/ OnError(r)
  <2>1. \E s, b : Respond(r, s, b)
    BY <1>3 DEF StreamRefused, SendReply, OnError
  <2>2. handler'[q] = handler[q]
    BY <1>3 DEF StreamRefused, SendReply, OnError, HandlerGoes, TypeOK
  <2> QED BY <1>3, <2>1, <2>2, RespondOthers DEF StreamRefused, SendReply, OnError
<1>4. CASE NoBranch(r) \/ GotRaises(r)
  BY <1>4 DEF NoBranch, GotRaises, Raise, TypeOK
<1>5. CASE GotAnswer(r)
  BY <1>5 DEF GotAnswer, Got!Answer, Got!Move, TypeOK
<1>6. CASE TakeResponse(r) \/ GiveUp(r)
  BY <1>6 DEF TakeResponse, GiveUp, ClientGets, TypeOK
<1> QED BY <1>1, <1>2, <1>3, <1>4, <1>5, <1>6 DEF Step, RouteHandler

\* What they do to their own request.
LEMMA OwnStep ==
  ASSUME TypeOK, NEW r \in Request, Stages(r), Answers(r), Step(r)
  PROVE  Stages(r)' /\ Answers(r)'
<1>1. CASE Post(r)
  <2>1. client'[r] = "waiting"
    BY <1>1 DEF Post, TypeOK
  <2> QED BY <1>1, <2>1 DEF Post, Stages, Answers
<1>2. CASE PostRaises(r)
  <2>1. client'[r] = "Exception" /\ handler'[r] = "done"
    BY <1>2 DEF PostRaises, TypeOK
  <2> QED BY <1>2, <2>1 DEF PostRaises, Stages, Answers
<1>3. CASE GotData(r)
  <2>1. call[r] = "idle" /\ call'[r] \in Errors \cup {"pending"}
    BY <1>3 DEF GotData, Got!Submit, Got!Refuse, Got!Move, TypeOK
  <2>2. handler[r] = "idle" /\ handler'[r] = "calling"
    BY <1>3 DEF GotData, HandlerGoes, TypeOK
  <2>3. ends[r] = 0 /\ client[r] # "idle"
    BY <1>3, <2>2 DEF GotData, Stages
  <2>4. Stages(r)'
    BY <1>3, <2>1, <2>2, <2>3 DEF GotData, Stages, Errors, ModappError
  <2>5. Answers(r)'
    BY <1>3, <2>1, <2>2, <2>3 DEF GotData, Answers, Replies
  <2> QED BY <2>4, <2>5
<1>4. CASE StreamRefused(r)
  <2>1. PICK s \in {"400", "404"} : Respond(r, s, "text")
    BY <1>4 DEF StreamRefused
  <2>2. handler[r] = "idle" /\ handler'[r] = "done"
    BY <1>4 DEF StreamRefused, HandlerGoes, TypeOK
  <2>3. ends[r] = 0 /\ status[r] = "none" /\ body[r] = "none" /\ call[r] = "idle"
    BY <2>2 DEF Stages, Answers
  <2>4. /\ ends'[r] <= 1 /\ ends'[r] # 0
        /\ \/ status'[r] = s /\ body'[r] = "text"
           \/ status'[r] = "none" /\ body'[r] = "none"
    BY <2>1, <2>3, RespondEffect
  <2>5. Stages(r)'
    BY <1>4, <2>2, <2>3 DEF StreamRefused, Stages
  <2>6. Answers(r)'
    BY <1>4, <2>3, <2>4 DEF StreamRefused, Answers
  <2> QED BY <2>5, <2>6
<1>5. CASE NoBranch(r)
  <2>1. /\ handler[r] = "idle" /\ handler'[r] = "failed"
        /\ error'[r] = "Exception"
    BY <1>5 DEF NoBranch, Raise, TypeOK
  <2> QED BY <1>5, <2>1 DEF NoBranch, Stages, Answers, Errors
<1>6. CASE GotAnswer(r)
  <2>1. call[r] = "pending" /\ call'[r] \in Replies \cup Errors
    BY <1>6 DEF GotAnswer, Got!Answer, Got!Move, TypeOK
  <2>2. handler[r] = "calling" /\ ends[r] = 0 /\ status[r] = "none" /\ body[r] = "none"
    BY <2>1 DEF Stages, Answers
  <2>3. call'[r] # "pending"
    BY <2>1 DEF Replies, Errors, ModappError
  <2> QED BY <1>6, <2>1, <2>2, <2>3 DEF GotAnswer, Stages, Answers
<1>7. CASE SendReply(r)
  <2>1. handler[r] = "calling" /\ handler'[r] = "done"
    BY <1>7 DEF SendReply, HandlerGoes, TypeOK
  <2>2. ends[r] = 0 /\ status[r] = "none" /\ body[r] = "none" /\ call[r] \in Replies
    BY <1>7, <2>1 DEF SendReply, Stages, Answers
  <2>3. /\ ends'[r] <= 1 /\ ends'[r] # 0
        /\ \/ status'[r] = "200" /\ body'[r] = "raw reply"
           \/ status'[r] = "none" /\ body'[r] = "none"
    BY <1>7, <2>2, RespondEffect DEF SendReply
  <2>4. Stages(r)'
    BY <1>7, <2>1, <2>2 DEF SendReply, Stages, Replies
  <2>5. Answers(r)'
    BY <1>7, <2>2, <2>3 DEF SendReply, Answers, Replies
  <2> QED BY <2>4, <2>5
<1>8. CASE GotRaises(r)
  <2>1. /\ handler[r] = "calling"
        /\ call[r] \in Errors
        /\ error'[r] = call[r]
        /\ handler'[r] = IF call[r] = "CancelledError" THEN "done" ELSE "failed"
    BY <1>8 DEF GotRaises, Raise, TypeOK
  <2> QED BY <1>8, <2>1 DEF GotRaises, Stages, Answers, Errors, ModappError
<1>9. CASE OnError(r)
  <2>1. PICK b \in ErrorBodies(error[r]) : Respond(r, StatusOf(error[r]), b)
    BY <1>9 DEF OnError
  <2>2. handler[r] = "failed" /\ handler'[r] = "done"
    BY <1>9 DEF OnError, HandlerGoes, TypeOK
  <2>3. ends[r] = 0 /\ status[r] = "none" /\ body[r] = "none"
    BY <2>2 DEF Stages, Answers
  <2>4. \/ error[r] = call[r]
        \/ error[r] = "Exception" /\ call[r] = "idle"
    BY <2>2 DEF Stages
  <2>5. /\ ends'[r] <= 1 /\ ends'[r] # 0
        /\ \/ status'[r] = StatusOf(error[r]) /\ body'[r] = b
           \/ status'[r] = "none" /\ body'[r] = "none"
    BY <2>1, <2>3, RespondEffect
  <2>6. converter' = converter
    BY <1>9 DEF OnError
  <2>7. converter \in OwnConverters /\ StatusOf(error[r]) = "500" => b = "raw error"
    BY OwnFaultHasABody
  <2>8. /\ StatusOf(error[r]) \notin {"none", "200"}
        /\ StatusOf(error[r]) = "404" => call[r] = "NotFoundError"
        /\ StatusOf(error[r]) = "422" => call[r] = "InvalidArgumentError"
        /\ StatusOf(error[r]) = "500" =>
             call[r] \notin Replies \cup {"NotFoundError", "InvalidArgumentError"}
    BY <2>2, <2>4 DEF StatusOf, Stages, Errors, ModappError, Replies
  <2>9. Stages(r)'
    BY <1>9, <2>2, <2>4 DEF OnError, Stages, Errors, ModappError
  <2>10. Answers(r)'
    BY <1>9, <2>3, <2>5, <2>6, <2>7, <2>8 DEF OnError, Answers
  <2> QED BY <2>9, <2>10
<1>10. CASE TakeResponse(r)
  <2>1. PICK o \in Parsed(r) : client[r] = "waiting" /\ client'[r] = o
    BY <1>10 DEF TakeResponse, ClientGets, TypeOK
  <2>2. o # "idle"
    BY <2>1, ParsedType DEF ClientOutcomes, ModappError
  <2> QED BY <1>10, <2>1, <2>2 DEF TakeResponse, Stages, Answers
<1>11. CASE GiveUp(r)
  <2>1. client[r] = "waiting" /\ client'[r] = "Exception"
    BY <1>11 DEF GiveUp, ClientGets, TypeOK
  <2> QED BY <1>11, <2>1 DEF GiveUp, Stages, Answers
<1> QED BY <1>1, <1>2, <1>3, <1>4, <1>5, <1>6, <1>7, <1>8, <1>9, <1>10, <1>11
        DEF Step, RouteHandler

\* Every step of route_handler, on_error and the channel keeps the invariant.
LEMMA StepInv == Inv /\ [Next]_vars => Inv'
<1> SUFFICES ASSUME Inv, [Next]_vars PROVE Inv'
  OBVIOUS
<1>1. TypeOK'
  BY TypeStep DEF Inv
<1>2. ASSUME NEW q \in Request PROVE Stages(q)' /\ Answers(q)'
  <2>1. CASE UNCHANGED vars
    BY <2>1 DEF Inv, vars, Stages, Answers
  <2>2. ASSUME NEW r \in Request, Step(r) PROVE Stages(q)' /\ Answers(q)'
    <3>1. CASE q = r
      BY <2>2, <3>1, OwnStep DEF Inv
    <3>2. CASE q # r
      <4>1. /\ call'[q] = call[q]
            /\ route'[q] = route[q]
            /\ handler'[q] = handler[q]
            /\ error'[q] = error[q]
            /\ status'[q] = status[q]
            /\ body'[q] = body[q]
            /\ ends'[q] = ends[q]
            /\ client'[q] = client[q]
            /\ converter' = converter
        BY <2>2, <3>2, OthersUntouched DEF Inv
      <4>2. Stages(q)'
        BY <4>1 DEF Inv, Stages
      <4>3. Answers(q)'
        BY <4>1 DEF Inv, Answers
      <4> QED BY <4>2, <4>3
    <3> QED BY <3>1, <3>2
  <2> QED BY <2>1, <2>2 DEF Next, Step
<1> QED BY <1>1, <1>2 DEF Inv

\* route_handler, on_error and the response always fit together.
THEOREM Invariance == Spec => []Inv
BY InitInv, StepInv, PTL DEF Spec

\* Every response is ended once: no path through route_handler answers and
\* raises as well (RespondsOnce).
THEOREM OneResponse == Spec => []RespondsOnce
<1>1. Inv => RespondsOnce
  BY DEF Inv, Answers, RespondsOnce
<1> QED BY <1>1, Invariance, PTL

\* The status alone tells a reply, an InvalidArgumentError and a NotFoundError
\* from the errors of the server (StatusTellsOutcome).
THEOREM StatusIsTrue == Spec => []StatusTellsOutcome
<1>1. Inv => StatusTellsOutcome
  BY DEF Inv, Answers, StatusTellsOutcome
<1> QED BY <1>1, Invariance, PTL

\* Whichever of its two converters modapp is given, a 500 comes with a body of that
\* converter (ServerErrorsHaveABody).
THEOREM OwnFaultsAreReadable == Spec => []ServerErrorsHaveABody
<1>1. Inv => ServerErrorsHaveABody
  BY DEF Inv, Answers, ServerErrorsHaveABody
<1> QED BY <1>1, Invariance, PTL
=============================================================================
