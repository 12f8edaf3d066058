------------------------------ MODULE HttpCall ------------------------------
(***************************************************************************)
(* A call over HTTP, end to end: send_unary_unary of HttpxChannel and      *)
(* AioHttpChannel, which are alike, on the client, and on the server       *)
(* route_handler and on_error of WebSocketifyTransport under socketify.    *)
(* got_request is the abstract call of Rpc, which GotRequest implements.   *)
(*                                                                         *)
(* socketify (external) runs route_handler as a task.  It hands an         *)
(* Exception of it to on_error, answers 500 itself when on_error raises,   *)
(* and forgets about a CancelledError.  Of two statuses the first written  *)
(* is sent.  A response with no client writes nothing.                     *)
(***************************************************************************)
EXTENDS Naturals

CONSTANTS
  Request,      \* POST requests
  Route,        \* registered routes
  Cardinality   \* Cardinality[rt]: Route.proto_cardinality

Cardinalities ==
  {"UNARY_UNARY", "UNARY_STREAM", "STREAM_UNARY", "STREAM_STREAM"}

ASSUME HttpAssumption == Cardinality \in [Route -> Cardinalities]

\* PersistanceError stands for the classes of an application as well.
ModappError ==
  {"InvalidArgumentError", "NotFoundError", "ServerError", "PersistanceError"}
Errors == ModappError \cup {"Exception", "CancelledError"}
Replies == {"raw reply"}

\* The two of modapp, or one of the application.
OwnConverters == {"JsonConverter", "ProtobufConverter"}
Converters == OwnConverters \cup {"user converter"}

VARIABLES
  converter,  \* the converter of the transport, and of the channel
  route,      \* the route a request is posted to
  call,       \* got_request, as in Rpc
  handler,    \* where route_handler is, "failed" while on_error is due
  error,      \* the exception it raised
  status,     \* the status of the response, "none" before it is written
  body,       \* what the response was ended with
  ends,       \* how often the server ended the response
  client      \* send_unary_unary of the channel, then its outcome

vars == <<converter, route, call, handler, error, status, body, ends, client>>

Got == INSTANCE Rpc WITH
  Reply <- Replies,
  Error <- Errors,
  StreamEnd <- {},
  delivered <- [r \in Request |-> 0]

Statuses == {"200", "400", "404", "422", "500"}
Bodies == {"none", "raw reply", "raw error", "text", "Internal Error"}
ClientOutcomes == ModappError \cup {"reply", "Exception"}

TypeOK ==
  /\ converter \in Converters
  /\ route \in [Request -> Route]
  /\ call \in [Request -> {"idle", "pending"} \cup Replies \cup Errors]
  /\ handler \in [Request -> {"idle", "calling", "failed", "done"}]
  /\ error \in [Request -> Errors \cup {"none"}]
  /\ status \in [Request -> Statuses \cup {"none"}]
  /\ body \in [Request -> Bodies]
  /\ ends \in [Request -> Nat]
  /\ client \in [Request -> {"idle", "waiting"} \cup ClientOutcomes]

Init ==
  /\ converter \in Converters
  /\ route \in [Request -> Route]
  /\ Got!Init
  /\ handler = [r \in Request |-> "idle"]
  /\ error = [r \in Request |-> "none"]
  /\ status = [r \in Request |-> "none"]
  /\ body = [r \in Request |-> "none"]
  /\ ends = [r \in Request |-> 0]
  /\ client = [r \in Request |-> "idle"]

HandlerGoes(r, from, to) ==
  /\ handler[r] = from
  /\ handler' = [handler EXCEPT ![r] = to]

\* write_status and end; the client may have left.
Respond(r, s, b) ==
  /\ ends' = [ends EXCEPT ![r] = @ + 1]
  /\ IF client[r] = "waiting" /\ ends[r] = 0
     THEN /\ status' = [status EXCEPT ![r] = IF @ = "none" THEN s ELSE @]
          /\ body' = [body EXCEPT ![r] = b]
     ELSE UNCHANGED <<status, body>>

-----------------------------------------------------------------------------
\* route_handler

Raise(r, e) ==
  /\ handler' = [handler EXCEPT ![r] = IF e = "CancelledError" THEN "done"
                                       ELSE "failed"]
  /\ error' = [error EXCEPT ![r] = e]

\* response.get_data() is awaited, then a UNARY_UNARY route goes to got_request.
GotData(r) ==
  /\ client[r] # "idle"
  /\ Cardinality[route[r]] = "UNARY_UNARY"
  /\ HandlerGoes(r, "idle", "calling")
  /\ Got!Submit(r) \/ Got!Refuse(r)
  /\ UNCHANGED <<converter, route, error, status, body, ends, client>>

\* UNARY_STREAM: no Connection-Id header, or no websocket of that id.  None is
\* ever registered, so the branch never gets further than this.
StreamRefused_FallsThrough(r) ==
  /\ client[r] # "idle"
  /\ Cardinality[route[r]] = "UNARY_STREAM"
  /\ handler[r] = "idle"
  /\ Raise(r, "Exception")
  /\ \E s \in {"400", "404"} : Respond(r, s, "text")
  /\ UNCHANGED <<converter, route, call, client>>

StreamRefused(r) ==
  /\ client[r] # "idle"
  /\ Cardinality[route[r]] = "UNARY_STREAM"
  /\ HandlerGoes(r, "idle", "done")
  /\ \E s \in {"400", "404"} : Respond(r, s, "text")
  /\ UNCHANGED <<converter, route, call, error, client>>

NoBranch(r) ==
  /\ client[r] # "idle"
  /\ Cardinality[route[r]] \in {"STREAM_UNARY", "STREAM_STREAM"}
  /\ handler[r] = "idle"
  /\ Raise(r, "Exception")
  /\ UNCHANGED <<converter, route, call, status, body, ends, client>>

GotAnswer(r) ==
  /\ Got!Answer(r)
  /\ UNCHANGED <<converter, route, handler, error, status, body, ends, client>>

\* A status is written for errors only: the response to a reply has 200.
SendReply(r) ==
  /\ HandlerGoes(r, "calling", "done")
  /\ call[r] \in Replies
  /\ Respond(r, "200", "raw reply")
  /\ UNCHANGED <<converter, route, call, error, client>>

GotRaises(r) ==
  /\ handler[r] = "calling"
  /\ call[r] \in Errors
  /\ Raise(r, call[r])
  /\ UNCHANGED <<converter, route, call, status, body, ends, client>>

-----------------------------------------------------------------------------
StatusOf_NotFoundFirst(e) ==
  IF e \in {"NotFoundError", "InvalidArgumentError"} THEN "404" ELSE "500"

StatusOf(e) ==
  CASE e = "NotFoundError" -> "404"
    [] e = "InvalidArgumentError" -> "422"
    [] OTHER -> "500"

\* error_to_raw gives the body of the response, or raises: the details of an
\* InvalidArgumentError are whatever the application put there, JSON takes no
\* NotFoundError, and the message of a ServerError may be no string.
JsonErrorToRaw(e) ==
  CASE e = "InvalidArgumentError" -> {"raw error", "raises"}
    [] e \in {"ServerError", "fresh ServerError"} -> {"raw error"}
    [] OTHER -> {"raises"}

ProtobufErrorToRaw(e) ==
  CASE e \in {"InvalidArgumentError", "ServerError"} -> {"raw error", "raises"}
    [] e \in {"NotFoundError", "fresh ServerError"} -> {"raw error"}
    [] OTHER -> {"raises"}

ErrorToRaw(e) ==
  CASE converter = "JsonConverter" -> JsonErrorToRaw(e)
    [] converter = "ProtobufConverter" -> ProtobufErrorToRaw(e)
    [] OTHER -> {"raw error", "raises"}

\* Errors without a status of their own are answered as a ServerError() made
\* on the spot.
ErrorShown_AsRaised(e) == e

ErrorShown(e) ==
  IF e \in {"NotFoundError", "InvalidArgumentError"} THEN e ELSE "fresh ServerError"

\* The status is written before error_to_raw is called.  When that raises,
\* socketify ends the response with a text of its own and the same status.
ErrorBodies(e) ==
  {IF b = "raises" THEN "Internal Error" ELSE b : b \in ErrorToRaw(ErrorShown(e))}

OnError_Lost(r) ==
  /\ HandlerGoes(r, "failed", "done")
  /\ error[r] # "InvalidArgumentError"
  /\ \E b \in ErrorBodies(error[r]) : Respond(r, StatusOf(error[r]), b)
  /\ UNCHANGED <<converter, route, call, error, client>>

OnError(r) ==
  /\ HandlerGoes(r, "failed", "done")
  /\ \E b \in ErrorBodies(error[r]) : Respond(r, StatusOf(error[r]), b)
  /\ UNCHANGED <<converter, route, call, error, client>>

-----------------------------------------------------------------------------
\* send_unary_unary: model_to_raw may raise, else the request is posted.

ClientGets(r, o) ==
  /\ client[r] = "waiting"
  /\ client' = [client EXCEPT ![r] = o]

Post(r) ==
  /\ client[r] = "idle"
  /\ client' = [client EXCEPT ![r] = "waiting"]
  /\ UNCHANGED <<converter, route, call, handler, error, status, body, ends>>

PostRaises(r) ==
  /\ client[r] = "idle"
  /\ client' = [client EXCEPT ![r] = "Exception"]
  /\ handler' = [handler EXCEPT ![r] = "done"]
  /\ UNCHANGED <<converter, route, call, error, status, body, ends>>

\* What raw_to_model may make a model of, if the reply class lets it.  JSON needs
\* an object, which an error is as well; to protobuf the fields of an error, and
\* the bytes of "Internal Error", are fields of a reply or unknown ones, but the
\* texts of route_handler begin with a tag there is not.
ReadAsReply(r) ==
  \/ body[r] \in {"raw reply", "raw error"}
  \/ body[r] = "Internal Error" /\ converter = "ProtobufConverter"
  \/ converter = "user converter"

\* raw_to_model takes whatever body there is for the reply: nobody looks at the
\* status.
Parsed(r) ==
  {"InvalidArgumentError", "ServerError", "Exception"} \cup
    {o \in {"reply"} : ReadAsReply(r)}

TakeResponse(r) ==
  /\ body[r] # "none"
  /\ \E o \in Parsed(r) : ClientGets(r, o)
  /\ UNCHANGED <<converter, route, call, handler, error, status, body, ends>>

\* The timeout of the channel, five seconds unless the caller says otherwise,
\* or the connection is lost.
GiveUp(r) ==
  /\ ClientGets(r, "Exception")
  /\ UNCHANGED <<converter, route, call, handler, error, status, body, ends>>

RouteHandler(r) ==
  \/ GotData(r)
  \/ StreamRefused(r)
  \/ NoBranch(r)
  \/ GotAnswer(r)
  \/ SendReply(r)
  \/ GotRaises(r)
  \/ OnError(r)

Next ==
  \E r \in Request :
    \/ Post(r)
    \/ PostRaises(r)
    \/ RouteHandler(r)
    \/ TakeResponse(r)
    \/ GiveUp(r)

Spec == Init /\ [][Next]_vars

\* The loop of the server runs, and handlers end.
Fairness == \A r \in Request : WF_vars(RouteHandler(r))

FairSpec == Spec /\ Fairness

-----------------------------------------------------------------------------
\* Every response is ended once: no path through route_handler answers and
\* raises as well.  The branch of UNARY_STREAM that is out of reach would.
RespondsOnce == \A r \in Request : ends[r] <= 1

\* What a client that looks at the status can tell from it: 200 is a reply,
\* 422 an InvalidArgumentError, 404 a NotFoundError or a missing websocket,
\* and whatever got_request raises besides is a 500.
StatusTellsOutcome ==
  \A r \in Request :
    /\ status[r] = "200" => call[r] \in Replies
    /\ status[r] = "422" => call[r] = "InvalidArgumentError"
    /\ status[r] = "404" =>
         call[r] = "NotFoundError" \/ Cardinality[route[r]] = "UNARY_STREAM"
    /\ status[r] = "500" =>
         call[r] \notin Replies \cup {"NotFoundError", "InvalidArgumentError"}

\* With a converter of modapp an error that is the server's own fault always comes
\* with a body of that converter: the exception, whose message may be anything, is
\* not shown, and a text in its place tells of a NotFoundError or an
\* InvalidArgumentError.
ServerErrorsHaveABody ==
  converter \in OwnConverters =>
    \A r \in Request : status[r] = "500" => body[r] = "raw error"

\* A request whose client waits is answered, unless got_request lets a
\* CancelledError out.
RequestIsAnswered ==
  \A r \in Request :
    client[r] = "waiting" ~>
      ends[r] > 0 \/ client[r] # "waiting" \/ call[r] = "CancelledError"
=============================================================================
