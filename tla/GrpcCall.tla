------------------------------ MODULE GrpcCall ------------------------------
(***************************************************************************)
(* A call over gRPC, end to end: GrpcChannel on the client, the handle     *)
(* coroutine of HandlerStorage on the server, and between them grpclib and *)
(* the network.  got_request is the abstract call of Rpc, which GotRequest *)
(* implements.                                                             *)
(*                                                                         *)
(* grpclib (external) sends what the handler sends and, when the handler   *)
(* is over, one status: that of a GRPCError, UNKNOWN for another exception *)
(* or a unary call without a reply, else OK.  A CancelledError passes      *)
(* without a status.                                                       *)
(***************************************************************************)
EXTENDS Naturals

CONSTANTS
  Request,      \* calls
  Cardinality,  \* Cardinality[r]: that of the route of the call
  MaxMessages   \* bound on the messages of a stream

Cardinalities ==
  {"UNARY_UNARY", "UNARY_STREAM", "STREAM_UNARY", "STREAM_STREAM"}

ASSUME CallAssumption ==
  /\ Cardinality \in [Request -> Cardinalities]
  /\ MaxMessages \in Nat

\* PersistanceError stands for the classes of an application as well: it has no
\* status of its own.
ModappError ==
  {"InvalidArgumentError", "NotFoundError", "ServerError", "PersistanceError"}
Errors == ModappError \cup {"Exception", "CancelledError"}
Replies == {"raw reply"}
StreamEnds == {"completed", "abandoned"}
Outcomes == Replies \cup Errors \cup StreamEnds

VARIABLES
  call,       \* got_request, as in Rpc
  delivered,  \* messages its stream has yielded, as in Rpc
  handle,     \* where the handle coroutine is
  sent,       \* messages handed to grpclib
  status,     \* the status grpclib has sent, "lost" when the stream is gone
  client,     \* the coroutine of the channel, then its outcome
  received    \* messages the client has taken

vars == <<call, delivered, handle, sent, status, client, received>>

Got == INSTANCE Rpc WITH
  Reply <- Replies,
  Error <- Errors,
  StreamEnd <- StreamEnds

Status ==
  {"none", "lost", "OK", "NOT_FOUND", "INVALID_ARGUMENT", "INTERNAL", "UNKNOWN"}
ClientOutcomes ==
  ModappError \cup {"reply", "completed", "Exception", "gave up"}

TypeOK ==
  /\ call \in [Request -> {"idle", "pending", "streaming"} \cup Outcomes]
  /\ delivered \in [Request -> Nat]
  /\ handle \in [Request -> {"idle", "calling", "iterating", "sending", "done"}]
  /\ sent \in [Request -> Nat]
  /\ status \in [Request -> Status]
  /\ client \in [Request -> {"idle", "waiting"} \cup ClientOutcomes]
  /\ received \in [Request -> Nat]

Init ==
  /\ Got!Init
  /\ handle = [r \in Request |-> "idle"]
  /\ sent = [r \in Request |-> 0]
  /\ status = [r \in Request |-> "none"]
  /\ client = [r \in Request |-> "idle"]
  /\ received = [r \in Request |-> 0]

ServerStreaming(r) == Cardinality[r] \in {"UNARY_STREAM", "STREAM_STREAM"}

\* Nobody reads what the server sends any more.
Gone(r) == status[r] = "lost" \/ client[r] \in ClientOutcomes

HandleGoes(r, from, to) ==
  /\ handle[r] = from
  /\ handle' = [handle EXCEPT ![r] = to]

ClientGets(r, o) ==
  /\ client[r] = "waiting"
  /\ client' = [client EXCEPT ![r] = o]

-----------------------------------------------------------------------------
\* The handle coroutine.

\* recv_message, then request_callback: got_request refuses what it cannot
\* decode, else the call is pending.
ReceiveRequest(r) ==
  /\ client[r] # "idle"
  /\ HandleGoes(r, "idle", "calling")
  /\ Got!Submit(r) \/ Got!Refuse(r)
  /\ UNCHANGED <<sent, status, client, received>>

\* got_request returns bytes on a UNARY_UNARY route only, or it raises.
GotAnswer(r) ==
  /\ Got!Answer(r)
  /\ call'[r] \in Replies => Cardinality[r] = "UNARY_UNARY"
  /\ UNCHANGED <<handle, sent, status, client, received>>

GotStream(r) ==
  /\ Cardinality[r] = "UNARY_STREAM"
  /\ Got!OpenStream(r)
  /\ HandleGoes(r, "calling", "iterating")
  /\ UNCHANGED <<sent, status, client, received>>

\* async for: the next message, and the await of its send_message.
NextMessage(r) ==
  /\ delivered[r] < MaxMessages
  /\ Got!Deliver(r)
  /\ HandleGoes(r, "iterating", "sending")
  /\ UNCHANGED <<sent, status, client, received>>

SendMessage(r) ==
  /\ ~Gone(r)
  /\ HandleGoes(r, "sending", "iterating")
  /\ sent' = [sent EXCEPT ![r] = @ + 1]
  /\ UNCHANGED <<call, delivered, status, client, received>>

\* grpclib raises when the client is gone; handle swallows it, the generator
\* is left where it is.
SendFails(r) ==
  /\ Gone(r)
  /\ HandleGoes(r, "sending", "done")
  /\ Got!Move(r, "streaming", "abandoned")
  /\ UNCHANGED <<sent, status, client, received>>

CloseStream(r) ==
  /\ handle[r] = "iterating"
  /\ Got!CloseStream(r)
  /\ call'[r] # "abandoned"
  /\ UNCHANGED <<handle, sent, status, client, received>>

\* handle turns modapp errors into a GRPCError, whose details error_to_raw may
\* fail to make, and swallows every other Exception.
Trailer_SwallowsModappError(r) ==
  CASE call[r] \in ModappError \cup {"Exception"} ->
         {IF ServerStreaming(r) THEN "OK" ELSE "UNKNOWN"}
    [] call[r] = "CancelledError" -> {"none", "lost"}
    [] OTHER -> {"OK"}

Trailer_NotFoundIsUnknown(r) ==
  CASE call[r] = "InvalidArgumentError" -> {"INVALID_ARGUMENT", "UNKNOWN"}
    [] call[r] \in {"ServerError", "PersistanceError"} -> {"INTERNAL"}
    [] call[r] \in {"NotFoundError", "Exception"} ->
         {IF ServerStreaming(r) THEN "OK" ELSE "UNKNOWN"}
    [] call[r] = "CancelledError" -> {"none", "lost"}
    [] OTHER -> {"OK"}

Trailer_CancelsOnServerError(r) ==
  CASE call[r] = "NotFoundError" -> {"NOT_FOUND"}
    [] call[r] = "InvalidArgumentError" -> {"INVALID_ARGUMENT", "UNKNOWN"}
    [] call[r] = "PersistanceError" -> {"INTERNAL"}
    [] call[r] = "Exception" -> {IF ServerStreaming(r) THEN "OK" ELSE "UNKNOWN"}
    [] call[r] \in {"ServerError", "CancelledError"} -> {"none", "lost"}
    [] OTHER -> {"OK"}

Trailer(r) ==
  CASE call[r] = "NotFoundError" -> {"NOT_FOUND"}
    [] call[r] = "InvalidArgumentError" -> {"INVALID_ARGUMENT", "UNKNOWN"}
    [] call[r] \in {"ServerError", "PersistanceError"} -> {"INTERNAL"}
    [] call[r] = "Exception" -> {IF ServerStreaming(r) THEN "OK" ELSE "UNKNOWN"}
    [] call[r] = "CancelledError" -> {"none", "lost"}
    [] OTHER -> {"OK"}

\* handle is over: a unary reply is sent, grpclib sends the status.
Finish(r) ==
  /\ call[r] \in Outcomes
  /\ handle[r] \in {"calling", "iterating"}
  /\ handle' = [handle EXCEPT ![r] = "done"]
  /\ IF Gone(r) THEN UNCHANGED <<sent, status>>
     ELSE /\ \E s \in Trailer(r) : status' = [status EXCEPT ![r] = s]
          /\ sent' = IF call[r] \in Replies THEN [sent EXCEPT ![r] = 1] ELSE sent
  /\ UNCHANGED <<call, delivered, client, received>>

-----------------------------------------------------------------------------
\* GrpcChannel.

Send(r) ==
  /\ Cardinality[r] \in {"UNARY_UNARY", "UNARY_STREAM"}
  /\ client[r] = "idle"
  /\ client' = [client EXCEPT ![r] = "waiting"]
  /\ UNCHANGED <<call, delivered, handle, sent, status, received>>

\* model_to_raw raises, or send_stream_unary and send_stream_stream do: nothing
\* is sent.
SendRaises(r) ==
  /\ client[r] = "idle"
  /\ client' = [client EXCEPT ![r] = "Exception"]
  /\ handle' = [handle EXCEPT ![r] = "done"]
  /\ UNCHANGED <<call, delivered, sent, status, received>>

\* send_unary_stream yields a message, or raw_to_model refuses it and the
\* stream is reset.
TakeMessage_AfterReset(r) ==
  /\ ServerStreaming(r)
  /\ client[r] # "idle"
  /\ received[r] < sent[r]
  /\ received' = [received EXCEPT ![r] = @ + 1]
  /\ UNCHANGED <<call, delivered, handle, sent, status, client>>

TakeMessage(r) ==
  /\ ServerStreaming(r)
  /\ client[r] = "waiting"
  /\ received[r] < sent[r]
  /\ received' = [received EXCEPT ![r] = @ + 1]
  /\ UNCHANGED <<call, delivered, handle, sent, status, client>>

RefuseMessage(r) ==
  /\ ServerStreaming(r)
  /\ received[r] < sent[r]
  /\ \E e \in ModappError \cup {"Exception"} : ClientGets(r, e)
  /\ UNCHANGED <<call, delivered, handle, sent, status, received>>

\* grpclib raises a GRPCError for every status but OK, behind the messages.
StatusError(s) ==
  CASE s = "NOT_FOUND" -> "NotFoundError"
    [] s = "INVALID_ARGUMENT" -> "InvalidArgumentError"
    [] OTHER -> "ServerError"

TakeError(r) ==
  /\ status[r] \notin {"none", "lost", "OK"}
  /\ ServerStreaming(r) => received[r] = sent[r]
  /\ ClientGets(r, StatusError(status[r]))
  /\ UNCHANGED <<call, delivered, handle, sent, status, received>>

TakeReply(r) ==
  /\ ~ServerStreaming(r)
  /\ status[r] = "OK"
  /\ \E o \in ModappError \cup {"reply", "Exception"} : ClientGets(r, o)
  /\ UNCHANGED <<call, delivered, handle, sent, status, received>>

TakeEnd(r) ==
  /\ ServerStreaming(r)
  /\ status[r] = "OK"
  /\ received[r] = sent[r]
  /\ ClientGets(r, "completed")
  /\ UNCHANGED <<call, delivered, handle, sent, status, received>>

\* StreamTerminatedError is no GRPCError: it leaves the channel as it is.
TakeLoss(r) ==
  /\ status[r] = "lost"
  /\ ClientGets(r, "Exception")
  /\ UNCHANGED <<call, delivered, handle, sent, status, received>>

\* The caller cancels, or the deadline of zero that send_unary_stream sets.
GiveUp(r) ==
  /\ ClientGets(r, "gave up")
  /\ UNCHANGED <<call, delivered, handle, sent, status, received>>

\* The connection breaks; messages in flight may still arrive.
Lose(r) ==
  /\ client[r] = "waiting"
  /\ status[r] = "none"
  /\ status' = [status EXCEPT ![r] = "lost"]
  /\ UNCHANGED <<call, delivered, handle, sent, client, received>>

Handle(r) ==
  \/ ReceiveRequest(r)
  \/ GotAnswer(r)
  \/ GotStream(r)
  \/ SendMessage(r)
  \/ SendFails(r)
  \/ CloseStream(r)
  \/ Finish(r)

Channel(r) ==
  \/ TakeMessage(r)
  \/ RefuseMessage(r)
  \/ TakeError(r)
  \/ TakeReply(r)
  \/ TakeEnd(r)
  \/ TakeLoss(r)

Next ==
  \E r \in Request :
    \/ Send(r)
    \/ SendRaises(r)
    \/ Handle(r)
    \/ NextMessage(r)
    \/ Channel(r)
    \/ GiveUp(r)
    \/ Lose(r)

Spec == Init /\ [][Next]_vars

\* Both event loops run; handlers and streams end.  Neither the caller nor the
\* network has to give up.
Fairness == \A r \in Request : WF_vars(Handle(r)) /\ WF_vars(Channel(r))

FairSpec == Spec /\ Fairness

-----------------------------------------------------------------------------
\* The client has been answered by the status of the server.
Answered(r) ==
  /\ client[r] \in ClientOutcomes \ {"gave up"}
  /\ status[r] \notin {"none", "lost"}
  /\ received[r] = sent[r] \/ ~ServerStreaming(r)

\* What a modapp error may be for the client: the class it was if it has a status
\* of its own, unless the details of an InvalidArgumentError cannot be made, and
\* else a ServerError.
ArrivesAs(e) ==
  CASE e = "InvalidArgumentError" -> {"InvalidArgumentError", "ServerError"}
    [] e = "PersistanceError" -> {"ServerError"}
    [] OTHER -> {e}

\* A modapp error arrives as a modapp error: NotFoundError and ServerError as what
\* they are, InvalidArgumentError as well unless its details cannot be made, every
\* other class, such as PersistanceError, as a ServerError.
ModappErrorsArrive ==
  \A r \in Request :
    Answered(r) /\ call[r] \in ModappError => client[r] \in ArrivesAs(call[r])

\* A stream the client sees end without an error is whole: it took every
\* message, and got_request ended it or raised an Exception that is no modapp
\* error.  That one exception truncates a stream in silence.
CompletedStreamIsWhole ==
  \A r \in Request :
    client[r] = "completed" =>
      /\ received[r] = delivered[r]
      /\ call[r] \in {"completed", "Exception"}

\* A caller that waits gets an outcome, whatever goes wrong, unless got_request
\* lets a CancelledError out: then no status is sent and no deadline was set.
EveryCallerIsTold ==
  \A r \in Request :
    client[r] = "waiting" ~> client[r] # "waiting" \/ call[r] = "CancelledError"

\* What the caller of the channel sees is itself a call of Rpc: one outcome,
\* no message before the server opened the stream or refused, none after the
\* outcome.
View(r) ==
  IF client[r] # "waiting" THEN client[r]
  ELSE IF ServerStreaming(r) /\ call[r] \notin {"idle", "pending"} THEN "streaming"
  ELSE "pending"

Caller == INSTANCE Rpc WITH
  Reply <- {"reply"},
  Error <- ModappError \cup {"Exception", "gave up"},
  StreamEnd <- {"completed"},
  call <- [r \in Request |-> View(r)],
  delivered <- received

CallersSeeRpc == Caller!Spec
=============================================================================
