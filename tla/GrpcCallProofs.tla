--------------------------- MODULE GrpcCallProofs ---------------------------
(***************************************************************************)
(* Proofs about GrpcCall, for any calls, any cardinalities of their routes *)
(* and streams of any length.                                              *)
(***************************************************************************)
EXTENDS GrpcCall, TLAPS

\* How the handle coroutine, got_request and the status go together.
Stages(r) ==
  /\ client[r] = "idle" => handle[r] = "idle" /\ status[r] = "none"
  /\ handle[r] = "idle" => call[r] = "idle" /\ status[r] \in {"none", "lost"}
  /\ call[r] = "pending" => handle[r] = "calling"
  /\ call[r] = "streaming" => ServerStreaming(r)
  /\ call[r] = "streaming" => handle[r] \in {"iterating", "sending"}
  /\ handle[r] = "calling" => call[r] # "idle"
  /\ call[r] \in Replies => ~ServerStreaming(r)
  /\ call[r] = "abandoned" => handle[r] = "done" /\ status[r] \in {"none", "lost"}
  /\ handle[r] = "sending" => call[r] = "streaming"
  /\ status[r] \notin {"none", "lost"} =>
       /\ handle[r] = "done"
       /\ call[r] \in Outcomes
       /\ status[r] \in Trailer(r)
  /\ handle[r] # "done" => status[r] \in {"none", "lost"}

\* Messages go from got_request to grpclib to the client, none of them lost on
\* the way but those of a stream that is given up.
Counts(r) ==
  /\ received[r] <= sent[r]
  /\ ServerStreaming(r) => sent[r] <= delivered[r]
  /\ call[r] \in {"idle", "pending"} => sent[r] = 0 /\ delivered[r] = 0
  /\ handle[r] = "calling" => sent[r] = delivered[r]
  /\ handle[r] = "iterating" => sent[r] = delivered[r]
  /\ handle[r] = "sending" => sent[r] + 1 = delivered[r]
  /\ ~ServerStreaming(r) => received[r] = 0
  /\ ServerStreaming(r) /\ status[r] \notin {"none", "lost"} => sent[r] = delivered[r]

\* What the client has been told.
Told(r) ==
  /\ Answered(r) /\ call[r] \in ModappError => client[r] = StatusError(status[r])
  /\ client[r] = "completed" =>
       /\ ServerStreaming(r)
       /\ status[r] = "OK"
       /\ received[r] = sent[r]

Inv ==
  /\ TypeOK
  /\ \A r \in Request : Stages(r) /\ Counts(r) /\ Told(r)

-----------------------------------------------------------------------------
\* Nothing has been sent before the first call.
LEMMA InitInv == Init => Inv
<1> SUFFICES ASSUME Init PROVE Inv
  OBVIOUS
<1> USE DEF Init, Got!Init
<1>1. TypeOK
  BY DEF TypeOK, Status
<1>2. ASSUME NEW r \in Request PROVE Stages(r)
  BY <1>2 DEF Stages, Replies
<1>3. ASSUME NEW r \in Request PROVE Counts(r)
  BY <1>3 DEF Counts
<1>4. ASSUME NEW r \in Request PROVE Told(r)
  BY <1>4 DEF Told, Answered, ClientOutcomes, ModappError
<1> QED BY <1>1, <1>2, <1>3, <1>4 DEF Inv

\* The statuses grpclib sends, and the error the channel makes of each.
LEMMA TrailerType ==
  ASSUME NEW r PROVE Trailer(r) \subseteq Status
BY DEF Trailer, Status

\* modapp_error_to_grpc never makes a regular end of a modapp error.
LEMMA TrailerOfModappError ==
  ASSUME NEW r, call[r] \in ModappError
  PROVE  /\ "OK" \notin Trailer(r)
         /\ \A s \in Trailer(r) : StatusError(s) \in ArrivesAs(call[r])
BY DEF Trailer, StatusError, ArrivesAs, ModappError

\* Whatever the status, the channel makes an error of it.
LEMMA StatusErrorType ==
  ASSUME NEW s PROVE StatusError(s) \in ModappError
BY DEF StatusError, ModappError

-----------------------------------------------------------------------------
\* The actions of one call.
Step(r) ==
  \/ Send(r) \/ SendRaises(r)
  \/ Handle(r) \/ NextMessage(r)
  \/ Channel(r)
  \/ GiveUp(r) \/ Lose(r)

\* What the steps of the channel and its caller have in common.
ClientStep(r) ==
  /\ UNCHANGED <<call, delivered, handle, sent, status>>
  /\ \/ TakeMessage(r)
     \/ /\ UNCHANGED received
        /\ \E o \in ClientOutcomes : ClientGets(r, o)

\* The steps of the channel, and what they leave alone.
LEMMA ChannelSteps ==
  ASSUME NEW r \in Request, Channel(r) \/ GiveUp(r)
  PROVE  ClientStep(r)
<1>1. CASE TakeMessage(r)
  BY <1>1 DEF TakeMessage, ClientStep
<1>2. CASE RefuseMessage(r) \/ TakeReply(r) \/ TakeEnd(r) \/ TakeLoss(r) \/ GiveUp(r)
  BY <1>2 DEF RefuseMessage, TakeReply, TakeEnd, TakeLoss, GiveUp, ClientStep,
              ClientOutcomes
<1>3. CASE TakeError(r)
  BY <1>3, StatusErrorType DEF TakeError, ClientStep, ClientOutcomes
<1> QED BY <1>1, <1>2, <1>3 DEF Channel

\* Every step of a call keeps the types.
LEMMA TypeStep ==
  ASSUME TypeOK, NEW r \in Request, Step(r) PROVE TypeOK'
<1>1. CASE Send(r) \/ SendRaises(r)
  <2>1. client' \in [Request -> {"idle", "waiting"} \cup ClientOutcomes]
    BY <1>1 DEF Send, SendRaises, TypeOK, ClientOutcomes
  <2>2. handle' \in [Request -> {"idle", "calling", "iterating", "sending", "done"}]
    BY <1>1 DEF Send, SendRaises, TypeOK
  <2> QED BY <1>1, <2>1, <2>2 DEF Send, SendRaises, TypeOK
<1>2. CASE \/ ReceiveRequest(r) \/ GotAnswer(r) \/ GotStream(r)
           \/ SendFails(r) \/ CloseStream(r)
  <2>1. call' \in [Request -> {"idle", "pending", "streaming"} \cup Outcomes]
    BY <1>2 DEF ReceiveRequest, GotAnswer, GotStream, SendFails, CloseStream,
                Got!Submit, Got!Refuse, Got!Answer, Got!OpenStream, Got!CloseStream,
                Got!Move, TypeOK, Outcomes, StreamEnds
  <2>2. handle' \in [Request -> {"idle", "calling", "iterating", "sending", "done"}]
    BY <1>2 DEF ReceiveRequest, GotAnswer, GotStream, SendFails, CloseStream,
                HandleGoes, TypeOK
  <2>3. UNCHANGED <<delivered, sent, status, client, received>>
    BY <1>2 DEF ReceiveRequest, GotAnswer, GotStream, SendFails, CloseStream,
                Got!Submit, Got!Refuse, Got!Answer, Got!OpenStream, Got!CloseStream,
                Got!Move
  <2> QED BY <2>1, <2>2, <2>3 DEF TypeOK
<1>3. CASE NextMessage(r)
  <2>1. delivered' \in [Request -> Nat]
    BY <1>3 DEF NextMessage, Got!Deliver, TypeOK
  <2>2. handle' \in [Request -> {"idle", "calling", "iterating", "sending", "done"}]
    BY <1>3 DEF NextMessage, HandleGoes, TypeOK
  <2> QED BY <1>3, <2>1, <2>2 DEF NextMessage, Got!Deliver, TypeOK
<1>4. CASE SendMessage(r)
  <2>1. sent' \in [Request -> Nat]
    BY <1>4 DEF SendMessage, TypeOK
  <2>2. handle' \in [Request -> {"idle", "calling", "iterating", "sending", "done"}]
    BY <1>4 DEF SendMessage, HandleGoes, TypeOK
  <2> QED BY <1>4, <2>1, <2>2 DEF SendMessage, TypeOK
<1>5. CASE Finish(r)
  <2>1. sent' \in [Request -> Nat]
    BY <1>5 DEF Finish, TypeOK
  <2>2. status' \in [Request -> Status]
    BY <1>5, TrailerType DEF Finish, TypeOK
  <2>3. handle' \in [Request -> {"idle", "calling", "iterating", "sending", "done"}]
    BY <1>5 DEF Finish, TypeOK
  <2> QED BY <1>5, <2>1, <2>2, <2>3 DEF Finish, TypeOK
<1>6. CASE Channel(r) \/ GiveUp(r)
  <2>1. ClientStep(r)
    BY <1>6, ChannelSteps
  <2>2. CASE TakeMessage(r)
    <3>1. received' \in [Request -> Nat]
      BY <2>2 DEF TakeMessage, TypeOK
    <3> QED BY <2>2, <3>1 DEF TakeMessage, TypeOK
  <2>3. CASE UNCHANGED received /\ \E o \in ClientOutcomes : ClientGets(r, o)
    <3>1. client' \in [Request -> {"idle", "waiting"} \cup ClientOutcomes]
      BY <2>3 DEF ClientGets, TypeOK
    <3> QED BY <2>1, <2>3, <3>1 DEF ClientStep, TypeOK
  <2> QED BY <2>1, <2>2, <2>3 DEF ClientStep
<1>7. CASE Lose(r)
  <2>1. status' \in [Request -> Status]
    BY <1>7 DEF Lose, TypeOK, Status
  <2> QED BY <1>7, <2>1 DEF Lose, TypeOK
<1> QED BY <1>1, <1>2, <1>3, <1>4, <1>5, <1>6, <1>7 DEF Step, Handle

\* They leave the other calls as they are.
LEMMA OthersUntouched ==
  ASSUME TypeOK, NEW r \in Request, NEW q \in Request \ {r}, Step(r)
  PROVE  /\ call'[q] = call[q]
         /\ delivered'[q] = delivered[q]
         /\ handle'[q] = handle[q]
         /\ sent'[q] = sent[q]
         /\ status'[q] = status[q]
         /\ client'[q] = client[q]
         /\ received'[q] = received[q]
<1>1. CASE Send(r) \/ SendRaises(r)
  BY <1>1 DEF Send, SendRaises, TypeOK
<1>2. CASE \/ ReceiveRequest(r) \/ GotAnswer(r) \/ GotStream(r)
           \/ SendFails(r) \/ CloseStream(r)
  <2>1. call'[q] = call[q]
    BY <1>2 DEF ReceiveRequest, GotAnswer, GotStream, SendFails, CloseStream,
                Got!Submit, Got!Refuse, Got!Answer, Got!OpenStream, Got!CloseStream,
                Got!Move, TypeOK
  <2>2. handle'[q] = handle[q]
    BY <1>2 DEF ReceiveRequest, GotAnswer, GotStream, SendFails, CloseStream,
                HandleGoes, TypeOK
  <2>3. UNCHANGED <<delivered, sent, status, client, received>>
    BY <1>2 DEF ReceiveRequest, GotAnswer, GotStream, SendFails, CloseStream,
                Got!Submit, Got!Refuse, Got!Answer, Got!OpenStream, Got!CloseStream,
                Got!Move
  <2> QED BY <2>1, <2>2, <2>3
<1>3. CASE NextMessage(r)
  BY <1>3 DEF NextMessage, Got!Deliver, HandleGoes, TypeOK
<1>4. CASE SendMessage(r)
  BY <1>4 DEF SendMessage, HandleGoes, TypeOK
<1>5. CASE Finish(r)
  <2>1. sent'[q] = sent[q]
    BY <1>5 DEF Finish, TypeOK
  <2>2. status'[q] = status[q]
    BY <1>5 DEF Finish, TypeOK
  <2> QED BY <1>5, <2>1, <2>2 DEF Finish, TypeOK
<1>6. CASE Channel(r) \/ GiveUp(r)
  <2>1. ClientStep(r)
    BY <1>6, ChannelSteps
  <2>2. client'[q] = client[q]
    BY <2>1 DEF ClientStep, TakeMessage, ClientGets, TypeOK
  <2>3. received'[q] = received[q]
    BY <2>1 DEF ClientStep, TakeMessage, TypeOK
  <2> QED BY <2>1, <2>2, <2>3 DEF ClientStep
<1>7. CASE Lose(r)
  BY <1>7 DEF Lose, TypeOK
<1> QED BY <1>1, <1>2, <1>3, <1>4, <1>5, <1>6, <1>7 DEF Step, Handle

-----------------------------------------------------------------------------
\* What they do to their own call, seen from the server ...
LEMMA StagesStep ==
  ASSUME TypeOK, NEW r \in Request, Stages(r), Step(r) PROVE Stages(r)'
<1>0. ServerStreaming(r)' = ServerStreaming(r)
  BY DEF ServerStreaming
<1>1. CASE Send(r)
  <2>1. client'[r] = "waiting"
    BY <1>1 DEF Send, TypeOK
  <2> QED BY <1>0, <1>1, <2>1 DEF Send, Stages, Trailer
<1>2. CASE SendRaises(r)
  <2>1. /\ client[r] = "idle" /\ client'[r] = "Exception"
        /\ handle'[r] = "done"
    BY <1>2 DEF SendRaises, TypeOK
  <2>2. handle[r] = "idle" /\ call[r] = "idle" /\ status[r] = "none"
    BY <2>1 DEF Stages
  <2> QED BY <1>0, <1>2, <2>1, <2>2 DEF SendRaises, Stages
<1>3. CASE ReceiveRequest(r)
  <2>1. /\ handle[r] = "idle" /\ handle'[r] = "calling"
        /\ client[r] # "idle"
    BY <1>3 DEF ReceiveRequest, HandleGoes, TypeOK
  <2>2. call'[r] \in Errors \cup {"pending"}
    BY <1>3 DEF ReceiveRequest, Got!Submit, Got!Refuse, Got!Move, TypeOK
  <2>3. call'[r] \notin {"idle", "streaming", "abandoned"} \cup Replies
    BY <2>2 DEF Errors, ModappError, Replies
  <2> QED BY <1>0, <1>3, <2>1, <2>3 DEF ReceiveRequest, Stages
<1>4. CASE GotAnswer(r)
  <2>1. /\ call[r] = "pending"
        /\ call'[r] \in Replies \cup Errors
        /\ call'[r] \in Replies => ~ServerStreaming(r)
    BY <1>4 DEF GotAnswer, Got!Answer, Got!Move, TypeOK, ServerStreaming
  <2>2. handle[r] = "calling"
    BY <2>1 DEF Stages
  <2>3. call'[r] \notin {"idle", "pending", "streaming", "abandoned"}
    BY <2>1 DEF Errors, ModappError, Replies
  <2> QED BY <1>0, <1>4, <2>1, <2>2, <2>3 DEF GotAnswer, Stages
<1>5. CASE GotStream(r)
  <2>1. /\ handle[r] = "calling" /\ handle'[r] = "iterating"
        /\ call'[r] = "streaming"
        /\ ServerStreaming(r)
    BY <1>5 DEF GotStream, HandleGoes, Got!OpenStream, Got!Move, TypeOK,
                ServerStreaming
  <2> QED BY <1>0, <1>5, <2>1 DEF GotStream, Stages, Replies
<1>6. CASE NextMessage(r)
  <2>1. /\ handle[r] = "iterating" /\ handle'[r] = "sending"
        /\ call[r] = "streaming" /\ call'[r] = "streaming"
    BY <1>6 DEF NextMessage, HandleGoes, Got!Deliver, TypeOK
  <2> QED BY <1>0, <1>6, <2>1 DEF NextMessage, Stages, Replies
<1>7. CASE SendMessage(r)
  <2>1. /\ handle[r] = "sending" /\ handle'[r] = "iterating"
    BY <1>7 DEF SendMessage, HandleGoes, TypeOK
  <2>2. call[r] = "streaming" /\ call'[r] = "streaming"
    BY <1>7, <2>1 DEF SendMessage, Stages
  <2> QED BY <1>0, <1>7, <2>1, <2>2 DEF SendMessage, Stages, Replies
<1>8. CASE SendFails(r)
  <2>1. /\ handle[r] = "sending" /\ handle'[r] = "done"
        /\ call'[r] = "abandoned"
    BY <1>8 DEF SendFails, HandleGoes, Got!Move, TypeOK
  <2>2. status[r] \in {"none", "lost"} /\ client[r] # "idle"
    BY <2>1 DEF Stages
  <2> QED BY <1>0, <1>8, <2>1, <2>2 DEF SendFails, Stages, Replies
<1>9. CASE CloseStream(r)
  <2>1. /\ handle[r] = "iterating"
        /\ call'[r] \in Errors \cup StreamEnds
    BY <1>9 DEF CloseStream, Got!CloseStream, Got!Move, TypeOK
  <2>2. call'[r] \notin {"idle", "pending", "streaming"} \cup Replies
    BY <2>1 DEF Errors, ModappError, StreamEnds, Replies
  <2> QED BY <1>0, <1>9, <2>1, <2>2 DEF CloseStream, Stages
<1>10. CASE Finish(r)
  <2>1. /\ call[r] \in Outcomes
        /\ handle[r] \in {"calling", "iterating"} /\ handle'[r] = "done"
    BY <1>10 DEF Finish, TypeOK
  <2>2. status'[r] \in Trailer(r) \cup {"none", "lost"}
    <3>1. CASE Gone(r)
      BY <1>10, <2>1, <3>1 DEF Finish, Stages
    <3>2. CASE ~Gone(r)
      BY <1>10, <3>2 DEF Finish, TypeOK
    <3> QED BY <3>1, <3>2
  <2>3. Trailer(r)' = Trailer(r)
    BY <1>0, <1>10 DEF Finish, Trailer
  <2>4. client[r] # "idle" /\ call[r] \notin {"idle", "pending", "streaming"}
    BY <2>1 DEF Stages, Outcomes, Replies, Errors, ModappError, StreamEnds
  <2> QED BY <1>0, <1>10, <2>1, <2>2, <2>3, <2>4 DEF Finish, Stages
<1>11. CASE Channel(r) \/ GiveUp(r)
  <2>1. UNCHANGED <<call, delivered, handle, sent, status>> /\ client'[r] # "idle"
    <3>1. ClientStep(r)
      BY <1>11, ChannelSteps
    <3> QED BY <3>1 DEF ClientStep, TakeMessage, ClientGets, TypeOK, ClientOutcomes,
                        ModappError
  <2>2. Trailer(r)' = Trailer(r)
    BY <1>0, <2>1 DEF Trailer
  <2> QED BY <1>0, <2>1, <2>2 DEF Stages
<1>12. CASE Lose(r)
  <2>1. status'[r] = "lost" /\ status[r] = "none" /\ client[r] = "waiting"
    BY <1>12 DEF Lose, TypeOK
  <2> QED BY <1>0, <1>12, <2>1 DEF Lose, Stages
<1> QED BY <1>1, <1>2, <1>3, <1>4, <1>5, <1>6, <1>7, <1>8, <1>9, <1>10, <1>11, <1>12
        DEF Step, Handle

\* ... by the number of messages ...
LEMMA CountsStep ==
  ASSUME TypeOK, NEW r \in Request, Stages(r), Counts(r), Step(r) PROVE Counts(r)'
<1>0. /\ sent[r] \in Nat /\ delivered[r] \in Nat /\ received[r] \in Nat
      /\ ServerStreaming(r)' = ServerStreaming(r)
  BY DEF TypeOK, ServerStreaming
<1>1. CASE Send(r)
  BY <1>0, <1>1 DEF Send, Counts
<1>2. CASE SendRaises(r)
  <2>1. handle'[r] = "done"
    BY <1>2 DEF SendRaises, TypeOK
  <2> QED BY <1>0, <1>2, <2>1 DEF SendRaises, Counts
<1>3. CASE ReceiveRequest(r)
  <2>1. /\ handle[r] = "idle" /\ handle'[r] = "calling"
        /\ UNCHANGED <<delivered, sent, status, received>>
    BY <1>3 DEF ReceiveRequest, HandleGoes, Got!Submit, Got!Refuse, Got!Move, TypeOK
  <2>2. call[r] = "idle" /\ status[r] \in {"none", "lost"}
    BY <2>1 DEF Stages
  <2> QED BY <1>0, <2>1, <2>2 DEF Counts
<1>4. CASE GotAnswer(r)
  <2>1. /\ call[r] = "pending"
        /\ UNCHANGED <<delivered, handle, sent, status, received>>
    BY <1>4 DEF GotAnswer, Got!Answer, Got!Move
  <2> QED BY <1>0, <2>1 DEF Counts
<1>5. CASE GotStream(r)
  <2>1. /\ handle[r] = "calling" /\ handle'[r] = "iterating"
        /\ call[r] = "pending" /\ call'[r] = "streaming"
        /\ UNCHANGED <<delivered, sent, status, received>>
    BY <1>5 DEF GotStream, HandleGoes, Got!OpenStream, Got!Move, TypeOK
  <2> QED BY <1>0, <2>1 DEF Counts
<1>6. CASE NextMessage(r)
  <2>1. /\ handle[r] = "iterating" /\ handle'[r] = "sending"
        /\ call[r] = "streaming"
        /\ delivered'[r] = delivered[r] + 1
        /\ UNCHANGED <<call, sent, status, received>>
    BY <1>6 DEF NextMessage, HandleGoes, Got!Deliver, TypeOK
  <2>2. status[r] \in {"none", "lost"}
    BY <2>1 DEF Stages
  <2> QED BY <1>0, <2>1, <2>2 DEF Counts
<1>7. CASE SendMessage(r)
  <2>1. /\ handle[r] = "sending" /\ handle'[r] = "iterating"
        /\ sent'[r] = sent[r] + 1
        /\ UNCHANGED <<call, delivered, status, received>>
    BY <1>7 DEF SendMessage, HandleGoes, TypeOK
  <2>2. status[r] \in {"none", "lost"} /\ call[r] = "streaming"
    BY <2>1 DEF Stages
  <2> QED BY <1>0, <2>1, <2>2 DEF Counts
<1>8. CASE SendFails(r)
  <2>1. /\ handle[r] = "sending" /\ handle'[r] = "done"
        /\ call'[r] = "abandoned"
        /\ UNCHANGED <<delivered, sent, status, received>>
    BY <1>8 DEF SendFails, HandleGoes, Got!Move, TypeOK
  <2>2. status[r] \in {"none", "lost"}
    BY <2>1 DEF Stages
  <2> QED BY <1>0, <2>1, <2>2 DEF Counts
<1>9. CASE CloseStream(r)
  <2>1. /\ call[r] = "streaming"
        /\ call'[r] \notin {"idle", "pending"}
        /\ UNCHANGED <<delivered, handle, sent, status, received>>
    BY <1>9 DEF CloseStream, Got!CloseStream, Got!Move, TypeOK, Errors, ModappError,
                StreamEnds
  <2> QED BY <1>0, <2>1 DEF Counts
<1>10. CASE Finish(r)
  <2>1. /\ call[r] \notin {"idle", "pending"}
        /\ handle[r] \in {"calling", "iterating"} /\ handle'[r] = "done"
        /\ UNCHANGED <<call, delivered, received>>
    BY <1>10 DEF Finish, TypeOK, Outcomes, Replies, Errors, ModappError, StreamEnds
  <2>2. sent[r] = delivered[r]
    BY <2>1 DEF Counts
  <2>3. CASE sent'[r] = sent[r]
    BY <1>0, <2>1, <2>2, <2>3 DEF Counts
  <2>4. CASE sent'[r] # sent[r]
    <3>1. call[r] \in Replies /\ sent'[r] = 1
      BY <1>10, <2>4 DEF Finish, TypeOK
    <3>2. ~ServerStreaming(r)
      BY <3>1 DEF Stages
    <3> QED BY <1>0, <2>1, <3>1, <3>2 DEF Counts
  <2> QED BY <2>3, <2>4
<1>11. CASE Channel(r) \/ GiveUp(r)
  <2>1. ClientStep(r)
    BY <1>11, ChannelSteps
  <2>2. CASE TakeMessage(r)
    <3>1. /\ ServerStreaming(r)
          /\ received[r] < sent[r] /\ received'[r] = received[r] + 1
          /\ UNCHANGED <<call, delivered, handle, sent, status>>
      BY <2>2 DEF TakeMessage, TypeOK
    <3> QED BY <1>0, <3>1 DEF Counts
  <2>3. CASE UNCHANGED received
    BY <1>0, <2>1, <2>3 DEF ClientStep, Counts
  <2> QED BY <2>1, <2>2, <2>3 DEF ClientStep
<1>12. CASE Lose(r)
  <2>1. status'[r] = "lost" /\ UNCHANGED <<call, delivered, handle, sent, received>>
    BY <1>12 DEF Lose, TypeOK
  <2> QED BY <1>0, <2>1 DEF Counts
<1> QED BY <1>1, <1>2, <1>3, <1>4, <1>5, <1>6, <1>7, <1>8, <1>9, <1>10, <1>11, <1>12
        DEF Step, Handle

\* ... and seen from the client.
LEMMA ToldStep ==
  ASSUME TypeOK, NEW r \in Request, Stages(r), Counts(r), Told(r), Step(r)
  PROVE  Told(r)'
<1>0. /\ sent[r] \in Nat /\ received[r] \in Nat
      /\ ServerStreaming(r)' = ServerStreaming(r)
  BY DEF TypeOK, ServerStreaming
<1>1. CASE Send(r) \/ SendRaises(r)
  <2>1. client[r] = "idle" /\ client'[r] \in {"waiting", "Exception"} /\ status' = status
    BY <1>1 DEF Send, SendRaises, TypeOK
  <2>2. status[r] = "none"
    BY <2>1 DEF Stages
  <2> QED BY <2>1, <2>2 DEF Told, Answered, ClientOutcomes
<1>2. CASE /\ handle[r] # "done"
           /\ UNCHANGED <<status, client>>
  <2>1. status[r] \in {"none", "lost"}
    BY <1>2 DEF Stages
  <2> QED BY <1>2, <2>1 DEF Told, Answered
<1>3. CASE \/ ReceiveRequest(r) \/ GotStream(r) \/ NextMessage(r)
           \/ SendMessage(r) \/ SendFails(r) \/ CloseStream(r)
  BY <1>2, <1>3 DEF ReceiveRequest, GotStream, NextMessage, SendMessage, SendFails,
                    CloseStream, HandleGoes
<1>4. CASE GotAnswer(r)
  <2>1. call[r] = "pending"
    BY <1>4 DEF GotAnswer, Got!Answer, Got!Move
  <2>2. handle[r] # "done"
    BY <2>1 DEF Stages
  <2> QED BY <1>2, <1>4, <2>2 DEF GotAnswer
<1>5. CASE Finish(r)
  <2>1. CASE Gone(r)
    BY <1>2, <1>5, <2>1 DEF Finish
  <2>2. CASE ~Gone(r)
    <3>1. client'[r] \notin ClientOutcomes
      BY <1>5, <2>2 DEF Finish, Gone
    <3> QED BY <3>1 DEF Told, Answered, ClientOutcomes
  <2> QED BY <2>1, <2>2
<1>6. CASE TakeMessage(r) \/ Lose(r)
  <2>1. client'[r] = "waiting"
    BY <1>6 DEF TakeMessage, Lose
  <2> QED BY <2>1 DEF Told, Answered, ClientOutcomes, ModappError
<1>7. CASE RefuseMessage(r)
  <2>1. /\ ServerStreaming(r) /\ received[r] # sent[r]
        /\ client'[r] \in ModappError \cup {"Exception"}
        /\ UNCHANGED <<sent, received>>
    BY <1>0, <1>7 DEF RefuseMessage, ClientGets, TypeOK
  <2> QED BY <1>0, <2>1 DEF Told, Answered, ModappError
<1>8. CASE TakeError(r)
  <2>1. client'[r] = StatusError(status[r]) /\ status' = status
    BY <1>8 DEF TakeError, ClientGets, TypeOK
  <2>2. client'[r] # "completed"
    BY <2>1, StatusErrorType DEF ModappError
  <2> QED BY <2>1, <2>2 DEF Told
<1>9. CASE TakeReply(r) \/ TakeEnd(r)
  <2>1. status[r] = "OK" /\ UNCHANGED <<call, sent, status, received>>
    BY <1>9 DEF TakeReply, TakeEnd
  <2>2. call[r] \notin ModappError
    BY <2>1, TrailerOfModappError DEF Stages
  <2>3. client'[r] = "completed" => ServerStreaming(r) /\ received[r] = sent[r]
    BY <1>9 DEF TakeReply, TakeEnd, ClientGets, TypeOK, ModappError
  <2> QED BY <1>0, <2>1, <2>2, <2>3 DEF Told
<1>10. CASE TakeLoss(r) \/ GiveUp(r)
  <2>1. \/ client'[r] = "gave up"
        \/ client'[r] = "Exception" /\ status'[r] = "lost"
    BY <1>10 DEF TakeLoss, GiveUp, ClientGets, TypeOK
  <2> QED BY <2>1 DEF Told, Answered
<1> QED BY <1>1, <1>3, <1>4, <1>5, <1>6, <1>7, <1>8, <1>9, <1>10
        DEF Step, Handle, Channel

\* Every step of server, network and channel keeps the invariant.
LEMMA StepInv == Inv /\ [Next]_vars => Inv'
<1> SUFFICES ASSUME Inv, [Next]_vars PROVE Inv'
  OBVIOUS
<1>1. CASE UNCHANGED vars
  <2>1. TypeOK'
    BY <1>1 DEF Inv, vars, TypeOK
  <2>2. ASSUME NEW q \in Request PROVE Stages(q)'
    BY <1>1 DEF Inv, vars, Stages, ServerStreaming, Trailer
  <2>3. ASSUME NEW q \in Request PROVE Counts(q)'
    BY <1>1 DEF Inv, vars, Counts, ServerStreaming
  <2>4. ASSUME NEW q \in Request PROVE Told(q)'
    BY <1>1 DEF Inv, vars, Told, Answered, ServerStreaming
  <2> QED BY <2>1, <2>2, <2>3, <2>4 DEF Inv
<1>2. ASSUME NEW r \in Request, Step(r) PROVE Inv'
  <2>1. TypeOK'
    BY <1>2, TypeStep DEF Inv
  <2>2. ASSUME NEW q \in Request PROVE Stages(q)' /\ Counts(q)' /\ Told(q)'
    <3>1. CASE q = r
      BY <1>2, <3>1, StagesStep, CountsStep, ToldStep DEF Inv
    <3>2. CASE q # r
      <4>1. /\ call'[q] = call[q]
            /\ delivered'[q] = delivered[q]
            /\ handle'[q] = handle[q]
            /\ sent'[q] = sent[q]
            /\ status'[q] = status[q]
            /\ client'[q] = client[q]
            /\ received'[q] = received[q]
        BY <1>2, <3>2, OthersUntouched DEF Inv
      <4>2. Trailer(q)' = Trailer(q) /\ ServerStreaming(q)' = ServerStreaming(q)
        BY <4>1 DEF Trailer, ServerStreaming
      <4>3. Stages(q)'
        BY <4>1, <4>2 DEF Inv, Stages
      <4>4. Counts(q)'
        BY <4>1, <4>2 DEF Inv, Counts
      <4>5. Told(q)'
        BY <4>1, <4>2 DEF Inv, Told, Answered
      <4> QED BY <4>3, <4>4, <4>5
    <3> QED BY <3>1, <3>2
  <2> QED BY <2>1, <2>2 DEF Inv
<1> QED BY <1>1, <1>2 DEF Next, Step

\* The two ends of a gRPC call always fit together: got_request, the handle
\* coroutine, the status grpclib sends and what the channel has taken.
THEOREM Invariance == Spec => []Inv
BY InitInv, StepInv, PTL DEF Spec

\* A modapp error that got_request raises is a modapp error for the caller of the
\* channel: of its class if that is NotFoundError or ServerError, or
\* InvalidArgumentError whose details can be made, and a ServerError otherwise
\* (ModappErrorsArrive).
THEOREM ErrorsArrive == Spec => []ModappErrorsArrive
<1>1. Inv => ModappErrorsArrive
  <2> SUFFICES ASSUME Inv, NEW r \in Request, Answered(r), call[r] \in ModappError
               PROVE  client[r] \in ArrivesAs(call[r])
    BY DEF ModappErrorsArrive
  <2>1. client[r] = StatusError(status[r]) /\ status[r] \in Trailer(r)
    BY DEF Inv, Told, Stages, Answered
  <2> QED BY <2>1, TrailerOfModappError
<1> QED BY <1>1, Invariance, PTL

\* A stream that ends without an error for the client, of whatever length, has
\* given it every message the server yielded (CompletedStreamIsWhole).
THEOREM StreamsAreWhole == Spec => []CompletedStreamIsWhole
<1>1. Inv => CompletedStreamIsWhole
  <2> SUFFICES ASSUME Inv, NEW r \in Request, client[r] = "completed"
               PROVE  received[r] = delivered[r] /\ call[r] \in {"completed", "Exception"}
    BY DEF CompletedStreamIsWhole
  <2>1. ServerStreaming(r) /\ status[r] = "OK" /\ received[r] = sent[r]
    BY DEF Inv, Told
  <2>2. /\ handle[r] = "done" /\ call[r] \in Outcomes /\ "OK" \in Trailer(r)
        /\ call[r] \notin Replies
    BY <2>1 DEF Inv, Stages
  <2>3. sent[r] = delivered[r]
    BY <2>1 DEF Inv, Counts
  <2>4. call[r] # "abandoned"
    BY <2>1 DEF Inv, Stages
  <2>5. call[r] \in {"completed", "Exception"}
    BY <2>2, <2>4 DEF Trailer, Outcomes, Errors, ModappError, StreamEnds
  <2> QED BY <2>1, <2>3, <2>5
<1> QED BY <1>1, Invariance, PTL

-----------------------------------------------------------------------------
\* What the caller sees is a call of Rpc.

\* A step of one call changes no other caller's view.
LEMMA OnlyItsViewMoves ==
  ASSUME TypeOK, NEW r \in Request, Step(r)
  PROVE  [q \in Request |-> View(q)]' =
           [[q \in Request |-> View(q)] EXCEPT ![r] = View(r)']
<1>1. ASSUME NEW q \in Request \ {r} PROVE View(q)' = View(q)
  <2>1. client'[q] = client[q] /\ call'[q] = call[q]
    BY OthersUntouched
  <2> QED BY <2>1 DEF View, ServerStreaming
<1> QED BY <1>1

\* How a change of a view is a move of Rpc.
LEMMA ViewMoves ==
  ASSUME TypeOK, NEW r \in Request, Step(r), received' = received
  PROVE  /\ \A from, to : from = View(r) /\ to = View(r)' => Caller!Move(r, from, to)
         /\ View(r)' = View(r) => UNCHANGED Caller!vars
<1>1. ASSUME View(r)' = View(r)
      PROVE  [q \in Request |-> View(q)]' = [q \in Request |-> View(q)]
  BY <1>1, OnlyItsViewMoves
<1> QED BY <1>1, OnlyItsViewMoves DEF Caller!Move, Caller!vars

\* The moves that tell a waiting caller the outcome.
LEMMA OutcomeMoves ==
  ASSUME TypeOK, NEW r \in Request, Step(r), received' = received,
         client[r] = "waiting",
         \/ View(r) = "pending"
         \/ View(r) = "streaming",
         NEW o, View(r)' = o,
         \/ o \in ModappError \cup {"Exception", "gave up"}
         \/ View(r) = "pending" /\ o = "reply"
         \/ View(r) = "streaming" /\ o = "completed"
  PROVE  Caller!Next
<1>1. CASE View(r) = "pending"
  <2>1. Caller!Move(r, "pending", o)
    BY <1>1, ViewMoves
  <2> QED BY <1>1, <2>1 DEF Caller!Next, Caller!Answer
<1>2. CASE View(r) = "streaming"
  <2>1. Caller!Move(r, "streaming", o)
    BY <1>2, ViewMoves
  <2> QED BY <1>2, <2>1 DEF Caller!Next, Caller!CloseStream
<1> QED BY <1>1, <1>2

\* Every step is a step of the caller's Rpc call or a stutter.
LEMMA StepSimulates ==
  ASSUME Inv, NEW r \in Request, Step(r)
  PROVE  Caller!Next \/ UNCHANGED Caller!vars
<1>0. TypeOK /\ Stages(r) /\ Counts(r)
  BY DEF Inv
<1>1. CASE Send(r)
  <2>1. /\ client[r] = "idle" /\ client'[r] = "waiting"
        /\ call[r] = "idle" /\ call'[r] = "idle"
        /\ received' = received
    BY <1>0, <1>1 DEF Send, TypeOK, Stages
  <2>2. View(r) = "idle" /\ View(r)' = "pending"
    BY <2>1 DEF View
  <2>3. Caller!Move(r, "idle", "pending")
    BY <1>0, <2>1, <2>2, ViewMoves
  <2> QED BY <2>3 DEF Caller!Next, Caller!Submit
<1>2. CASE SendRaises(r)
  <2>1. client[r] = "idle" /\ client'[r] = "Exception" /\ received' = received
    BY <1>0, <1>2 DEF SendRaises, TypeOK
  <2>2. View(r) = "idle" /\ View(r)' = "Exception"
    BY <2>1 DEF View
  <2>3. Caller!Move(r, "idle", "Exception")
    BY <1>0, <2>1, <2>2, ViewMoves
  <2> QED BY <2>3 DEF Caller!Next, Caller!Refuse
<1>3. CASE ReceiveRequest(r) \/ GotAnswer(r) \/ GotStream(r)
  <2>1. /\ call[r] \in {"idle", "pending"} /\ client' = client /\ received' = received
    BY <1>0, <1>3 DEF ReceiveRequest, HandleGoes, GotAnswer, GotStream, Got!Answer,
                      Got!OpenStream, Got!Move, Stages
  <2>2. CASE View(r)' = View(r)
    BY <1>0, <2>1, <2>2, ViewMoves
  <2>3. CASE View(r)' # View(r)
    <3>1. View(r) = "pending" /\ View(r)' = "streaming"
      BY <2>1, <2>3 DEF View, ServerStreaming
    <3>2. Caller!Move(r, "pending", "streaming")
      BY <1>0, <2>1, <3>1, ViewMoves
    <3> QED BY <3>2 DEF Caller!Next, Caller!OpenStream
  <2> QED BY <2>2, <2>3
<1>4. CASE SendFails(r) \/ CloseStream(r)
  <2>1. /\ call[r] = "streaming" /\ call'[r] \notin {"idle", "pending"}
        /\ client' = client /\ received' = received
    BY <1>0, <1>4 DEF SendFails, CloseStream, Got!CloseStream, Got!Move, TypeOK,
                      Errors, ModappError, StreamEnds
  <2>2. View(r)' = View(r)
    BY <2>1 DEF View, ServerStreaming
  <2> QED BY <1>0, <2>1, <2>2, ViewMoves
<1>5. CASE NextMessage(r) \/ SendMessage(r) \/ Finish(r) \/ Lose(r)
  <2>1. UNCHANGED <<call, client, received>>
    BY <1>5 DEF NextMessage, Got!Deliver, SendMessage, Finish, Lose
  <2>2. View(r)' = View(r)
    BY <2>1 DEF View, ServerStreaming
  <2> QED BY <1>0, <2>1, <2>2, ViewMoves
<1>6. CASE TakeMessage(r)
  <2>1. /\ ServerStreaming(r) /\ client[r] = "waiting"
        /\ received[r] < sent[r]
        /\ received' = [received EXCEPT ![r] = @ + 1]
        /\ UNCHANGED <<call, client>>
    BY <1>6 DEF TakeMessage
  <2>2. call[r] \notin {"idle", "pending"}
    BY <1>0, <2>1 DEF Counts, TypeOK
  <2>3. View(r) = "streaming"
    BY <2>1, <2>2 DEF View
  <2>4. [q \in Request |-> View(q)]' = [q \in Request |-> View(q)]
    BY <2>1 DEF View, ServerStreaming
  <2> QED BY <2>1, <2>3, <2>4 DEF Caller!Next, Caller!Deliver
<1>7. CASE \/ RefuseMessage(r) \/ TakeError(r) \/ TakeReply(r)
           \/ TakeEnd(r) \/ TakeLoss(r) \/ GiveUp(r)
  <2>1. received' = received
    BY <1>7 DEF RefuseMessage, TakeError, TakeReply, TakeEnd, TakeLoss, GiveUp
  <2>2. client[r] = "waiting" /\ View(r) \in {"pending", "streaming"}
    BY <1>7 DEF RefuseMessage, TakeError, TakeReply, TakeEnd, TakeLoss, GiveUp,
                ClientGets, View
  <2>3. client'[r] # "waiting" /\ View(r)' = client'[r]
    <3>1. ClientStep(r)
      BY <1>7, ChannelSteps DEF Channel
    <3>2. client'[r] \in ClientOutcomes
      BY <1>0, <2>1, <3>1 DEF ClientStep, TakeMessage, ClientGets, TypeOK
    <3> QED BY <3>2 DEF View, ClientOutcomes, ModappError
  <2>4. \/ client'[r] \in ModappError \cup {"Exception", "gave up"}
        \/ TakeReply(r) /\ client'[r] = "reply"
        \/ TakeEnd(r) /\ client'[r] = "completed"
    <3>1. CASE RefuseMessage(r) \/ TakeReply(r)
      BY <1>0, <3>1 DEF RefuseMessage, TakeReply, ClientGets, TypeOK
    <3>2. CASE TakeError(r)
      BY <1>0, <3>2, StatusErrorType DEF TakeError, ClientGets, TypeOK
    <3>3. CASE TakeEnd(r) \/ TakeLoss(r) \/ GiveUp(r)
      BY <1>0, <3>3 DEF TakeEnd, TakeLoss, GiveUp, ClientGets, TypeOK
    <3> QED BY <1>7, <3>1, <3>2, <3>3
  <2>5. TakeReply(r) => View(r) = "pending"
    BY <2>2 DEF TakeReply, View
  <2>6. TakeEnd(r) => View(r) = "streaming"
    <3>1. TakeEnd(r) => call[r] \in Outcomes
      BY <1>0 DEF TakeEnd, Stages
    <3> QED BY <2>2, <3>1 DEF TakeEnd, View, Outcomes, Replies, Errors, ModappError,
                              StreamEnds
  <2> QED BY <1>0, <2>1, <2>2, <2>3, <2>4, <2>5, <2>6, OutcomeMoves
<1> QED BY <1>1, <1>2, <1>3, <1>4, <1>5, <1>6, <1>7 DEF Step, Handle, Channel

\* The caller of the channel sees one outcome, and messages only while its
\* stream is open: what it sees implements Rpc (CallersSeeRpc).
THEOREM Implementation == Spec => CallersSeeRpc
<1>1. Init => Caller!Init
  BY DEF Init, Caller!Init, View
<1>2. Inv /\ [Next]_vars => [Caller!Next]_(Caller!vars)
  <2> SUFFICES ASSUME Inv, [Next]_vars PROVE [Caller!Next]_(Caller!vars)
    OBVIOUS
  <2>1. CASE Next
    BY <2>1, StepSimulates DEF Next, Step
  <2>2. CASE UNCHANGED vars
    BY <2>2 DEF vars, Caller!vars, View, ServerStreaming
  <2> QED BY <2>1, <2>2
<1> QED BY <1>1, <1>2, Invariance, PTL DEF Spec, CallersSeeRpc, Caller!Spec
=============================================================================
