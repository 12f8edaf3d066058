------------------------------- MODULE Modapp -------------------------------
(***************************************************************************)
(* The life of a server: Modapp.run, run_async and stop, over transports   *)
(* of the three kinds.  run() drives an asyncio loop in the main thread:   *)
(* run_until_complete(run_async()) gathers the start() coroutines of all   *)
(* transports, run_forever() serves, and a KeyboardInterrupt there calls   *)
(* stop().  Whatever else leaves run() leaves it without stop(), and its   *)
(* caller may call stop() or run() again.                                  *)
(*                                                                         *)
(* What a start() sets up (the grpclib Server, the socketify App, the      *)
(* routes of the in-memory transport) is the object of that run.  The      *)
(* transport keeps a reference to one of them.                             *)
(***************************************************************************)
EXTENDS Naturals

CONSTANTS
  Transport,    \* Modapp.transports
  Kind,         \* Kind[t]: which class t is of
  MaxRuns       \* bound on calls of run()

Kinds == {"grpc", "web_socketify", "inmemory"}

ASSUME TransportAssumption ==
  /\ MaxRuns \in Nat \ {0}
  /\ Kind \in [Transport -> Kinds]

Run == 1..MaxRuns

None == 0

VARIABLES
  phase,        \* where the main thread is
  run,          \* number of the latest call of run()
  task,         \* task[k][t]: the start() coroutine of t gathered by run k
  object,       \* object[k][t]: what start() of t in run k has set up
  ref,          \* ref[t]: self.server, self.app or self.routes: whose object
  toStop,       \* transports the loop in stop() has not reached
  busy,         \* a request handler has the main thread
  interrupted,  \* SIGINT was raised during the latest run
  dirty,        \* history: some run began over the remains of another
  torn          \* history: transports whose stop() SIGINT cut short behind close()

vars ==
  <<phase, run, task, object, ref, toStop, busy, interrupted, dirty, torn>>

Phases == {"idle", "starting", "running", "stopping", "returned", "raised"}
TaskStates == {"none", "ready", "awaiting", "done", "failed"}
ObjectStates == {"none", "created", "up", "closed"}

TypeOK ==
  /\ phase \in Phases
  /\ run \in 0..MaxRuns
  /\ task \in [Run -> [Transport -> TaskStates]]
  /\ object \in [Run -> [Transport -> ObjectStates]]
  /\ ref \in [Transport -> 0..MaxRuns]
  /\ toStop \in SUBSET Transport
  /\ busy \in BOOLEAN
  /\ interrupted \in BOOLEAN
  /\ dirty \in BOOLEAN
  /\ torn \in SUBSET Transport

Init ==
  /\ phase = "idle"
  /\ run = 0
  /\ task = [k \in Run |-> [t \in Transport |-> "none"]]
  /\ object = [k \in Run |-> [t \in Transport |-> "none"]]
  /\ ref = [t \in Transport |-> None]
  /\ toStop = {}
  /\ busy = FALSE
  /\ interrupted = FALSE
  /\ dirty = FALSE
  /\ torn = {}

\* The loop has the main thread: no request handler is in the middle of a step.
LoopRuns == phase \in {"starting", "running"} /\ ~busy
OutsideRun == phase \in {"idle", "returned", "raised"}

\* What a run that was not wound up leaves behind.
Remains ==
  \E t \in Transport :
    \/ ref[t] # None
    \/ \E k \in Run : task[k][t] \in {"ready", "awaiting"}

\* run(): run_async gathers one start() per transport; none has run yet.
CallRun ==
  /\ OutsideRun
  /\ run < MaxRuns
  /\ phase' = "starting"
  /\ run' = run + 1
  /\ task' = [task EXCEPT ![run + 1] = [t \in Transport |-> "ready"]]
  /\ interrupted' = FALSE
  /\ dirty' = (dirty \/ Remains)
  /\ torn' = {}
  /\ UNCHANGED <<object, ref, toStop, busy>>

-----------------------------------------------------------------------------
\* The steps of the start() coroutine of t in run k.  The loop keeps the tasks
\* of an earlier run that was left while they were pending.
Progress(k, t, taskState, objectState) ==
  /\ task' = [task EXCEPT ![k][t] = taskState]
  /\ object' = [object EXCEPT ![k][t] = objectState]
  /\ UNCHANGED <<phase, run, toStop, busy, interrupted, dirty, torn>>

\* The ready queue of the loop is first in, first out: what an earlier run has
\* left there goes first.
FirstStep(k, t) ==
  /\ LoopRuns
  /\ task[k][t] = "ready"
  /\ \A j \in 1..(k - 1) : \A u \in Transport : task[j][u] # "ready"

\* InMemoryTransport.start
StartInMemory(k, t) ==
  /\ FirstStep(k, t) /\ Kind[t] = "inmemory"
  /\ ref' = [ref EXCEPT ![t] = k]
  /\ Progress(k, t, "done", "up")

\* GrpcTransport.start up to its await: the Server replaces the previous one.
\* The assertions on address and port come after that.
StartGrpc(k, t) ==
  /\ FirstStep(k, t) /\ Kind[t] = "grpc"
  /\ ref' = [ref EXCEPT ![t] = k]
  /\ \E outcome \in {"awaiting", "failed"} : Progress(k, t, outcome, "created")

\* await self.server.start(address, port): the port can be bound once.
PortIsFree(t) == \A k \in Run : object[k][t] # "up"

GrpcBinds(k, t) ==
  /\ LoopRuns /\ Kind[t] = "grpc" /\ task[k][t] = "awaiting"
  /\ PortIsFree(t)
  /\ Progress(k, t, "done", "up")
  /\ UNCHANGED ref

GrpcBindFails_Logged(k, t) ==
  /\ LoopRuns /\ Kind[t] = "grpc" /\ task[k][t] = "awaiting"
  /\ Progress(k, t, "done", object[k][t])
  /\ UNCHANGED ref

GrpcBindFails(k, t) ==
  /\ LoopRuns /\ Kind[t] = "grpc" /\ task[k][t] = "awaiting"
  /\ Progress(k, t, "failed", object[k][t])
  /\ UNCHANGED ref

\* WebSocketifyTransport.start refuses to run while an App is kept.
StartWebRefused(k, t) ==
  /\ FirstStep(k, t) /\ Kind[t] = "web_socketify"
  /\ ref[t] # None
  /\ Progress(k, t, "failed", object[k][t])
  /\ UNCHANGED ref

StartWeb_Unguarded(k, t) ==
  /\ FirstStep(k, t) /\ Kind[t] = "web_socketify"
  /\ ref' = [ref EXCEPT ![t] = k]
  /\ Progress(k, t, "done", "up") \/ Progress(k, t, "failed", "created")

\* The App is kept first; the assertion on the port may still fail.
StartWeb(k, t) ==
  /\ FirstStep(k, t) /\ Kind[t] = "web_socketify"
  /\ ref[t] = None
  /\ ref' = [ref EXCEPT ![t] = k]
  /\ Progress(k, t, "done", "up") \/ Progress(k, t, "failed", "created")

\* gather: run_async returns when all start() are done, and raises out of run()
\* as soon as one has failed; the others are neither cancelled nor stopped.
AllStarted_FailuresIgnored ==
  \A t \in Transport : task[run][t] \in {"done", "failed"}

AllStarted == \A t \in Transport : task[run][t] = "done"

RunAsyncReturns ==
  /\ phase = "starting" /\ LoopRuns
  /\ AllStarted
  /\ phase' = "running"
  /\ UNCHANGED <<run, task, object, ref, toStop, busy, interrupted, dirty, torn>>

RunAsyncRaises_WhenAllFailed ==
  /\ phase = "starting" /\ LoopRuns
  /\ \A t \in Transport : task[run][t] = "failed"
  /\ phase' = "raised"
  /\ UNCHANGED <<run, task, object, ref, toStop, busy, interrupted, dirty, torn>>

\* The callback of gather is queued behind the coroutines that are ready, so each
\* start() has had its first step by then.
RunAsyncRaises ==
  /\ phase = "starting" /\ LoopRuns
  /\ \A t \in Transport : task[run][t] # "ready"
  /\ \E t \in Transport : task[run][t] = "failed"
  /\ phase' = "raised"
  /\ UNCHANGED <<run, task, object, ref, toStop, busy, interrupted, dirty, torn>>

-----------------------------------------------------------------------------
\* The loop gives the main thread to a request inside the try block of
\* got_request, as soon as one transport is up, and gets it back at an await.
HandlerResumes ==
  /\ LoopRuns
  /\ \E k \in Run, t \in Transport : object[k][t] = "up"
  /\ busy' = TRUE
  /\ UNCHANGED <<phase, run, task, object, ref, toStop, interrupted, dirty, torn>>

HandlerAwaits ==
  /\ busy
  /\ busy' = FALSE
  /\ UNCHANGED <<phase, run, task, object, ref, toStop, interrupted, dirty, torn>>

BeginStop ==
  /\ phase' = "stopping"
  /\ toStop' = Transport

\* KeyboardInterrupt out of run_forever: run() calls stop().
InterruptLoop ==
  /\ phase = "running" /\ LoopRuns
  /\ interrupted' = TRUE
  /\ BeginStop
  /\ UNCHANGED <<run, task, object, ref, busy, dirty, torn>>

\* Raised in a request: "except BaseException" of got_request turns it into a
\* ServerError for that request.
InterruptHandler ==
  /\ busy
  /\ interrupted' = TRUE
  /\ busy' = FALSE
  /\ UNCHANGED <<phase, run, task, object, ref, toStop, dirty, torn>>

\* Outside the try of run(), or inside stop(): between two transports, or in the
\* stop() of one before its close().
InterruptElsewhere ==
  /\ phase \in {"starting", "stopping"}
  /\ ~busy
  /\ interrupted' = TRUE
  /\ phase' = "raised"
  /\ toStop' = {}
  /\ UNCHANGED <<run, task, object, ref, busy, dirty, torn>>

\* The caller of run() cleans up, as the tests do in a finally clause.
CallStop ==
  /\ OutsideRun
  /\ run > 0
  /\ BeginStop
  /\ UNCHANGED <<run, task, object, ref, busy, interrupted, dirty, torn>>

\* The object the transport keeps.
Kept(t) == IF ref[t] = None THEN "none" ELSE object[ref[t]][t]

\* grpclib refuses to close a Server that was never started, and may refuse to
\* close one again.
CloseRaises(t) == Kind[t] = "grpc" /\ Kept(t) = "created"
CloseMayRaise(t) == Kind[t] = "grpc" /\ Kept(t) \in {"created", "closed"}

StopTransport_NoClose(t) ==
  /\ phase = "stopping"
  /\ t \in toStop
  /\ ref' = [ref EXCEPT ![t] = None]
  /\ toStop' = toStop \ {t}
  /\ UNCHANGED <<phase, run, task, object, busy, interrupted, dirty, torn>>

StopTransport_KeepsRef(t) ==
  /\ phase = "stopping"
  /\ t \in toStop
  /\ ~CloseRaises(t)
  /\ object' = IF ref[t] = None THEN object
               ELSE [object EXCEPT ![ref[t]][t] = "closed"]
  /\ toStop' = toStop \ {t}
  /\ UNCHANGED <<phase, run, task, ref, busy, interrupted, dirty, torn>>

\* transport.stop(): nothing but a warning when there is no object.
StopTransport(t) ==
  /\ phase = "stopping"
  /\ t \in toStop
  /\ ~CloseRaises(t)
  /\ object' = IF ref[t] = None THEN object
               ELSE [object EXCEPT ![ref[t]][t] = "closed"]
  /\ ref' = [ref EXCEPT ![t] = None]
  /\ toStop' = toStop \ {t}
  /\ UNCHANGED <<phase, run, task, busy, interrupted, dirty, torn>>

\* The exception leaves the loop in stop() and the reference stays.
StopTransportRaises(t) ==
  /\ phase = "stopping"
  /\ t \in toStop
  /\ CloseMayRaise(t)
  /\ phase' = "raised"
  /\ toStop' = {}
  /\ UNCHANGED <<run, task, object, ref, busy, interrupted, dirty, torn>>

\* SIGINT in the stop() of a transport, between close() and the assignment of
\* None: the reference to what was closed stays.
InterruptClose(t) ==
  /\ phase = "stopping"
  /\ t \in toStop
  /\ Kind[t] # "inmemory" /\ ref[t] # None
  /\ ~CloseRaises(t)
  /\ interrupted' = TRUE
  /\ object' = [object EXCEPT ![ref[t]][t] = "closed"]
  /\ torn' = torn \cup {t}
  /\ phase' = "raised"
  /\ toStop' = {}
  /\ UNCHANGED <<run, task, ref, busy, dirty>>

StopReturns ==
  /\ phase = "stopping"
  /\ toStop = {}
  /\ phase' = "returned"
  /\ UNCHANGED <<run, task, object, ref, toStop, busy, interrupted, dirty, torn>>

StartStep(k, t) ==
  \/ StartInMemory(k, t)
  \/ StartGrpc(k, t)
  \/ GrpcBinds(k, t)
  \/ GrpcBindFails(k, t)
  \/ StartWebRefused(k, t)
  \/ StartWeb(k, t)

RunAsync == RunAsyncReturns \/ RunAsyncRaises

StopStep ==
  \/ \E t \in Transport : StopTransport(t) \/ StopTransportRaises(t)
  \/ StopReturns

Next ==
  \/ CallRun
  \/ \E k \in Run, t \in Transport : StartStep(k, t)
  \/ RunAsync
  \/ HandlerResumes
  \/ HandlerAwaits
  \/ InterruptLoop
  \/ InterruptHandler
  \/ InterruptElsewhere
  \/ \E t \in Transport : InterruptClose(t)
  \/ CallStop
  \/ StopStep

Spec == Init /\ [][Next]_vars

\* The ready queue of the loop is first in, first out: a task in it gets its turn
\* however often request handlers take theirs (hence SF).  A handler awaits or
\* returns, the bind is answered by the system, stop() is plain sequential code.
Fairness ==
  /\ \A k \in Run, t \in Transport : SF_vars(StartStep(k, t))
  /\ SF_vars(RunAsync)
  /\ WF_vars(HandlerAwaits)
  /\ WF_vars(StopStep)

FairSpec == Spec /\ Fairness

-----------------------------------------------------------------------------
\* While run_forever serves, every transport is up with what start() of this
\* run set up, also when the run began over the remains of a failed one.
RunningServesThisRun ==
  phase = "running" =>
    \A t \in Transport : ref[t] = run /\ object[run][t] = "up"

Listening(k, t) == Kind[t] # "inmemory" /\ object[k][t] = "up"

\* A listener that stop() cannot reach any more takes a run() over the remains
\* of another: start() replaces the Server it finds, the coroutines of a run
\* that was left go on.
NoOrphanListener ==
  \A k \in Run, t \in Transport :
    Listening(k, t) /\ ref[t] # k => dirty

\* No listener of another run takes requests while the server runs.
RunningHasNoOrphan ==
  phase = "running" =>
    \A k \in Run, t \in Transport : Listening(k, t) => k = run

\* When stop() has returned nothing is kept, and nothing listens unless a run
\* began over the remains of another.
StopReleasesAll ==
  phase = "returned" =>
    \A t \in Transport :
      ref[t] = None /\ (dirty \/ \A k \in Run : ~Listening(k, t))

\* Once run_async has returned, stop() meets no server that was never started,
\* however often it is left and called again: what it closes is up, or is the
\* server that SIGINT has cut off from the assignment of None behind its close().
StartedServerCanStop ==
  phase = "stopping" /\ AllStarted =>
    \A t \in toStop :
      Kept(t) \in {"none", "up"} \/ (Kept(t) = "closed" /\ t \in torn)

\* A start-up ends: the server runs, or run() raises.
StartupSettles == phase = "starting" ~> phase \in {"running", "raised"}

\* Modapp.stop, "on app end (e.g. after getting SIGINT)": a server that got
\* SIGINT does not go on serving.
InterruptEndsServing == interrupted => phase # "running"

\* GrpcTransport.stop only warns, "Cannot stop not started server": a stop()
\* that no SIGINT cuts short returns.
StopOnlyWarns ==
  [][phase = "stopping" /\ phase' = "raised" => interrupted']_vars
=============================================================================
