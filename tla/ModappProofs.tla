---------------------------- MODULE ModappProofs ----------------------------
(***************************************************************************)
(* Proofs about Modapp, for any transports of the three kinds and any      *)
(* number of runs.                                                         *)
(***************************************************************************)
EXTENDS Modapp, TLAPS

\* Runs that have not begun have no tasks, tasks that have not run no objects,
\* and a Server that is being bound cannot be closed.
Tasks ==
  /\ run = 0 <=> phase = "idle"
  /\ \A k \in Run, t \in Transport :
       /\ k > run => task[k][t] = "none"
       /\ ref[t] = k => task[k][t] \notin {"none", "ready"}
       /\ task[k][t] \in {"none", "ready"} => object[k][t] = "none"
       /\ task[k][t] = "awaiting" => object[k][t] = "created" /\ Kind[t] = "grpc"

\* The ready queue is first in, first out over all runs.
Queue ==
  \A j, k \in Run, t, u \in Transport :
    j < k /\ task[k][t] \notin {"none", "ready"} => task[j][u] # "ready"

\* What a transport has set up in the latest run is what it keeps, until it is
\* stopped; a stop() cut short behind close() leaves it closed.
KeptByLatest ==
  \A k \in Run, t \in Transport : k = run =>
    /\ task[k][t] = "done" =>
         \/ ref[t] = None
         \/ ref[t] = k /\ object[k][t] = "up"
         \/ ref[t] = k /\ object[k][t] = "closed" /\ t \in torn
    /\ phase \in {"starting", "running"} /\ task[k][t] \in {"done", "awaiting"} =>
         ref[t] = k
    /\ phase = "running" => task[k][t] = "done"

\* One listener at a time, and a web_socketify transport keeps its listener.
Listeners ==
  \A k \in Run, t \in Transport : object[k][t] = "up" =>
    /\ Kind[t] = "web_socketify" => ref[t] = k
    /\ Kind[t] = "grpc" => \A j \in Run : object[j][t] = "up" => j = k

\* Every run has begun with nothing left of the ones before it.
Clean ==
  ~dirty => \A k \in Run, t \in Transport :
    /\ k < run => task[k][t] \notin {"ready", "awaiting"}
    /\ task[k][t] = "ready" => ref[t] = None
    /\ task[k][t] = "awaiting" => ref[t] = k
    /\ Listening(k, t) => ref[t] = k

\* stop() goes from transport to transport, and none is torn before it.
Stopped ==
  /\ phase \in {"starting", "running"} => torn = {}
  /\ \A t \in Transport :
       /\ phase = "stopping" /\ t \notin toStop => ref[t] = None
       /\ phase = "returned" => ref[t] = None

Inv ==
  /\ TypeOK
  /\ Tasks /\ Queue
  /\ KeptByLatest /\ Listeners
  /\ Clean /\ Stopped

-----------------------------------------------------------------------------
\* Runs count from one.
LEMMA RunIsNat == Run \subseteq Nat /\ \A k \in Run : k # None /\ k <= MaxRuns
BY TransportAssumption DEF Run, None

\* Nothing has been started in the initial state.
LEMMA InitInv == Init => Inv
<1> SUFFICES ASSUME Init PROVE Inv
  OBVIOUS
<1>1. TypeOK
  <2>1. 0 \in 0..MaxRuns
    BY TransportAssumption
  <2> QED BY <2>1 DEF Init, TypeOK, Phases, TaskStates, ObjectStates, None
<1>2. Tasks /\ Queue /\ Listeners /\ Stopped
  BY RunIsNat DEF Init, Tasks, Queue, Listeners, Stopped
<1>3. KeptByLatest
  BY RunIsNat DEF Init, KeptByLatest, None
<1>4. Clean
  BY RunIsNat DEF Init, Clean, Listening
<1> QED BY <1>1, <1>2, <1>3, <1>4 DEF Inv

-----------------------------------------------------------------------------
\* What a step of a start() coroutine does: the first step sets up an object,
\* a bind succeeds, or the coroutine fails and leaves everything as it is.
Advances(k, t, ts, os, kept) ==
  /\ \A j \in Run, u \in Transport :
       /\ task'[j][u] = IF j = k /\ u = t THEN ts ELSE task[j][u]
       /\ object'[j][u] = IF j = k /\ u = t THEN os ELSE object[j][u]
  /\ \A u \in Transport : ref'[u] = IF u = t THEN kept ELSE ref[u]
  /\ phase \in {"starting", "running"}
  /\ UNCHANGED <<phase, run, toStop, dirty, torn>>
  /\ task[k][t] = "ready" =>
       \A j \in Run, u \in Transport : j < k => task[j][u] # "ready"
  /\ \/ /\ task[k][t] = "ready"
        /\ kept = k
        /\ Kind[t] = "web_socketify" => ref[t] = None
        /\ \/ ts = "done" /\ os = "up" /\ Kind[t] # "grpc"
           \/ ts = "awaiting" /\ os = "created" /\ Kind[t] = "grpc"
           \/ ts = "failed" /\ os = "created"
     \/ /\ task[k][t] = "awaiting"
        /\ kept = ref[t]
        /\ ts = "done" /\ os = "up"
        /\ PortIsFree(t)
     \/ /\ task[k][t] \in {"ready", "awaiting"}
        /\ kept = ref[t]
        /\ ts = "failed" /\ os = object[k][t]

\* A step of a coroutine changes its task and its object, nothing else.
LEMMA ProgressEffect ==
  ASSUME TypeOK, NEW k \in Run, NEW t \in Transport, NEW ts \in TaskStates,
         NEW os \in ObjectStates, Progress(k, t, ts, os)
  PROVE  /\ task' \in [Run -> [Transport -> TaskStates]]
         /\ object' \in [Run -> [Transport -> ObjectStates]]
         /\ \A j \in Run, u \in Transport :
              /\ task'[j][u] = IF j = k /\ u = t THEN ts ELSE task[j][u]
              /\ object'[j][u] = IF j = k /\ u = t THEN os ELSE object[j][u]
         /\ UNCHANGED <<phase, run, toStop, busy, interrupted, dirty, torn>>
<1>1. task' = [task EXCEPT ![k][t] = ts] /\ task \in [Run -> [Transport -> TaskStates]]
  BY DEF Progress, TypeOK
<1>2. object' = [object EXCEPT ![k][t] = os]
      /\ object \in [Run -> [Transport -> ObjectStates]]
  BY DEF Progress, TypeOK
<1>3. \A j \in Run, u \in Transport :
        task'[j][u] = IF j = k /\ u = t THEN ts ELSE task[j][u]
  BY <1>1
<1>4. \A j \in Run, u \in Transport :
        object'[j][u] = IF j = k /\ u = t THEN os ELSE object[j][u]
  BY <1>2
<1>5. task' \in [Run -> [Transport -> TaskStates]]
  BY <1>1
<1>6. object' \in [Run -> [Transport -> ObjectStates]]
  BY <1>2
<1> QED BY <1>3, <1>4, <1>5, <1>6 DEF Progress

Ends(k, t, ts, os, kept) ==
  /\ ref' = [ref EXCEPT ![t] = kept]
  /\ kept \in 0..MaxRuns
  /\ ts \in TaskStates /\ os \in ObjectStates
  /\ Progress(k, t, ts, os)

\* The same together with what the transport keeps.
LEMMA EndsEffect ==
  ASSUME TypeOK, NEW k \in Run, NEW t \in Transport, NEW ts, NEW os, NEW kept,
         Ends(k, t, ts, os, kept)
  PROVE  /\ TypeOK'
         /\ \A j \in Run, u \in Transport :
              /\ task'[j][u] = IF j = k /\ u = t THEN ts ELSE task[j][u]
              /\ object'[j][u] = IF j = k /\ u = t THEN os ELSE object[j][u]
         /\ \A u \in Transport : ref'[u] = IF u = t THEN kept ELSE ref[u]
         /\ UNCHANGED <<phase, run, toStop, dirty, torn>>
<1>1. /\ task' \in [Run -> [Transport -> TaskStates]]
      /\ object' \in [Run -> [Transport -> ObjectStates]]
      /\ \A j \in Run, u \in Transport :
           /\ task'[j][u] = IF j = k /\ u = t THEN ts ELSE task[j][u]
           /\ object'[j][u] = IF j = k /\ u = t THEN os ELSE object[j][u]
      /\ UNCHANGED <<phase, run, toStop, busy, interrupted, dirty, torn>>
  BY ProgressEffect DEF Ends
<1>2. ref' \in [Transport -> 0..MaxRuns]
  BY DEF TypeOK, Ends
<1>3. \A u \in Transport : ref'[u] = IF u = t THEN kept ELSE ref[u]
  BY DEF TypeOK, Ends
<1>4. TypeOK'
  BY <1>1, <1>2 DEF TypeOK
<1> QED BY <1>1, <1>3, <1>4

\* The six steps of the three kinds of start() are such steps.
LEMMA StartEffect ==
  ASSUME TypeOK, Tasks, NEW k \in Run, NEW t \in Transport, StartStep(k, t)
  PROVE  /\ TypeOK'
         /\ \E ts, os, kept : Advances(k, t, ts, os, kept)
<1>0. /\ k \in 0..MaxRuns /\ ref[t] \in 0..MaxRuns
      /\ object[k][t] \in ObjectStates
      /\ UNCHANGED ref => ref' = [ref EXCEPT ![t] = ref[t]]
  BY RunIsNat, TransportAssumption DEF TypeOK, Run
<1>1. ASSUME FirstStep(k, t)
      PROVE  /\ phase \in {"starting", "running"}
             /\ task[k][t] = "ready"
             /\ \A j \in Run, u \in Transport : j < k => task[j][u] # "ready"
  BY <1>1, RunIsNat DEF FirstStep, LoopRuns, Run
<1>2. CASE StartInMemory(k, t)
  <2>1. Ends(k, t, "done", "up", k)
    BY <1>0, <1>2 DEF StartInMemory, TaskStates, ObjectStates, Ends
  <2>2. TypeOK' /\ Advances(k, t, "done", "up", k)
    BY <1>1, <1>2, <2>1, EndsEffect DEF StartInMemory, Advances
  <2> QED BY <2>2
<1>3. CASE StartGrpc(k, t)
  <2>1. PICK ts \in {"awaiting", "failed"} : Ends(k, t, ts, "created", k)
    BY <1>0, <1>3 DEF StartGrpc, TaskStates, ObjectStates, Ends
  <2>2. TypeOK' /\ Advances(k, t, ts, "created", k)
    BY <1>1, <1>3, <2>1, EndsEffect DEF StartGrpc, Advances
  <2> QED BY <2>2
<1>4. CASE GrpcBinds(k, t)
  <2>1. Ends(k, t, "done", "up", ref[t])
    BY <1>0, <1>4 DEF GrpcBinds, TaskStates, ObjectStates, Ends
  <2>2. TypeOK' /\ Advances(k, t, "done", "up", ref[t])
    BY <1>4, <2>1, EndsEffect DEF GrpcBinds, LoopRuns, Advances
  <2> QED BY <2>2
<1>5. CASE GrpcBindFails(k, t)
  <2>1. Ends(k, t, "failed", object[k][t], ref[t])
    BY <1>0, <1>5 DEF GrpcBindFails, TaskStates, Ends
  <2>2. TypeOK' /\ Advances(k, t, "failed", object[k][t], ref[t])
    BY <1>5, <2>1, EndsEffect DEF GrpcBindFails, LoopRuns, Advances
  <2> QED BY <2>2
<1>6. CASE StartWebRefused(k, t)
  <2>1. Ends(k, t, "failed", object[k][t], ref[t])
    BY <1>0, <1>6 DEF StartWebRefused, TaskStates, Ends
  <2>2. TypeOK' /\ Advances(k, t, "failed", object[k][t], ref[t])
    BY <1>1, <1>6, <2>1, EndsEffect DEF StartWebRefused, Advances
  <2> QED BY <2>2
<1>7. CASE StartWeb(k, t)
  <2>1. CASE Progress(k, t, "done", "up")
    <3>1. Ends(k, t, "done", "up", k)
      BY <1>0, <1>7, <2>1 DEF StartWeb, TaskStates, ObjectStates, Ends
    <3>2. TypeOK' /\ Advances(k, t, "done", "up", k)
      BY <1>1, <1>7, <3>1, EndsEffect DEF StartWeb, Advances
    <3> QED BY <3>2
  <2>2. CASE Progress(k, t, "failed", "created")
    <3>1. Ends(k, t, "failed", "created", k)
      BY <1>0, <1>7, <2>2 DEF StartWeb, TaskStates, ObjectStates, Ends
    <3>2. TypeOK' /\ Advances(k, t, "failed", "created", k)
      BY <1>1, <1>7, <3>1, EndsEffect DEF StartWeb, Advances
    <3> QED BY <3>2
  <2> QED BY <1>7, <2>1, <2>2 DEF StartWeb
<1> QED BY <1>2, <1>3, <1>4, <1>5, <1>6, <1>7 DEF StartStep

\* Such a step keeps the invariant.
LEMMA AdvanceInv ==
  ASSUME Inv, TypeOK', NEW k \in Run, NEW t \in Transport, NEW ts, NEW os, NEW kept,
         Advances(k, t, ts, os, kept)
  PROVE  Inv'
<1> USE RunIsNat
<1>0. /\ TypeOK /\ run \in Nat /\ k \in Nat
      /\ UNCHANGED <<phase, run, toStop, dirty, torn>>
      /\ phase \in {"starting", "running"}
  BY TransportAssumption DEF Inv, TypeOK, Advances
<1>1. Tasks'
  BY <1>0 DEF Inv, Tasks, Advances
<1>2. Queue'
  <2>1. \A j \in Run, u \in Transport :
          task'[j][u] = IF j = k /\ u = t THEN ts ELSE task[j][u]
    BY DEF Advances
  <2>2. /\ ts \notin {"none", "ready"}
        /\ task[k][t] \in {"ready", "awaiting"}
        /\ task[k][t] = "ready" =>
             \A j \in Run, u \in Transport : j < k => task[j][u] # "ready"
    BY DEF Advances
  <2> QED BY <2>1, <2>2 DEF Inv, Queue
<1>3. KeptByLatest'
  BY <1>0 DEF Inv, Tasks, Queue, KeptByLatest, Advances
<1>4. Listeners'
  <2> SUFFICES ASSUME NEW j \in Run, NEW u \in Transport, object'[j][u] = "up"
               PROVE  /\ Kind[u] = "web_socketify" => ref'[u] = j
                      /\ Kind[u] = "grpc" => \A i \in Run : object'[i][u] = "up" => i = j
    BY DEF Listeners
  <2>1. CASE u # t
    <3>1. ref'[u] = ref[u] /\ \A i \in Run : object'[i][u] = object[i][u]
      BY <2>1 DEF Advances
    <3> QED BY <3>1 DEF Inv, Listeners
  <2>2. CASE u = t
    <3>1. \A i \in Run : i # k => object'[i][t] = object[i][t]
      BY DEF Advances
    <3>2. object'[k][t] = os /\ ref'[t] = kept
      BY DEF Advances
    <3>3. object[k][t] # "up"
      BY DEF Inv, Tasks, Advances
    <3>4. Kind[t] = "web_socketify" => ref'[t] = j
      <4>1. CASE task[k][t] = "ready" /\ kept = k /\ (Kind[t] = "web_socketify" => ref[t] = None)
        BY <2>2, <3>1, <3>2, <3>3, <4>1 DEF Inv, Listeners
      <4>2. CASE task[k][t] = "awaiting"
        BY <2>2, <3>1, <3>2, <3>3, <4>2 DEF Inv, Tasks, Listeners, Advances
      <4>3. CASE kept = ref[t] /\ os = object[k][t]
        BY <2>2, <3>1, <3>2, <3>3, <4>3 DEF Inv, Listeners
      <4> QED BY <4>1, <4>2, <4>3 DEF Advances
    <3>5. ASSUME Kind[t] = "grpc", NEW i \in Run, object'[i][t] = "up" PROVE i = j
      <4>1. CASE os = "up"
        <5>1. \A n \in Run : object[n][t] # "up"
          BY <3>3, <3>5, <4>1 DEF Advances, PortIsFree
        <5> QED BY <2>2, <3>1, <3>5, <5>1
      <4>2. CASE os # "up"
        <5>1. i # k /\ j # k
          BY <2>2, <3>2, <3>5, <4>2
        <5>2. object[i][t] = "up" /\ object[j][t] = "up"
          BY <2>2, <3>1, <3>5, <5>1
        <5> QED BY <3>5, <5>2 DEF Inv, Listeners
      <4> QED BY <4>1, <4>2
    <3> QED BY <2>2, <3>4, <3>5
  <2> QED BY <2>1, <2>2
<1>5. Clean'
  BY <1>0 DEF Inv, Tasks, Queue, Clean, Advances, Listening
<1>6. Stopped'
  BY <1>0 DEF Inv, Stopped
<1> QED BY <1>1, <1>2, <1>3, <1>4, <1>5, <1>6 DEF Inv

-----------------------------------------------------------------------------
\* run() begins with coroutines that have not run and keep nothing.
LEMMA CallRunInv ==
  ASSUME Inv, CallRun PROVE Inv'
<1> USE RunIsNat
<1>0. /\ TypeOK /\ run \in Nat /\ run + 1 \in Run
      /\ run' = run + 1 /\ phase' = "starting"
      /\ UNCHANGED <<object, ref, toStop>> /\ torn' = {}
  BY TransportAssumption DEF Inv, TypeOK, CallRun, Run
<1>1. \A j \in Run, u \in Transport :
        task'[j][u] = IF j = run + 1 THEN "ready" ELSE task[j][u]
  BY <1>0 DEF CallRun, TypeOK
<1>2. TypeOK'
  <2>1. task' \in [Run -> [Transport -> TaskStates]]
    BY <1>0 DEF CallRun, TypeOK, TaskStates
  <2>2. run' \in 0..MaxRuns
    BY <1>0, TransportAssumption DEF Run
  <2>3. dirty' \in BOOLEAN /\ interrupted' \in BOOLEAN /\ busy' \in BOOLEAN
    BY <1>0 DEF CallRun, TypeOK
  <2> QED BY <1>0, <2>1, <2>2, <2>3 DEF TypeOK, Phases
<1>3. Tasks'
  <2>1. run' # 0 /\ phase' # "idle"
    BY <1>0
  <2>2. ASSUME NEW j \in Run, NEW u \in Transport
        PROVE  /\ j > run' => task'[j][u] = "none"
               /\ ref'[u] = j => task'[j][u] \notin {"none", "ready"}
               /\ task'[j][u] \in {"none", "ready"} => object'[j][u] = "none"
               /\ task'[j][u] = "awaiting" => object'[j][u] = "created" /\ Kind[u] = "grpc"
    <3>1. CASE j = run + 1
      <4>1. j > run /\ task[j][u] = "none"
        BY <1>0, <3>1 DEF Inv, Tasks
      <4>2. ref[u] # j /\ object[j][u] = "none"
        BY <4>1 DEF Inv, Tasks
      <4>3. task'[j][u] = "ready" /\ ~(j > run')
        BY <1>0, <1>1, <3>1
      <4> QED BY <1>0, <4>2, <4>3
    <3>2. CASE j # run + 1
      <4>0. j > run' => j > run
        BY <1>0
      <4>1. task'[j][u] = task[j][u]
        BY <1>1, <3>2
      <4>2. /\ j > run => task[j][u] = "none"
            /\ ref[u] = j => task[j][u] \notin {"none", "ready"}
            /\ task[j][u] \in {"none", "ready"} => object[j][u] = "none"
            /\ task[j][u] = "awaiting" => object[j][u] = "created" /\ Kind[u] = "grpc"
        BY DEF Inv, Tasks
      <4>3. ref'[u] = ref[u] /\ object'[j][u] = object[j][u]
        BY <1>0
      <4> QED BY <4>0, <4>1, <4>2, <4>3
    <3> QED BY <3>1, <3>2
  <2> QED BY <2>1, <2>2 DEF Tasks
<1>4. Queue'
  BY <1>0, <1>1 DEF Inv, Tasks, Queue
<1>5. KeptByLatest'
  BY <1>0, <1>1 DEF KeptByLatest
<1>6. Listeners'
  BY <1>0 DEF Inv, Listeners
<1>7. Clean'
  <2> SUFFICES ASSUME ~dirty'
               PROVE  Clean'
    BY DEF Clean
  <2>1. ~dirty /\ ~Remains
    BY DEF CallRun
  <2>2. \A j \in Run, u \in Transport :
          ref[u] = None /\ task[j][u] \notin {"ready", "awaiting"}
    BY <2>1 DEF Remains
  <2>3. \A j \in Run, u \in Transport : Listening(j, u)' = Listening(j, u)
    BY <1>0 DEF Listening
  <2> QED BY <1>0, <1>1, <2>1, <2>2, <2>3 DEF Inv, Tasks, Clean
<1>8. Stopped'
  BY <1>0 DEF Stopped
<1> QED BY <1>2, <1>3, <1>4, <1>5, <1>6, <1>7, <1>8 DEF Inv

\* The steps of the main thread that touch no transport.
ThreadStep ==
  /\ UNCHANGED <<run, task, object, ref, dirty, torn>>
  /\ busy' \in BOOLEAN /\ interrupted' \in BOOLEAN
  /\ \/ UNCHANGED <<phase, toStop>>
     \/ phase = "starting" /\ AllStarted /\ phase' = "running" /\ UNCHANGED toStop
     \/ phase \in {"starting", "stopping"} /\ phase' = "raised" /\ toStop' \subseteq Transport
     \/ run # 0 /\ phase' = "stopping" /\ toStop' = Transport
     \/ phase = "stopping" /\ toStop = {} /\ phase' = "returned" /\ UNCHANGED toStop

\* run_forever, SIGINT, handlers and the frame of stop() are such steps.
LEMMA ThreadEffect ==
  ASSUME TypeOK, Tasks,
         \/ RunAsync \/ HandlerResumes \/ HandlerAwaits
         \/ InterruptLoop \/ InterruptHandler \/ InterruptElsewhere
         \/ CallStop \/ StopReturns
         \/ \E t \in Transport : StopTransportRaises(t)
  PROVE  ThreadStep
<1>0. busy \in BOOLEAN /\ interrupted \in BOOLEAN /\ toStop \subseteq Transport
  BY DEF TypeOK
<1>1. CASE RunAsync
  BY <1>0, <1>1 DEF RunAsync, RunAsyncReturns, RunAsyncRaises, ThreadStep
<1>2. CASE HandlerResumes \/ HandlerAwaits \/ InterruptHandler
  BY <1>0, <1>2 DEF HandlerResumes, HandlerAwaits, InterruptHandler, ThreadStep
<1>3. CASE InterruptLoop
  <2>1. run # 0
    BY <1>3 DEF InterruptLoop, Tasks
  <2> QED BY <1>0, <1>3, <2>1 DEF InterruptLoop, BeginStop, ThreadStep
<1>4. CASE InterruptElsewhere
  BY <1>0, <1>4 DEF InterruptElsewhere, ThreadStep
<1>5. CASE CallStop
  <2>1. run # 0
    BY <1>5, TransportAssumption DEF CallStop, TypeOK
  <2> QED BY <1>0, <1>5, <2>1 DEF CallStop, BeginStop, ThreadStep
<1>6. CASE StopReturns
  BY <1>0, <1>6 DEF StopReturns, ThreadStep
<1>7. CASE \E t \in Transport : StopTransportRaises(t)
  BY <1>0, <1>7 DEF StopTransportRaises, ThreadStep
<1> QED BY <1>1, <1>2, <1>3, <1>4, <1>5, <1>6, <1>7

\* They keep the invariant.
LEMMA ThreadInv ==
  ASSUME Inv, ThreadStep PROVE Inv'
<1> USE RunIsNat
<1>0. /\ TypeOK /\ UNCHANGED <<run, task, object, ref, dirty, torn>>
  BY DEF Inv, ThreadStep
<1>1. TypeOK'
  BY <1>0 DEF ThreadStep, TypeOK, Phases
<1>2. Tasks'
  <2>1. run' = 0 <=> phase' = "idle"
    BY <1>0 DEF Inv, ThreadStep, Tasks
  <2> QED BY <1>0, <2>1 DEF Inv, Tasks
<1>3. Queue'
  BY <1>0 DEF Inv, Queue
<1>4. KeptByLatest'
  BY <1>0 DEF Inv, ThreadStep, KeptByLatest, AllStarted
<1>5. Clean'
  BY <1>0 DEF Inv, Clean, Listening
<1>6. Stopped'
  BY <1>0 DEF Inv, ThreadStep, Stopped
<1>7. Listeners'
  BY <1>0 DEF Inv, Listeners
<1> QED BY <1>1, <1>2, <1>3, <1>4, <1>5, <1>6, <1>7 DEF Inv

\* transport.stop() closes the object the transport keeps and drops it.
LEMMA StopTransportInv ==
  ASSUME Inv, NEW t \in Transport, StopTransport(t) PROVE Inv'
<1> USE RunIsNat
<1>0. /\ TypeOK /\ phase = "stopping"
      /\ UNCHANGED <<phase, run, task, busy, interrupted, dirty, torn>>
      /\ ref[t] \in 0..MaxRuns
  BY DEF Inv, TypeOK, StopTransport
<1>1. ref[t] # None => ref[t] \in Run
  BY <1>0, TransportAssumption DEF Run, None
<1>2. \A u \in Transport : ref'[u] = IF u = t THEN None ELSE ref[u]
  BY <1>0 DEF TypeOK, StopTransport
<1>3. \A j \in Run, u \in Transport :
        object'[j][u] = IF j = ref[t] /\ u = t THEN "closed" ELSE object[j][u]
  <2>1. CASE ref[t] = None
    BY <2>1 DEF StopTransport
  <2>2. CASE ref[t] # None
    <3>1. object' = [object EXCEPT ![ref[t]][t] = "closed"]
      BY <2>2 DEF StopTransport
    <3> QED BY <1>0, <1>1, <2>2, <3>1 DEF TypeOK
  <2> QED BY <2>1, <2>2
<1>4. ASSUME NEW j \in Run, ref[t] = j PROVE task[j][t] \notin {"none", "ready", "awaiting"}
  <2>1. ~CloseRaises(t) /\ ref[t] # None
    BY <1>4 DEF StopTransport
  <2> QED BY <1>4, <2>1 DEF Inv, Tasks, CloseRaises, Kept
<1>5. TypeOK'
  <2>1. ref' \in [Transport -> 0..MaxRuns]
    BY <1>0, TransportAssumption DEF TypeOK, StopTransport, None
  <2>2. object' \in [Run -> [Transport -> ObjectStates]]
    <3>1. CASE ref[t] = None
      BY <1>0, <3>1 DEF StopTransport, TypeOK
    <3>2. CASE ref[t] # None
      <4>1. object' = [object EXCEPT ![ref[t]][t] = "closed"]
        BY <3>2 DEF StopTransport
      <4> QED BY <1>0, <1>1, <3>2, <4>1 DEF TypeOK, ObjectStates
    <3> QED BY <3>1, <3>2
  <2>3. toStop' \in SUBSET Transport
    BY <1>0 DEF TypeOK, StopTransport
  <2> QED BY <1>0, <2>1, <2>2, <2>3 DEF TypeOK
<1>6. Tasks'
  BY <1>0, <1>2, <1>3, <1>4 DEF Inv, Tasks
<1>7. Queue'
  BY <1>0 DEF Inv, Queue
<1>8. KeptByLatest'
  <2> SUFFICES ASSUME NEW j \in Run, NEW u \in Transport, j = run, task[j][u] = "done"
               PROVE  \/ ref'[u] = None
                      \/ ref'[u] = j /\ object'[j][u] = "up"
                      \/ ref'[u] = j /\ object'[j][u] = "closed" /\ u \in torn
    BY <1>0 DEF KeptByLatest
  <2>1. \/ ref[u] = None
        \/ ref[u] = j /\ object[j][u] = "up"
        \/ ref[u] = j /\ object[j][u] = "closed" /\ u \in torn
    BY DEF Inv, KeptByLatest
  <2>2. CASE u = t
    BY <1>2, <2>2
  <2>3. CASE u # t
    BY <1>2, <1>3, <2>1, <2>3
  <2> QED BY <2>2, <2>3
<1>9. Listeners'
  <2> SUFFICES ASSUME NEW j \in Run, NEW u \in Transport, object'[j][u] = "up"
               PROVE  /\ Kind[u] = "web_socketify" => ref'[u] = j
                      /\ Kind[u] = "grpc" => \A i \in Run : object'[i][u] = "up" => i = j
    BY DEF Listeners
  <2>1. \A i \in Run : object'[i][u] = "up" => object[i][u] = "up" /\ ~(i = ref[t] /\ u = t)
    BY <1>3
  <2>2. Kind[u] = "web_socketify" => ref'[u] = j
    BY <1>2, <2>1 DEF Inv, Listeners
  <2>3. Kind[u] = "grpc" => \A i \in Run : object'[i][u] = "up" => i = j
    BY <2>1 DEF Inv, Listeners
  <2> QED BY <2>2, <2>3
<1>10. Clean'
  <2> SUFFICES ASSUME ~dirty, NEW j \in Run, NEW u \in Transport
               PROVE  /\ j < run => task[j][u] \notin {"ready", "awaiting"}
                      /\ task[j][u] = "ready" => ref'[u] = None
                      /\ task[j][u] = "awaiting" => ref'[u] = j
                      /\ Listening(j, u)' => ref'[u] = j
    BY <1>0 DEF Clean
  <2>1. /\ j < run => task[j][u] \notin {"ready", "awaiting"}
        /\ task[j][u] = "ready" => ref[u] = None
        /\ task[j][u] = "awaiting" => ref[u] = j
        /\ Listening(j, u) => ref[u] = j
    BY DEF Inv, Clean
  <2>2. CASE u = t
    <3>1. Listening(j, u)' => Listening(j, u) /\ ref[u] # j
      BY <1>3, <2>2 DEF Listening
    <3> QED BY <1>2, <1>4, <2>1, <2>2, <3>1
  <2>3. CASE u # t
    <3>1. ref'[u] = ref[u] /\ (Listening(j, u)' => Listening(j, u))
      BY <1>2, <1>3, <2>3 DEF Listening
    <3> QED BY <2>1, <3>1
  <2> QED BY <2>2, <2>3
<1>11. Stopped'
  BY <1>0, <1>2 DEF Inv, Stopped, StopTransport
<1> QED BY <1>5, <1>6, <1>7, <1>8, <1>9, <1>10, <1>11 DEF Inv

\* SIGINT behind close() leaves the closed object where it was.
LEMMA InterruptCloseInv ==
  ASSUME Inv, NEW t \in Transport, InterruptClose(t) PROVE Inv'
<1> USE RunIsNat
<1>0. /\ TypeOK /\ phase = "stopping" /\ phase' = "raised"
      /\ UNCHANGED <<run, task, ref, busy, dirty>>
      /\ torn' = torn \cup {t}
  BY DEF Inv, InterruptClose
<1>1. ref[t] \in Run
  BY <1>0, TransportAssumption DEF TypeOK, InterruptClose, Run, None
<1>2. \A j \in Run, u \in Transport :
        object'[j][u] = IF j = ref[t] /\ u = t THEN "closed" ELSE object[j][u]
  BY <1>0, <1>1 DEF TypeOK, InterruptClose
<1>3. task[ref[t]][t] \notin {"none", "ready", "awaiting"}
  BY <1>1 DEF Inv, Tasks, InterruptClose, CloseRaises, Kept
<1>4. TypeOK'
  <2>1. object' \in [Run -> [Transport -> ObjectStates]]
    BY <1>0, <1>1 DEF TypeOK, InterruptClose, ObjectStates
  <2>2. torn' \in SUBSET Transport /\ toStop' \in SUBSET Transport
    BY <1>0 DEF TypeOK, InterruptClose
  <2>3. phase' \in Phases /\ interrupted' \in BOOLEAN
    BY <1>0 DEF InterruptClose, Phases
  <2> QED BY <1>0, <2>1, <2>2, <2>3 DEF TypeOK
<1>5. Tasks'
  <2>1. run' = 0 <=> phase' = "idle"
    BY <1>0 DEF Inv, Tasks
  <2>2. \A j \in Run, u \in Transport : object'[j][u] # object[j][u] => j = ref[t] /\ u = t
    BY <1>2
  <2> QED BY <1>0, <1>3, <2>1, <2>2 DEF Inv, Tasks
<1>6. Queue'
  BY <1>0 DEF Inv, Queue
<1>7. KeptByLatest'
  BY <1>0, <1>2 DEF Inv, KeptByLatest
<1>8. Listeners'
  <2>1. \A j \in Run, u \in Transport : object'[j][u] = "up" => object[j][u] = "up"
    BY <1>2
  <2> QED BY <1>0, <2>1 DEF Inv, Listeners
<1>9. Clean'
  <2>1. \A j \in Run, u \in Transport : Listening(j, u)' => Listening(j, u)
    BY <1>2 DEF Listening
  <2> QED BY <1>0, <2>1 DEF Inv, Clean
<1>10. Stopped'
  BY <1>0 DEF Stopped
<1> QED BY <1>4, <1>5, <1>6, <1>7, <1>8, <1>9, <1>10 DEF Inv

\* Every step of the server keeps the invariant.
LEMMA StepInv == Inv /\ [Next]_vars => Inv'
<1> SUFFICES ASSUME Inv, [Next]_vars PROVE Inv'
  OBVIOUS
<1>0. TypeOK /\ Tasks
  BY DEF Inv
<1>1. CASE CallRun
  BY <1>1, CallRunInv
<1>2. ASSUME NEW k \in Run, NEW t \in Transport, StartStep(k, t) PROVE Inv'
  BY <1>0, <1>2, StartEffect, AdvanceInv
<1>3. CASE \/ RunAsync \/ HandlerResumes \/ HandlerAwaits
           \/ InterruptLoop \/ InterruptHandler \/ InterruptElsewhere
           \/ CallStop \/ StopReturns
           \/ \E t \in Transport : StopTransportRaises(t)
  BY <1>0, <1>3, ThreadEffect, ThreadInv
<1>4. ASSUME NEW t \in Transport, StopTransport(t) PROVE Inv'
  BY <1>4, StopTransportInv
<1>5. CASE UNCHANGED vars
  BY <1>0, <1>5, ThreadInv DEF vars, ThreadStep, TypeOK
<1>6. ASSUME NEW t \in Transport, InterruptClose(t) PROVE Inv'
  BY <1>6, InterruptCloseInv
<1> QED BY <1>1, <1>2, <1>3, <1>4, <1>5, <1>6 DEF Next, StopStep

\* Tasks, objects and what the transports keep always fit together, over any
\* number of runs that fail, are interrupted, stopped and run again.
THEOREM Invariance == Spec => []Inv
BY InitInv, StepInv, PTL DEF Spec

\* While run_forever serves, every transport keeps and has up what start() of
\* this run set up, whatever was left of earlier runs (RunningServesThisRun).
THEOREM ServesThisRun == Spec => []RunningServesThisRun
<1>1. Inv => RunningServesThisRun
  <2> SUFFICES ASSUME Inv, phase = "running", NEW t \in Transport
               PROVE  ref[t] = run /\ object[run][t] = "up"
    BY DEF RunningServesThisRun
  <2>1. run \in Run
    BY TransportAssumption DEF Inv, TypeOK, Tasks, Run
  <2>2. task[run][t] = "done" /\ ref[t] = run /\ torn = {}
    BY <2>1 DEF Inv, KeptByLatest, Stopped
  <2> QED BY <2>1, <2>2, RunIsNat DEF Inv, KeptByLatest
<1> QED BY <1>1, Invariance, PTL

\* Nothing of another run listens while the server runs (RunningHasNoOrphan).
THEOREM NoOrphanWhileRunning == Spec => []RunningHasNoOrphan
<1>1. Inv => RunningHasNoOrphan
  <2> SUFFICES ASSUME Inv, phase = "running",
                      NEW k \in Run, NEW t \in Transport, Listening(k, t)
               PROVE  k = run
    BY DEF RunningHasNoOrphan
  <2>1. run \in Run
    BY TransportAssumption DEF Inv, TypeOK, Tasks, Run
  <2>2. task[run][t] = "done" /\ ref[t] = run /\ torn = {}
    BY <2>1 DEF Inv, KeptByLatest, Stopped
  <2>3. object[run][t] = "up"
    BY <2>1, <2>2, RunIsNat DEF Inv, KeptByLatest
  <2>4. Kind[t] \in {"grpc", "web_socketify"}
    BY TransportAssumption DEF Listening, Kinds
  <2> QED BY <2>1, <2>2, <2>3, <2>4 DEF Inv, Listeners, Listening
<1> QED BY <1>1, Invariance, PTL

\* A listener out of reach of stop() takes a run() over the remains of another
\* (NoOrphanListener).
THEOREM OrphansNeedRemains == Spec => []NoOrphanListener
<1>1. Inv => NoOrphanListener
  BY DEF Inv, Clean, NoOrphanListener
<1> QED BY <1>1, Invariance, PTL

\* A stop() that returns has released what every transport kept
\* (StopReleasesAll).
THEOREM StopReleases == Spec => []StopReleasesAll
<1>1. Inv => StopReleasesAll
  BY RunIsNat DEF Inv, Stopped, Clean, StopReleasesAll
<1> QED BY <1>1, Invariance, PTL

\* After a start-up that succeeded stop() meets no server that was never started,
\* however often it is interrupted, at any point, and called again: what it closes
\* is up, or was closed by a stop() that SIGINT cut short behind close()
\* (StartedServerCanStop).
THEOREM StartedCanStop == Spec => []StartedServerCanStop
<1>1. Inv => StartedServerCanStop
  <2> SUFFICES ASSUME Inv, phase = "stopping", AllStarted, NEW t \in toStop
               PROVE  Kept(t) \in {"none", "up"} \/ (Kept(t) = "closed" /\ t \in torn)
    BY DEF StartedServerCanStop
  <2>1. run \in Run /\ t \in Transport
    BY TransportAssumption DEF Inv, TypeOK, Tasks, Run
  <2>2. task[run][t] = "done"
    BY <2>1 DEF AllStarted
  <2> QED BY <2>1, <2>2 DEF Inv, KeptByLatest, Kept
<1> QED BY <1>1, Invariance, PTL
=============================================================================
