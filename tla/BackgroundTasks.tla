--------------------------- MODULE BackgroundTasks ---------------------------
(***************************************************************************)
(* BackgroundTasks: a list of tasks and a __call__ that awaits them one    *)
(* after the other.  The list is shared: tasks may be added while a call   *)
(* is under way, by a task of it too, and the tasks may be called again,   *)
(* also before an earlier call is over; it is never cleared.               *)
(*                                                                         *)
(* A task that is no coroutine function runs in a worker thread of anyio   *)
(* (external), an optional dependency.  The coroutine of a call may be     *)
(* cancelled; the thread goes on then.                                     *)
(***************************************************************************)
EXTENDS Naturals, Sequences

CONSTANTS
  Call,         \* calls of BackgroundTasks
  InitialTasks, \* argument of the constructor
  MaxTasks      \* bound on the length of the list

\* BackgroundTask.is_async
Kinds == {"async", "sync"}

ASSUME TasksAssumption ==
  /\ InitialTasks \in Seq(Kinds)
  /\ MaxTasks \in Nat

VARIABLES
  tasks,      \* BackgroundTasks.tasks
  anyio,      \* anyio could be imported
  status,     \* status[k] of call k
  next,       \* next[k]: position of the iterator of its for loop
  executing,  \* executing[k]: tasks being executed for it
  ran         \* ran[k]: tasks executed to their end for it, in order

vars == <<tasks, anyio, status, next, executing, ran>>

Statuses == {"idle", "running", "returned", "raised"}

TypeOK ==
  /\ tasks \in Seq(Kinds)
  /\ anyio \in BOOLEAN
  /\ status \in [Call -> Statuses]
  /\ next \in [Call -> Nat]
  /\ executing \in [Call -> SUBSET Nat]
  /\ ran \in [Call -> Seq(Nat)]

Init ==
  /\ tasks = InitialTasks
  /\ anyio \in BOOLEAN
  /\ status = [k \in Call |-> "idle"]
  /\ next = [k \in Call |-> 0]
  /\ executing = [k \in Call |-> {}]
  /\ ran = [k \in Call |-> <<>>]

AddTask(kind) ==
  /\ Len(tasks) < MaxTasks
  /\ tasks' = Append(tasks, kind)
  /\ UNCHANGED <<anyio, status, next, executing, ran>>

\* The iterator of a list sees what is appended behind it.
Last_OfTheConstructor == Len(InitialTasks)
Last == Len(tasks)

\* The loop asks its iterator for the next task and begins it, all without an
\* await: run_in_threadpool raises at once without anyio.
Advance(k) ==
  LET i == next[k] + 1 IN
  \/ /\ i <= Last
     /\ next' = [next EXCEPT ![k] = i]
     /\ tasks[i] = "async" \/ anyio
     /\ status' = [status EXCEPT ![k] = "running"]
     /\ executing' = [executing EXCEPT ![k] = {i}]
  \/ /\ i <= Last
     /\ next' = [next EXCEPT ![k] = i]
     /\ tasks[i] = "sync" /\ ~anyio
     /\ status' = [status EXCEPT ![k] = "raised"]
     /\ executing' = [executing EXCEPT ![k] = {}]
  \/ /\ i > Last
     /\ status' = [status EXCEPT ![k] = "returned"]
     /\ executing' = [executing EXCEPT ![k] = {}]
     /\ UNCHANGED next

Start(k) ==
  /\ status[k] = "idle"
  /\ Advance(k)
  /\ UNCHANGED <<tasks, anyio, ran>>

TaskReturns(k) ==
  /\ status[k] = "running"
  /\ ran' = [ran EXCEPT ![k] = Append(@, next[k])]
  /\ Advance(k)
  /\ UNCHANGED <<tasks, anyio>>

TaskRaises_GoesOn(k) ==
  /\ status[k] = "running"
  /\ Advance(k)
  /\ UNCHANGED <<tasks, anyio, ran>>

\* The exception of a task leaves the call, the tasks behind it are not run.
TaskRaises(k) ==
  /\ status[k] = "running"
  /\ status' = [status EXCEPT ![k] = "raised"]
  /\ executing' = [executing EXCEPT ![k] = {}]
  /\ UNCHANGED <<tasks, anyio, next, ran>>

\* The caller is cancelled; a thread is not.
Cancel(k) ==
  /\ status[k] = "running"
  /\ status' = [status EXCEPT ![k] = "raised"]
  /\ executing' = [executing EXCEPT ![k] = IF tasks[next[k]] = "sync" THEN @ ELSE {}]
  /\ UNCHANGED <<tasks, anyio, next, ran>>

\* The function in the thread returns or raises, nobody awaits it any more.
ThreadEnds(k) ==
  /\ status[k] = "raised"
  /\ executing[k] # {}
  /\ executing' = [executing EXCEPT ![k] = {}]
  /\ \/ ran' = [ran EXCEPT ![k] = Append(@, next[k])]
     \/ UNCHANGED ran
  /\ UNCHANGED <<tasks, anyio, status, next>>

TaskEnds(k) == TaskReturns(k) \/ TaskRaises(k)

Next ==
  \/ \E kind \in Kinds : AddTask(kind)
  \/ \E k \in Call : Start(k) \/ TaskEnds(k) \/ Cancel(k) \/ ThreadEnds(k)

Spec == Init /\ [][Next]_vars

\* Tasks end.
FairSpec == Spec /\ \A k \in Call : WF_vars(TaskEnds(k))

-----------------------------------------------------------------------------
\* What a call has executed is a beginning of the list without gaps, and a task
\* begins only when every task before it has been executed to its end for the
\* same call, in a thread as well: whatever is added, called again or cancelled
\* meanwhile, and whichever task raises.
RunsAPrefix ==
  \A k \in Call :
    /\ Len(ran[k]) <= Len(tasks)
    /\ \A i \in 1..Len(ran[k]) : ran[k][i] = i
    /\ executing[k] \subseteq {Len(ran[k]) + 1}

\* A task that is in the list while a call is under way is executed by it, also
\* one added behind the call's back, unless a task raises.
LateTasksRun ==
  \A k \in Call : \A i \in 1..MaxTasks :
    status[k] = "running" /\ i <= Len(tasks)
      ~> i <= Len(ran[k]) \/ status[k] = "raised"
=============================================================================
