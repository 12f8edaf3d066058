------------------------ MODULE BackgroundTasksProofs ------------------------
(***************************************************************************)
(* Proofs about BackgroundTasks, for any number of calls, of tasks and of  *)
(* tasks added while the calls are under way.                              *)
(***************************************************************************)
EXTENDS BackgroundTasks, TLAPS

\* How far a call is, by its status.  Only a thread that outlives its call may
\* still complete the task the iterator stands at.
Progress(k) ==
  /\ next[k] <= Len(tasks)
  /\ \A i \in 1..Len(ran[k]) : ran[k][i] = i
  /\ status[k] = "idle" => next[k] = 0 /\ Len(ran[k]) = 0 /\ executing[k] = {}
  /\ status[k] = "running" =>
       next[k] # 0 /\ Len(ran[k]) = next[k] - 1 /\ executing[k] = {next[k]}
  /\ status[k] = "returned" => Len(ran[k]) = next[k] /\ executing[k] = {}
  /\ status[k] = "raised" =>
       /\ next[k] # 0
       /\ \/ Len(ran[k]) = next[k] - 1 /\ executing[k] \in {{}, {next[k]}}
          \/ Len(ran[k]) = next[k] /\ executing[k] = {}

IInv == TypeOK /\ \A k \in Call : Progress(k)

\* What add_task and a task that ends do to a list.
LEMMA AppendProperties ==
  ASSUME NEW S, NEW s \in Seq(S), NEW x \in S
  PROVE  /\ Append(s, x) \in Seq(S)
         /\ Len(Append(s, x)) = Len(s) + 1
         /\ \A i \in 1..Len(s) : Append(s, x)[i] = s[i]
         /\ Append(s, x)[Len(s) + 1] = x
OBVIOUS

\* Nothing has run when the object is made.
LEMMA InitInv == Init => IInv
<1> SUFFICES ASSUME Init PROVE IInv
  OBVIOUS
<1>1. TypeOK
  BY TasksAssumption DEF Init, TypeOK, Statuses
<1>2. ASSUME NEW k \in Call PROVE Progress(k)
  <2>1. Len(tasks) \in Nat
    BY TasksAssumption DEF Init
  <2>2. status[k] = "idle" /\ next[k] = 0 /\ executing[k] = {} /\ ran[k] = <<>>
    BY DEF Init
  <2> QED BY <2>1, <2>2 DEF Progress
<1> QED BY <1>1, <1>2 DEF IInv

\* The loop takes the next task, or finds none, when all before it are done.
LEMMA AdvanceInv ==
  ASSUME NEW k \in Call, TypeOK, UNCHANGED <<tasks, anyio>>, Advance(k),
         next[k] <= Len(tasks),
         ran' \in [Call -> Seq(Nat)],
         Len(ran'[k]) = next[k],
         \A i \in 1..Len(ran'[k]) : ran'[k][i] = i
  PROVE  TypeOK' /\ Progress(k)'
<1> DEFINE i == next[k] + 1
<1>0. /\ next[k] \in Nat /\ Len(tasks) \in Nat /\ i \in Nat
      /\ tasks' = tasks /\ anyio' = anyio
  BY DEF TypeOK
<1>1. CASE /\ i <= Last
           /\ next' = [next EXCEPT ![k] = i]
           /\ tasks[i] = "async" \/ anyio
           /\ status' = [status EXCEPT ![k] = "running"]
           /\ executing' = [executing EXCEPT ![k] = {i}]
  <2>1. TypeOK'
    BY <1>0, <1>1 DEF TypeOK, Statuses
  <2>2. Progress(k)'
    BY <1>0, <1>1 DEF Progress, TypeOK, Last
  <2> QED BY <2>1, <2>2
<1>2. CASE /\ i <= Last
           /\ next' = [next EXCEPT ![k] = i]
           /\ tasks[i] = "sync" /\ ~anyio
           /\ status' = [status EXCEPT ![k] = "raised"]
           /\ executing' = [executing EXCEPT ![k] = {}]
  <2>1. TypeOK'
    BY <1>0, <1>2 DEF TypeOK, Statuses
  <2>2. Progress(k)'
    BY <1>0, <1>2 DEF Progress, TypeOK, Last
  <2> QED BY <2>1, <2>2
<1>3. CASE /\ i > Last
           /\ status' = [status EXCEPT ![k] = "returned"]
           /\ executing' = [executing EXCEPT ![k] = {}]
           /\ UNCHANGED next
  <2>1. TypeOK'
    BY <1>0, <1>3 DEF TypeOK, Statuses
  <2>2. Progress(k)'
    BY <1>0, <1>3 DEF Progress, TypeOK, Last
  <2> QED BY <2>1, <2>2
<1> QED BY <1>1, <1>2, <1>3 DEF Advance

\* A step of one call leaves what the others have done.
LEMMA OthersUntouched ==
  ASSUME NEW k \in Call, IInv, UNCHANGED tasks,
         \A j \in Call \ {k} :
           /\ status'[j] = status[j] /\ next'[j] = next[j]
           /\ executing'[j] = executing[j] /\ ran'[j] = ran[j]
  PROVE  \A j \in Call \ {k} : Progress(j)'
<1> TAKE j \in Call \ {k}
<1>1. Progress(j)
  BY DEF IInv
<1> QED BY <1>1 DEF Progress

\* Every step of add_task and of the calls keeps the invariant.
LEMMA StepInv == IInv /\ [Next]_vars => IInv'
<1> SUFFICES ASSUME IInv, [Next]_vars PROVE IInv'
  OBVIOUS
<1> USE DEF IInv
<1>1. ASSUME NEW kind \in Kinds, AddTask(kind) PROVE IInv'
  <2>1. tasks' \in Seq(Kinds) /\ Len(tasks') = Len(tasks) + 1
    BY <1>1, AppendProperties DEF AddTask, TypeOK
  <2>2. TypeOK'
    BY <1>1, <2>1 DEF AddTask, TypeOK
  <2>3. ASSUME NEW k \in Call PROVE Progress(k)'
    <3>1. Len(tasks) \in Nat /\ next[k] \in Nat
      BY DEF TypeOK
    <3>2. Progress(k)
      OBVIOUS
    <3> QED BY <1>1, <2>1, <3>1, <3>2 DEF AddTask, Progress
  <2> QED BY <2>2, <2>3
<1>2. ASSUME NEW k \in Call, Start(k) PROVE IInv'
  <2>1. /\ next[k] <= Len(tasks) /\ ran' = ran /\ Len(ran'[k]) = next[k]
        /\ \A i \in 1..Len(ran'[k]) : ran'[k][i] = i
    BY <1>2 DEF Start, Progress
  <2>2. TypeOK' /\ Progress(k)'
    BY <1>2, <2>1, AdvanceInv DEF Start, TypeOK
  <2>3. \A j \in Call \ {k} : Progress(j)'
    BY <1>2, OthersUntouched DEF Start, Advance, TypeOK
  <2> QED BY <2>2, <2>3
<1>3. ASSUME NEW k \in Call, TaskReturns(k) PROVE IInv'
  <2>1. /\ next[k] <= Len(tasks) /\ next[k] \in Nat
        /\ Len(ran[k]) = next[k] - 1 /\ ran[k] \in Seq(Nat)
        /\ \A i \in 1..Len(ran[k]) : ran[k][i] = i
    BY <1>3 DEF TaskReturns, Progress, TypeOK
  <2>2. ran' \in [Call -> Seq(Nat)] /\ ran'[k] = Append(ran[k], next[k])
    BY <1>3, <2>1 DEF TaskReturns, TypeOK
  <2>3. /\ Len(ran'[k]) = next[k]
        /\ \A i \in 1..Len(ran'[k]) : ran'[k][i] = i
    BY <2>1, <2>2, AppendProperties
  <2>4. TypeOK' /\ Progress(k)'
    BY <1>3, <2>1, <2>2, <2>3, AdvanceInv DEF TaskReturns
  <2>5. \A j \in Call \ {k} : Progress(j)'
    BY <1>3, OthersUntouched DEF TaskReturns, Advance, TypeOK
  <2> QED BY <2>4, <2>5
<1>4. ASSUME NEW k \in Call, TaskRaises(k) \/ Cancel(k) PROVE IInv'
  <2>1. TypeOK'
    BY <1>4 DEF TaskRaises, Cancel, TypeOK, Statuses
  <2>2. Progress(k)'
    BY <1>4 DEF TaskRaises, Cancel, TypeOK, Progress
  <2>3. \A j \in Call \ {k} : Progress(j)'
    BY <1>4, OthersUntouched DEF TaskRaises, Cancel, TypeOK
  <2> QED BY <2>1, <2>2, <2>3
<1>5. ASSUME NEW k \in Call, ThreadEnds(k) PROVE IInv'
  <2>1. /\ Len(ran[k]) = next[k] - 1 /\ next[k] \in Nat /\ ran[k] \in Seq(Nat)
        /\ \A i \in 1..Len(ran[k]) : ran[k][i] = i
    BY <1>5 DEF ThreadEnds, Progress, TypeOK
  <2>2. \/ ran' = ran
        \/ ran' = [ran EXCEPT ![k] = Append(ran[k], next[k])]
    BY <1>5 DEF ThreadEnds
  <2>3. /\ ran' \in [Call -> Seq(Nat)]
        /\ Len(ran'[k]) \in {next[k] - 1, next[k]}
        /\ \A i \in 1..Len(ran'[k]) : ran'[k][i] = i
    <3>1. CASE ran' = ran
      BY <2>1, <3>1 DEF TypeOK
    <3>2. CASE ran' = [ran EXCEPT ![k] = Append(ran[k], next[k])]
      <4>1. ran' \in [Call -> Seq(Nat)] /\ ran'[k] = Append(ran[k], next[k])
        BY <2>1, <3>2 DEF TypeOK
      <4> QED BY <2>1, <4>1, AppendProperties
    <3> QED BY <2>2, <3>1, <3>2
  <2>4. TypeOK' /\ Progress(k)'
    BY <1>5, <2>1, <2>3 DEF ThreadEnds, TypeOK, Progress
  <2>5. \A j \in Call \ {k} : Progress(j)'
    BY <1>5, OthersUntouched DEF ThreadEnds, TypeOK
  <2> QED BY <2>4, <2>5
<1>6. CASE UNCHANGED vars
  BY <1>6 DEF vars, TypeOK, Progress
<1> QED BY <1>1, <1>2, <1>3, <1>4, <1>5, <1>6 DEF Next, TaskEnds

\* The inductive invariant: the status of a call tells how far it is.
THEOREM Invariance == Spec => []IInv
BY InitInv, StepInv, PTL DEF Spec

\* What a call has executed is a beginning of the list without gaps, and it
\* executes at most the task right behind (RunsAPrefix).
THEOREM PrefixRuns == Spec => []RunsAPrefix
<1>1. IInv => RunsAPrefix
  <2> SUFFICES ASSUME IInv, NEW k \in Call
               PROVE /\ Len(ran[k]) <= Len(tasks)
                     /\ \A i \in 1..Len(ran[k]) : ran[k][i] = i
                     /\ executing[k] \subseteq {Len(ran[k]) + 1}
    BY DEF RunsAPrefix
  <2>1. /\ Len(tasks) \in Nat /\ Len(ran[k]) \in Nat /\ next[k] \in Nat
        /\ status[k] \in Statuses /\ Progress(k)
    BY DEF IInv, TypeOK
  <2> QED BY <2>1 DEF Progress, Statuses
<1> QED BY <1>1, Invariance, PTL
=============================================================================
