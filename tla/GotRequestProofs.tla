-------------------------- MODULE GotRequestProofs --------------------------
(***************************************************************************)
(* Proofs about GotRequest, for any set of requests and any routes.        *)
(***************************************************************************)
EXTENDS GotRequest, SequenceTheorems, TLAPS

\* A request's own step, whichever it is.
Step(r) == Start(r) \/ Serve(r) \/ Stream(r)

\* The except clauses of got_request let nothing but modapp errors out.
LEMMA MapErrorGivesModappError ==
  ASSUME NEW e
  PROVE  MapError(e) \in ModappError
BY DEF MapError, ModappError

\* What got_request can end with falls into disjoint kinds.
LEMMA RepliesAreNoErrors ==
  /\ \A e \in Errors : e \notin Replies
  /\ ModappError \subseteq Errors
  /\ \A o \in StreamEnds \cup {"stream", NoResult} :
       o \notin Replies \cup Errors
  /\ NoError \notin Errors
BY DEF Errors, ModappError, Replies, StreamEnds, NoResult, NoError

\* A returned value becomes a reply or a modapp error.
LEMMA ReplyOutcomesAreServedOrMasked ==
  ASSUME NEW value \in Replies \cup {"not a model"},
         NEW o \in ReplyOutcomes(value)
  PROVE  o \in Replies \cup ModappError
BY MapErrorGivesModappError DEF ReplyOutcomes, Replies, ModappError

\* A route has at most MaxDependencies dependencies.
LEMMA DependencyType ==
  ASSUME TypeOK, NEW r \in Request
  PROVE  /\ Dependency(r) \in Seq(DependencyKind)
         /\ Len(Dependency(r)) \in Nat
         /\ Len(Dependency(r)) <= MaxDependencies
         /\ MaxDependencies \in Nat
BY RouteAssumption DEF TypeOK, Dependency

\* Every step of a request keeps the types.
LEMMA TypeStep ==
  ASSUME TypeOK, NEW r \in Request, Step(r)
  PROVE  TypeOK'
<1> USE DEF TypeOK
<1> USE RouteAssumption, DependencyType, MapErrorGivesModappError
<1> USE DEF PC, Results, Errors, ModappError
<1>1. CASE DecodeFails(r)
  BY <1>1 DEF DecodeFails, Goto, Outcome
<1>2. CASE \E meta \in SUBSET MetaKey : Decode(r, meta) \/ MetaMissing(r, meta)
  BY <1>2 DEF Decode, MetaMissing, Goto, Outcome
<1>3. CASE EnterDependency(r)
  <2>1. Len(stack[r]) + 1 \in Slot
    BY <1>3 DEF EnterDependency, Slot
  <2>2. stack' \in [Request -> Seq(Slot)]
    BY <1>3, <2>1 DEF EnterDependency
  <2>3. gen' \in [Request -> [Slot -> GenState]]
    BY <1>3, <2>1 DEF EnterDependency, GenState
  <2> QED  BY <1>3, <2>2, <2>3 DEF EnterDependency
<1>4. CASE DependencyFails(r)
  <2>1. Len(stack[r]) + 1 \in Slot
    BY <1>4 DEF DependencyFails, Slot
  <2>2. gen' \in [Request -> [Slot -> GenState]]
    BY <1>4, <2>1 DEF DependencyFails, GenState
  <2> QED  BY <1>4, <2>2 DEF DependencyFails, Goto, Outcome
<1>5. CASE DependencyUnsupported(r)
  BY <1>5 DEF DependencyUnsupported, Goto, Outcome
<1>6. CASE CallHandler(r)
  BY <1>6 DEF CallHandler, Goto
<1>7. CASE MakeStream(r)
  BY <1>7 DEF MakeStream, Goto, Outcome
<1>8. CASE NoBranch(r)
  BY <1>8 DEF NoBranch, Goto, Outcome
<1>9. CASE HandlerReturns(r)
  <2>1. PICK value \in Replies \cup {"not a model"} :
          \E o \in ReplyOutcomes(value) : Outcome(r, o)
    BY <1>9 DEF HandlerReturns
  <2>2. PICK o \in ReplyOutcomes(value) : Outcome(r, o)
    BY <2>1
  <2>3. o \in Results
    BY ReplyOutcomesAreServedOrMasked
  <2> QED  BY <1>9, <2>2, <2>3 DEF HandlerReturns, Goto, Outcome
<1>10. CASE HandlerRaises(r)
  BY <1>10 DEF HandlerRaises, Goto, Outcome
<1>11. CASE ExitDependency(r)
  <2>1. Top(r) \in Slot
    BY <1>11 DEF ExitDependency, Top
  <2>2. stack' \in [Request -> Seq(Slot)]
    BY <1>11 DEF ExitDependency, Pop
  <2>3. gen' \in [Request -> [Slot -> GenState]]
    BY <1>11, <2>1 DEF ExitDependency, ExitState, GenState
  <2> QED  BY <1>11, <2>2, <2>3 DEF ExitDependency
<1>12. CASE Finish(r)
  BY <1>12 DEF Finish, Goto, Outcome
<1>13. CASE StreamHandlerReturns(r)
  BY <1>13 DEF StreamHandlerReturns, Goto
<1>14. CASE StreamHandlerFails(r)
  BY <1>14 DEF StreamHandlerFails, Goto, Outcome
<1>15. CASE StreamYields(r)
  BY <1>15 DEF StreamYields
<1>16. CASE StreamFails(r)
  BY <1>16 DEF StreamFails, Goto, Outcome
<1>17. CASE StreamCompletes(r)
  BY <1>17 DEF StreamCompletes, Goto, Outcome, StreamEnds
<1>18. CASE StreamAbandoned(r)
  BY <1>18 DEF StreamAbandoned, Outcome, StreamEnds
<1> QED
  BY <1>1, <1>2, <1>3, <1>4, <1>5, <1>6, <1>7, <1>8, <1>9, <1>10, <1>11,
     <1>12, <1>13, <1>14, <1>15, <1>16, <1>17, <1>18
     DEF Step, Start, Serve, Stream

\* The types hold before the first request.
LEMMA TypeInit == Init => TypeOK
BY RouteAssumption
   DEF Init, TypeOK, PC, Results, GenState

\* Every variable of got_request keeps to its type, whatever user code does.
THEOREM TypeCorrect == Spec => []TypeOK
<1>1. TypeOK /\ [Next]_vars => TypeOK'
  <2> SUFFICES ASSUME TypeOK, [Next]_vars PROVE TypeOK'
    OBVIOUS
  <2>1. CASE Next
    BY <2>1, TypeStep DEF Next, Step
  <2>2. CASE UNCHANGED vars
    BY <2>2 DEF vars, TypeOK
  <2> QED  BY <2>1, <2>2
<1> QED  BY TypeInit, <1>1, PTL DEF Spec

-----------------------------------------------------------------------------
\* The inductive invariant, for one request.

\* The stack holds the dependencies entered so far in their order, and these
\* are the ones at their yield.
StackInv(r) ==
  /\ Len(stack[r]) <= Len(Dependency(r))
  /\ \A i \in 1..Len(stack[r]) : stack[r][i] = i
  /\ \A i \in Slot : gen[r][i] = "suspended" <=> i <= Len(stack[r])

\* What the place in got_request says of the stack and of the handler.
PlaceInv(r) ==
  /\ pc[r] \in {"idle", "opened", "streaming", "done"} => Len(stack[r]) = 0
  /\ pc[r] \in {"idle", "dependencies"} => calls[r] = 0 /\ result[r] = NoResult
  /\ pc[r] = "handler" =>
       /\ Len(stack[r]) = Len(Dependency(r))
       /\ calls[r] = 1
       /\ Cardinality[route[r]] = "UNARY_UNARY"
  /\ pc[r] \in {"opened", "streaming"} =>
       Cardinality[route[r]] = "UNARY_STREAM"

\* An exit sees an exception only if the exit of a dependency entered later
\* has raised one.
UnwindInv(r) ==
  /\ pc[r] \in {"idle", "dependencies", "handler"} =>
       /\ unwinding[r] = NoError
       /\ \A i \in Slot : gen[r][i] # "thrown"
  /\ pc[r] = "closing" /\ unwinding[r] # NoError =>
       \E j \in Slot : Len(stack[r]) < j /\ gen[r][j] = "broken"
  /\ \A i \in Slot : gen[r][i] = "thrown" =>
       \E j \in Slot : i < j /\ gen[r][j] = "broken"

\* What the try block leaves for the outcome, and what becomes of it.
Exited(r, i) == gen[r][i] \in {"closed", "broken", "thrown"}

OutcomeInv(r) ==
  /\ pc[r] = "closing" => result[r] \in Replies \cup Errors \cup {"stream"}
  /\ pc[r] = "closing" /\ result[r] = "stream" =>
       Cardinality[route[r]] = "UNARY_STREAM"
  /\ pc[r] = "closing" /\ calls[r] # 0 =>
       result[r] \in Replies \cup ModappError
  /\ pc[r] = "closing" /\ result[r] \in Replies =>
       /\ calls[r] = 1
       /\ \A i \in 1..Len(Dependency(r)) :
            i <= Len(stack[r]) \/ Exited(r, i)
  /\ pc[r] \in {"opened", "streaming"} => result[r] = "stream"
  /\ pc[r] = "done" /\ result[r] \in Replies =>
       /\ calls[r] = 1
       /\ unwinding[r] = NoError
       /\ \A i \in 1..Len(Dependency(r)) : Exited(r, i)
  /\ /\ pc[r] = "done"
     /\ calls[r] # 0
     /\ Cardinality[route[r]] = "UNARY_UNARY"
     /\ result[r] \notin Replies \cup ModappError
     => unwinding[r] = result[r]

RequestInv(r) == StackInv(r) /\ PlaceInv(r) /\ UnwindInv(r) /\ OutcomeInv(r)

Inv == TypeOK /\ \A r \in Request : RequestInv(r)

\* No request has entered a dependency in the initial state.
LEMMA InitInv == Init => Inv
<1> SUFFICES ASSUME Init, NEW r \in Request PROVE RequestInv(r)
  BY TypeInit DEF Inv
<1> USE TypeInit, DependencyType
<1>1. StackInv(r)
  BY DEF Init, StackInv, Slot
<1>2. PlaceInv(r)
  BY DEF Init, PlaceInv
<1>3. UnwindInv(r)
  BY DEF Init, UnwindInv
<1>4. OutcomeInv(r)
  BY DEF Init, OutcomeInv
<1> QED  BY <1>1, <1>2, <1>3, <1>4 DEF RequestInv

-----------------------------------------------------------------------------
\* What a step leaves alone.

\* got_request never assigns its route argument.
LEMMA RouteIsFixed ==
  ASSUME NEW r \in Request, Step(r)
  PROVE  route' = route
BY DEF Step, Start, Serve, Stream, DecodeFails, Decode, MetaMissing,
       EnterDependency, DependencyFails, DependencyUnsupported, CallHandler,
       MakeStream, NoBranch, HandlerReturns, HandlerRaises, ExitDependency,
       Finish, StreamHandlerReturns, StreamHandlerFails, StreamYields,
       StreamFails, StreamCompletes, StreamAbandoned

\* Only entering and exiting a dependency touch the stack or a generator.
LEMMA StackStepsOnly ==
  ASSUME NEW r \in Request, Step(r)
  PROVE  \/ EnterDependency(r)
         \/ DependencyFails(r)
         \/ ExitDependency(r)
         \/ stack' = stack /\ gen' = gen
BY DEF Step, Start, Serve, Stream, DecodeFails, Decode, MetaMissing,
       DependencyUnsupported, CallHandler,
       MakeStream, NoBranch, HandlerReturns, HandlerRaises,
       Finish, StreamHandlerReturns, StreamHandlerFails, StreamYields,
       StreamFails, StreamCompletes, StreamAbandoned

\* Tasks share no state: a step of one request changes nothing of another.
LEMMA OthersUntouched ==
  ASSUME TypeOK, NEW r \in Request, NEW s \in Request, s # r, Step(r)
  PROVE  /\ pc'[s] = pc[s]
         /\ route'[s] = route[s]
         /\ stack'[s] = stack[s]
         /\ gen'[s] = gen[s]
         /\ unwinding'[s] = unwinding[s]
         /\ result'[s] = result[s]
         /\ messages'[s] = messages[s]
         /\ calls'[s] = calls[s]
<1> USE DEF TypeOK, Goto, Outcome
<1>1. CASE Start(r)
  BY <1>1 DEF Start, DecodeFails, Decode, MetaMissing
<1>2. CASE Serve(r)
  <2>1. CASE HandlerReturns(r)
    BY <2>1 DEF HandlerReturns
  <2>2. CASE ~HandlerReturns(r)
    BY <1>2, <2>2
       DEF Serve, EnterDependency, DependencyFails, DependencyUnsupported,
           CallHandler, MakeStream, NoBranch, HandlerRaises, ExitDependency,
           Finish
  <2> QED  BY <2>1, <2>2
<1>3. CASE Stream(r)
  BY <1>3 DEF Stream, StreamHandlerReturns, StreamHandlerFails, StreamYields,
              StreamFails, StreamCompletes, StreamAbandoned
<1> QED  BY <1>1, <1>2, <1>3 DEF Step

\* A request that does not move keeps its invariant.
LEMMA OthersKeepInv ==
  ASSUME TypeOK, NEW r \in Request, NEW s \in Request, s # r, Step(r),
         RequestInv(s)
  PROVE  RequestInv(s)'
<1> USE OthersUntouched
<1>0. Dependency(s)' = Dependency(s)
  BY DEF Dependency
<1>1. StackInv(s)'
  BY <1>0 DEF RequestInv, StackInv
<1>2. PlaceInv(s)'
  BY <1>0 DEF RequestInv, PlaceInv
<1>3. UnwindInv(s)'
  BY DEF RequestInv, UnwindInv
<1>4. OutcomeInv(s)'
  BY <1>0 DEF RequestInv, OutcomeInv, Exited
<1> QED  BY <1>1, <1>2, <1>3, <1>4 DEF RequestInv

-----------------------------------------------------------------------------
\* The steps of a request keep its own invariant, one conjunct at a time.

\* Numbers up to m are up to anything equal to m.
LEMMA UpTo ==
  ASSUME NEW m \in Nat, NEW n, n = m
  PROVE  \A i \in 1..m : i <= n
OBVIOUS

\* Entering and exiting a dependency move the end of the stack by one.
LEMMA EnterMovesStack ==
  ASSUME TypeOK, NEW r \in Request, EnterDependency(r)
  PROVE  /\ Len(stack[r]) + 1 \in Slot
         /\ Len(stack'[r]) = Len(stack[r]) + 1
         /\ \A i \in 1..Len(stack[r]) : stack'[r][i] = stack[r][i]
         /\ stack'[r][Len(stack[r]) + 1] = Len(stack[r]) + 1
         /\ gen'[r] = [gen[r] EXCEPT ![Len(stack[r]) + 1] = "suspended"]
BY DependencyType DEF EnterDependency, TypeOK, Slot

\* AsyncExitStack pops from the end.
LEMMA PopDropsLast ==
  ASSUME NEW S, NEW s \in Seq(S), s # <<>>
  PROVE  /\ Len(Pop(s)) = Len(s) - 1
         /\ \A i \in 1..(Len(s) - 1) : Pop(s)[i] = s[i]
<1>1. PICK n \in Nat : n = Len(s) /\ n >= 1
  OBVIOUS
<1>2. \A i \in 1..(n - 1) : s[i] \in S
  BY <1>1
<1>3. /\ Len(SubSeq(s, 1, n - 1)) = IF 1 <= n - 1 THEN (n - 1) - 1 + 1 ELSE 0
      /\ \A i \in 1..((n - 1) - 1 + 1) : SubSeq(s, 1, n - 1)[i] = s[1 + i - 1]
  <2>1. 1 \in Int /\ n - 1 \in Int
    OBVIOUS
  <2> QED  BY <1>2, <2>1, SubSeqProperties
<1>4. Len(SubSeq(s, 1, n - 1)) = n - 1
  <2>1. (IF 1 <= n - 1 THEN (n - 1) - 1 + 1 ELSE 0) = n - 1
    BY <1>1
  <2> QED  BY <1>3, <2>1
<1>5. ASSUME NEW i \in 1..(n - 1) PROVE SubSeq(s, 1, n - 1)[i] = s[i]
  <2>1. i \in 1..((n - 1) - 1 + 1) /\ 1 + i - 1 = i
    OBVIOUS
  <2> QED  BY <1>3, <2>1
<1> QED  BY <1>1, <1>4, <1>5 DEF Pop

\* One turn of aclose takes the last dependency off and resumes its generator.
LEMMA ExitMovesStack ==
  ASSUME TypeOK, NEW r \in Request, ExitDependency(r), StackInv(r)
  PROVE  /\ Len(stack[r]) \in Slot
         /\ Len(stack'[r]) = Len(stack[r]) - 1
         /\ \A i \in 1..(Len(stack[r]) - 1) : stack'[r][i] = stack[r][i]
         /\ \E raised \in Errors \cup {NoError} :
              /\ unwinding'[r] = raised
              /\ gen'[r] = [gen[r] EXCEPT
                   ![Len(stack[r])] = ExitState(unwinding[r], raised)]
<1>1. Len(stack[r]) \in Slot /\ Top(r) = Len(stack[r])
  BY DependencyType DEF ExitDependency, TypeOK, StackInv, Top, Slot
<1>2. /\ Len(stack'[r]) = Len(stack[r]) - 1
      /\ \A i \in 1..(Len(stack[r]) - 1) : stack'[r][i] = stack[r][i]
  <2>1. stack[r] \in Seq(Slot) /\ stack[r] # <<>>
    BY DEF ExitDependency, TypeOK
  <2>2. stack'[r] = Pop(stack[r])
    BY DEF ExitDependency, TypeOK
  <2> QED  BY <2>1, <2>2, PopDropsLast
<1>3. \E raised \in Errors \cup {NoError} :
        /\ unwinding'[r] = raised
        /\ gen'[r] = [gen[r] EXCEPT
             ![Len(stack[r])] = ExitState(unwinding[r], raised)]
  BY <1>1 DEF ExitDependency, TypeOK
<1> QED  BY <1>1, <1>2, <1>3

\* Every step keeps the stack equal to the dependencies at their yield.
LEMMA StackStep ==
  ASSUME TypeOK, NEW r \in Request, StackInv(r), Step(r)
  PROVE  StackInv(r)'
<1> USE DependencyType
<1>0. Dependency(r)' = Dependency(r)
  BY RouteIsFixed DEF Dependency
<1>1. CASE EnterDependency(r)
  <2>1. /\ Len(stack[r]) + 1 \in Slot
        /\ Len(stack'[r]) = Len(stack[r]) + 1
        /\ \A i \in 1..Len(stack[r]) : stack'[r][i] = stack[r][i]
        /\ stack'[r][Len(stack[r]) + 1] = Len(stack[r]) + 1
        /\ gen'[r] = [gen[r] EXCEPT ![Len(stack[r]) + 1] = "suspended"]
    BY <1>1, EnterMovesStack
  <2>2. Len(stack[r]) \in Nat /\ gen[r] \in [Slot -> GenState]
    BY DEF TypeOK
  <2>3. Len(stack'[r]) <= Len(Dependency(r))
    BY <1>1, <2>1 DEF EnterDependency
  <2>4. \A i \in 1..Len(stack'[r]) : stack'[r][i] = i
    BY <2>1, <2>2 DEF StackInv
  <2>5. \A i \in Slot : gen'[r][i] = "suspended" <=> i <= Len(stack'[r])
    BY <2>1, <2>2 DEF StackInv, Slot
  <2> QED  BY <1>0, <2>3, <2>4, <2>5 DEF StackInv
<1>2. CASE DependencyFails(r)
  <2>1. Len(stack[r]) + 1 \in Slot
    BY <1>2 DEF DependencyFails, TypeOK, Slot
  <2>2. stack' = stack
    BY <1>2 DEF DependencyFails
  <2>3. \A i \in Slot : gen'[r][i] = "suspended" <=> i <= Len(stack[r])
    BY <1>2, <2>1 DEF DependencyFails, StackInv, TypeOK, Slot
  <2> QED  BY <1>0, <2>2, <2>3 DEF StackInv
<1>3. CASE ExitDependency(r)
  <2>1. /\ Len(stack[r]) \in Slot
        /\ Len(stack'[r]) = Len(stack[r]) - 1
        /\ \A i \in 1..(Len(stack[r]) - 1) : stack'[r][i] = stack[r][i]
    BY <1>3, ExitMovesStack
  <2>2. PICK raised \in Errors \cup {NoError} :
          gen'[r] = [gen[r] EXCEPT
            ![Len(stack[r])] = ExitState(unwinding[r], raised)]
    BY <1>3, ExitMovesStack
  <2>3. ExitState(unwinding[r], raised) # "suspended"
    BY DEF ExitState
  <2>4. Len(stack'[r]) <= Len(Dependency(r))
    BY <2>1 DEF StackInv, Slot
  <2>5. \A i \in 1..Len(stack'[r]) : stack'[r][i] = i
    BY <2>1 DEF StackInv, Slot
  <2>6. \A i \in Slot : gen'[r][i] = "suspended" <=> i <= Len(stack'[r])
    BY <2>1, <2>2, <2>3 DEF StackInv, TypeOK, Slot
  <2> QED  BY <1>0, <2>4, <2>5, <2>6 DEF StackInv
<1>4. CASE stack' = stack /\ gen' = gen
  BY <1>0, <1>4 DEF StackInv
<1> QED  BY <1>1, <1>2, <1>3, <1>4, StackStepsOnly

\* Every step keeps what its place says of stack and handler.
LEMMA PlaceStep ==
  ASSUME TypeOK, NEW r \in Request, PlaceInv(r), OutcomeInv(r), Step(r)
  PROVE  PlaceInv(r)'
<1> USE DEF TypeOK, PlaceInv, Goto, Outcome
<1> USE DependencyType
<1>0. Dependency(r)' = Dependency(r) /\ route' = route
  BY RouteIsFixed DEF Dependency
<1>1. CASE Start(r)
  BY <1>0, <1>1 DEF Start, DecodeFails, Decode, MetaMissing
<1>2. CASE EnterDependency(r)
  BY <1>0, <1>2 DEF EnterDependency
<1>3. CASE DependencyFails(r) \/ DependencyUnsupported(r)
  BY <1>0, <1>3 DEF DependencyFails, DependencyUnsupported
<1>4. CASE CallHandler(r)
  BY <1>0, <1>4 DEF CallHandler, AllEntered
<1>5. CASE MakeStream(r) \/ NoBranch(r)
  BY <1>0, <1>5 DEF MakeStream, NoBranch
<1>6. CASE HandlerReturns(r) \/ HandlerRaises(r)
  BY <1>0, <1>6 DEF HandlerReturns, HandlerRaises
<1>7. CASE ExitDependency(r)
  BY <1>0, <1>7 DEF ExitDependency
<1>8. CASE Finish(r)
  BY <1>0, <1>8 DEF Finish, OutcomeInv
<1>9. CASE StreamHandlerReturns(r) \/ StreamYields(r)
  BY <1>0, <1>9 DEF StreamHandlerReturns, StreamYields
<1>10. CASE StreamHandlerFails(r) \/ StreamFails(r) \/ StreamCompletes(r)
           \/ StreamAbandoned(r)
  BY <1>0, <1>10
     DEF StreamHandlerFails, StreamFails, StreamCompletes, StreamAbandoned
<1> QED
  BY <1>1, <1>2, <1>3, <1>4, <1>5, <1>6, <1>7, <1>8, <1>9,
     <1>10 DEF Step, Serve, Stream

\* Every step keeps where an exception in flight comes from.
LEMMA UnwindStep ==
  ASSUME TypeOK, NEW r \in Request, StackInv(r), UnwindInv(r), Step(r)
  PROVE  UnwindInv(r)'
<1> USE DEF TypeOK, Goto, Outcome
<1>1. CASE Start(r)
  BY <1>1 DEF Start, DecodeFails, Decode, MetaMissing, UnwindInv
<1>2. CASE EnterDependency(r)
  BY <1>2, EnterMovesStack DEF EnterDependency, UnwindInv
<1>3. CASE DependencyFails(r)
  BY <1>3, DependencyType DEF DependencyFails, UnwindInv, Slot
<1>4. CASE DependencyUnsupported(r) \/ CallHandler(r) \/ MakeStream(r)
           \/ NoBranch(r) \/ HandlerReturns(r) \/ HandlerRaises(r)
  BY <1>4 DEF DependencyUnsupported, CallHandler, MakeStream, NoBranch,
              HandlerReturns, HandlerRaises, UnwindInv
<1>5. CASE ExitDependency(r)
  <2> DEFINE top == Len(stack[r])
  <2>1. /\ top \in Slot
        /\ Len(stack'[r]) = top - 1
        /\ pc' = pc /\ pc[r] = "closing"
    BY <1>5, ExitMovesStack DEF ExitDependency
  <2>2. PICK raised \in Errors \cup {NoError} :
          /\ unwinding'[r] = raised
          /\ gen'[r] = [gen[r] EXCEPT ![top] = ExitState(unwinding[r], raised)]
    BY <1>5, ExitMovesStack
  <2>3. gen[r][top] = "suspended"
    BY <2>1 DEF StackInv, Slot
  \* What is broken stays so: the exit is that of a suspended dependency.
  <2>4. \A j \in Slot : gen[r][j] = "broken" => gen'[r][j] = "broken"
    BY <2>1, <2>2, <2>3
  <2>5. CASE unwinding[r] = NoError
    <3>1. raised # NoError => gen'[r][top] = "broken"
      BY <2>1, <2>2, <2>5 DEF ExitState
    <3>2. \A i \in Slot : gen'[r][i] = "thrown" => gen[r][i] = "thrown"
      BY <2>1, <2>2, <2>5 DEF ExitState
    <3> QED  BY <2>1, <2>2, <2>4, <3>1, <3>2 DEF UnwindInv, Slot
  <2>6. CASE unwinding[r] # NoError
    <3>1. PICK j \in Slot : top < j /\ gen'[r][j] = "broken"
      BY <2>1, <2>4, <2>6 DEF UnwindInv
    <3>2. \A i \in Slot : gen'[r][i] = "thrown" => gen[r][i] = "thrown" \/ i = top
      BY <2>1, <2>2
    <3> QED  BY <2>1, <2>4, <3>1, <3>2 DEF UnwindInv, Slot
  <2> QED  BY <2>5, <2>6
<1>6. CASE Finish(r)
  BY <1>6 DEF Finish, UnwindInv
<1>7. CASE Stream(r)
  BY <1>7 DEF Stream, StreamHandlerReturns, StreamHandlerFails, StreamYields,
              StreamFails, StreamCompletes, StreamAbandoned, UnwindInv
<1> QED
  BY <1>1, <1>2, <1>3, <1>4, <1>5, <1>6, <1>7 DEF Step, Serve

\* Every step keeps what the try block may have left.
LEMMA OutcomeStep ==
  ASSUME TypeOK, NEW r \in Request, StackInv(r), PlaceInv(r), UnwindInv(r),
         OutcomeInv(r), Step(r)
  PROVE  OutcomeInv(r)'
<1> USE DEF TypeOK, Goto, Outcome
<1>0. Dependency(r)' = Dependency(r) /\ route' = route
  BY RouteIsFixed DEF Dependency
\* Before the handler is called an outcome is never a reply.
<1>1. CASE Start(r)
  <2>1. CASE DecodeFails(r)
    <3>1. calls'[r] = 0 /\ pc'[r] = "done" /\ result'[r] \notin Replies
      BY <2>1 DEF DecodeFails, PlaceInv, Replies
    <3> QED  BY <3>1 DEF OutcomeInv
  <2>2. CASE \E meta \in SUBSET MetaKey : Decode(r, meta)
    <3>1. pc'[r] = "dependencies"
      BY <2>2 DEF Decode
    <3> QED  BY <3>1 DEF OutcomeInv
  <2>3. CASE \E meta \in SUBSET MetaKey : MetaMissing(r, meta)
    <3>1. calls'[r] = 0 /\ pc'[r] = "closing" /\ result'[r] \in ModappError
      BY <2>3, MapErrorGivesModappError DEF MetaMissing, PlaceInv
    <3> QED  BY <3>1, RepliesAreNoErrors DEF OutcomeInv
  <2> QED  BY <1>1, <2>1, <2>2, <2>3 DEF Start
<1>2. CASE EnterDependency(r) \/ DependencyFails(r) \/ DependencyUnsupported(r)
  <2>1. CASE EnterDependency(r)
    <3>1. pc'[r] = "dependencies"
      BY <2>1 DEF EnterDependency
    <3> QED  BY <3>1 DEF OutcomeInv
  <2>2. CASE DependencyFails(r) \/ DependencyUnsupported(r)
    <3>1. calls'[r] = 0 /\ pc'[r] = "closing" /\ result'[r] \in ModappError
      BY <2>2, MapErrorGivesModappError
         DEF DependencyFails, DependencyUnsupported, PlaceInv
    <3> QED  BY <3>1, RepliesAreNoErrors DEF OutcomeInv
  <2> QED  BY <1>2, <2>1, <2>2
<1>3. CASE CallHandler(r)
  BY <1>0, <1>3 DEF CallHandler, OutcomeInv
<1>4. CASE MakeStream(r) \/ NoBranch(r)
  <2>1. /\ calls'[r] = 0 /\ pc'[r] = "closing"
        /\ \/ result'[r] = "Exception"
           \/ result'[r] = "stream" /\ Cardinality[route[r]] = "UNARY_STREAM"
    BY <1>4 DEF MakeStream, NoBranch, PlaceInv
  <2>2. result'[r] \notin Replies /\ result'[r] \in Errors \cup {"stream"}
    BY <2>1 DEF Replies, Errors
  <2> QED  BY <1>0, <2>1, <2>2 DEF OutcomeInv
<1>5. CASE HandlerReturns(r)
  <2>1. PICK value \in Replies \cup {"not a model"} :
          \E o \in ReplyOutcomes(value) : Outcome(r, o)
    BY <1>5 DEF HandlerReturns
  <2>2. PICK o \in ReplyOutcomes(value) : Outcome(r, o)
    BY <2>1
  <2>3. o \in Replies \cup ModappError
    BY ReplyOutcomesAreServedOrMasked
  <2>4. /\ pc'[r] = "closing" /\ result'[r] = o
        /\ calls'[r] = 1
        /\ Len(stack'[r]) = Len(Dependency(r))
    BY <1>5, <2>2 DEF HandlerReturns, PlaceInv
  <2>5. \A i \in 1..Len(Dependency(r)) : i <= Len(stack'[r])
    BY <2>4, DependencyType, UpTo
  <2>6. o # "stream"
    BY <2>3 DEF Replies, ModappError
  <2> QED
    BY <1>0, <2>3, <2>4, <2>5, <2>6, RepliesAreNoErrors DEF OutcomeInv
<1>6. CASE HandlerRaises(r)
  <2>1. pc'[r] = "closing" /\ result'[r] \in ModappError
    BY <1>6, MapErrorGivesModappError DEF HandlerRaises
  <2>2. result'[r] \notin Replies \cup {"stream"}
    BY <2>1 DEF ModappError, Replies
  <2> QED  BY <2>1, <2>2, RepliesAreNoErrors DEF OutcomeInv
<1>7. CASE ExitDependency(r)
  <2> DEFINE top == Len(stack[r])
  <2>1. /\ top \in Slot
        /\ Len(stack'[r]) = top - 1
        /\ pc' = pc /\ result' = result /\ calls' = calls
        /\ pc[r] = "closing"
    BY <1>7, ExitMovesStack DEF ExitDependency
  <2>2. PICK raised \in Errors \cup {NoError} :
          gen'[r] = [gen[r] EXCEPT ![top] = ExitState(unwinding[r], raised)]
    BY <1>7, ExitMovesStack
  <2>3. \A i \in Slot : Exited(r, i) \/ i = top => Exited(r, i)'
    BY <2>1, <2>2 DEF Exited, ExitState
  <2>4. 1..Len(Dependency(r)) \subseteq Slot
    BY DependencyType DEF Slot
  <2>5. \A i \in 1..Len(Dependency(r)) :
          i <= top => i <= Len(stack'[r]) \/ i = top
    BY <2>1 DEF Slot
  <2> QED  BY <1>0, <2>1, <2>3, <2>4, <2>5 DEF OutcomeInv
<1>8. CASE Finish(r)
  <2>1. Len(stack[r]) = 0 /\ Len(Dependency(r)) \in Nat
    BY <1>8, DependencyType DEF Finish
  <2>2. \A i \in 1..Len(Dependency(r)) : i <= Len(stack[r]) => FALSE
    BY <2>1
  <2>3. \A i : Exited(r, i)' <=> Exited(r, i)
    BY <1>8 DEF Finish, Exited
  <2>4. stack' = stack /\ unwinding' = unwinding /\ calls' = calls
    BY <1>8 DEF Finish
  <2>5. CASE unwinding[r] = NoError
    BY <1>0, <1>8, <2>2, <2>3, <2>4, <2>5 DEF Finish, OutcomeInv
  <2>6. CASE unwinding[r] # NoError
    <3>1. pc'[r] = "done" /\ result'[r] = unwinding[r]
      BY <1>8, <2>6 DEF Finish
    <3>2. result'[r] \notin Replies
      BY <2>6, <3>1, RepliesAreNoErrors
    <3> QED  BY <2>4, <3>1, <3>2 DEF OutcomeInv
  <2> QED  BY <2>5, <2>6
<1>9. CASE StreamHandlerReturns(r) \/ StreamYields(r)
  BY <1>0, <1>9
     DEF StreamHandlerReturns, StreamYields, PlaceInv, OutcomeInv, Exited
<1>10. CASE StreamHandlerFails(r) \/ StreamFails(r) \/ StreamCompletes(r)
            \/ StreamAbandoned(r)
  <2>1. /\ pc'[r] = "done" /\ result'[r] \notin Replies
        /\ Cardinality[route[r]] = "UNARY_STREAM"
    BY <1>10, RepliesAreNoErrors
       DEF StreamHandlerFails, StreamFails, StreamCompletes, StreamAbandoned,
           PlaceInv, StreamEnds
  <2> QED  BY <1>0, <2>1 DEF OutcomeInv
<1> QED
  BY <1>1, <1>2, <1>3, <1>4, <1>5, <1>6, <1>7, <1>8, <1>9, <1>10
     DEF Step, Serve, Stream

-----------------------------------------------------------------------------
\* A step of one request keeps the invariant of all.
LEMMA StepKeepsInv ==
  ASSUME Inv, NEW r \in Request, Step(r)
  PROVE  Inv'
<1>1. TypeOK'
  BY TypeStep DEF Inv
<1>2. ASSUME NEW s \in Request PROVE RequestInv(s)'
  <2>1. CASE s = r
    BY <2>1, StackStep, PlaceStep, UnwindStep, OutcomeStep DEF Inv, RequestInv
  <2>2. CASE s # r
    BY <2>2, OthersKeepInv DEF Inv
  <2> QED  BY <2>1, <2>2
<1> QED  BY <1>1, <1>2 DEF Inv

\* The inductive invariant holds in every reachable state.
THEOREM Invariance == Spec => []Inv
<1>1. Inv /\ [Next]_vars => Inv'
  <2> SUFFICES ASSUME Inv, [Next]_vars PROVE Inv'
    OBVIOUS
  <2>1. CASE Next
    BY <2>1, StepKeepsInv DEF Next, Step
  <2>2. CASE UNCHANGED vars
    BY <2>2 DEF vars, Inv, TypeOK, RequestInv, StackInv, PlaceInv, UnwindInv,
                OutcomeInv, Exited, Dependency
  <2> QED  BY <2>1, <2>2
<1> QED  BY InitInv, <1>1, PTL DEF Spec

-----------------------------------------------------------------------------
\* The properties of GotRequest.

\* No dependency is left at its yield once got_request is over, on any path.
THEOREM NoDependencyOutlives == Spec => []NoDependencyOutlivesGotRequest
<1>1. Inv => NoDependencyOutlivesGotRequest
  BY DEF Inv, RequestInv, StackInv, PlaceInv, Slot,
         NoDependencyOutlivesGotRequest
<1> QED  BY <1>1, Invariance, PTL

\* A unary handler runs inside all of its dependencies.
THEOREM HandlerHolds == Spec => []HandlerHoldsItsDependencies
<1>1. ASSUME Inv, NEW r \in Request, pc[r] = "handler",
             NEW i \in 1..Len(Dependency(r))
      PROVE  gen[r][i] = "suspended"
  <2>1. i \in Slot /\ i <= Len(stack[r])
    BY <1>1, DependencyType DEF Inv, RequestInv, PlaceInv, Slot
  <2> QED  BY <1>1, <2>1 DEF Inv, RequestInv, StackInv
<1>2. Inv => HandlerHoldsItsDependencies
  BY <1>1 DEF HandlerHoldsItsDependencies
<1> QED  BY <1>2, Invariance, PTL

\* Whatever a unary handler raises leaves got_request as a modapp error, unless
\* the exit of a dependency raises after it.
THEOREM ErrorsMasked == Spec => []UnaryErrorsAreMasked
<1>1. Inv => UnaryErrorsAreMasked
  BY DEF Inv, RequestInv, OutcomeInv, UnaryErrorsAreMasked
<1> QED  BY <1>1, Invariance, PTL

\* A reply is given only by a call served and wound up without an exception.
THEOREM ReplyServed == Spec => []ReplyMeansServed
<1>1. Inv => ReplyMeansServed
  BY DEF Inv, RequestInv, OutcomeInv, Exited, ReplyMeansServed
<1> QED  BY <1>1, Invariance, PTL

\* Only the exit of another dependency is ever thrown into a dependency.
THEOREM TeardownBlind == Spec => []TeardownNeverSeesHandlerError
<1>1. Inv => TeardownNeverSeesHandlerError
  BY DEF Inv, RequestInv, UnwindInv, TeardownNeverSeesHandlerError
<1> QED  BY <1>1, Invariance, PTL

\* A step resumes the generator on top of the stack only.
LEMMA StepIsLifo ==
  ASSUME Inv, NEW q \in Request, Step(q), NEW r \in Request,
         NEW i \in Slot, NEW j \in Slot,
         gen[r][i] = "suspended", gen'[r][i] # "suspended", i < j
  PROVE  gen[r][j] # "suspended"
<1>1. r = q
  BY OthersUntouched DEF Inv
<1>2. i <= Len(stack[r])
  BY DEF Inv, RequestInv, StackInv
<1>3. i <= Len(stack'[r]) => FALSE
  BY StepKeepsInv DEF Inv, RequestInv, StackInv
<1>4. CASE ExitDependency(r)
  <2>1. Len(stack[r]) \in Slot /\ Len(stack'[r]) = Len(stack[r]) - 1
    BY <1>4, ExitMovesStack DEF Inv, RequestInv
  <2>2. i = Len(stack[r])
    BY <1>2, <1>3, <2>1 DEF Slot
  <2>3. j <= Len(stack[r]) => FALSE
    BY <2>2 DEF Slot
  <2> QED  BY <2>3 DEF Inv, RequestInv, StackInv
<1>5. CASE EnterDependency(r)
  BY <1>2, <1>3, <1>5, EnterMovesStack DEF Inv, TypeOK, Slot
<1>6. CASE DependencyFails(r)
  BY <1>2, <1>3, <1>6 DEF DependencyFails
<1>7. CASE stack' = stack /\ gen' = gen
  BY <1>7
<1> QED  BY <1>1, <1>4, <1>5, <1>6, <1>7, StackStepsOnly

\* Dependencies are exited in the reverse of the order they were entered in.
THEOREM LifoTeardown == Spec => TeardownIsLifo
<1>1. Inv /\ [Next]_vars =>
        [\A r \in Request : \A i, j \in Slot :
           gen[r][i] = "suspended" /\ gen'[r][i] # "suspended" /\ i < j
             => gen[r][j] # "suspended"]_vars
  BY StepIsLifo DEF Next, Step
<1> QED  BY <1>1, Invariance, PTL DEF Spec, TeardownIsLifo

-----------------------------------------------------------------------------
\* got_request implements Rpc: every step of a request is a step of its call or
\* leaves the call as it is.

\* A step of a request moves its call of Rpc and no other.
LEMMA OnlyItsCallMoves ==
  ASSUME TypeOK, NEW r \in Request, Step(r)
  PROVE  [q \in Request |-> Call(q)]' =
           [[q \in Request |-> Call(q)] EXCEPT ![r] = Call(r)']
<1>1. ASSUME NEW q \in Request, q # r PROVE Call(q)' = Call(q)
  BY <1>1, OthersUntouched DEF Call
<1> QED  BY <1>1

\* Initially every call of Rpc is idle.
LEMMA CallInit == Init => RpcCalls!Init
<1> SUFFICES ASSUME Init, NEW r \in Request PROVE Call(r) = "idle"
  BY DEF Init, RpcCalls!Init
<1> QED  BY DEF Init, Call

\* The moves of a call that a step of its request can be.
LEMMA CallMoves ==
  ASSUME TypeOK, NEW r \in Request, Step(r), messages' = messages
  PROVE  /\ \A to : Call(r) = "idle" /\ to = Call(r)' =>
              RpcCalls!Move(r, "idle", to)
         /\ \A to : Call(r) = "pending" /\ to = Call(r)' =>
              RpcCalls!Move(r, "pending", to)
         /\ \A to : Call(r) = "streaming" /\ to = Call(r)' =>
              RpcCalls!Move(r, "streaming", to)
         /\ Call(r)' = Call(r) => UNCHANGED RpcCalls!vars
<1>1. Call(r)' = Call(r) =>
        [q \in Request |-> Call(q)]' = [q \in Request |-> Call(q)]
  BY OnlyItsCallMoves
<1> QED  BY <1>1, OnlyItsCallMoves DEF RpcCalls!Move, RpcCalls!vars

\* Every step of got_request is a step of Rpc or a stutter.
LEMMA StepSimulates ==
  ASSUME Inv, NEW r \in Request, Step(r)
  PROVE  RpcCalls!Next \/ UNCHANGED RpcCalls!vars
<1> USE DEF Goto, Outcome
<1>0. TypeOK
  BY DEF Inv
<1>1. CASE DecodeFails(r)
  <2>1. /\ Call(r) = "idle"
        /\ Call(r)' \in Errors
        /\ messages' = messages
    BY <1>0, <1>1 DEF DecodeFails, Call, TypeOK, Errors, ModappError
  <2> QED  BY <1>0, <2>1, CallMoves DEF RpcCalls!Next, RpcCalls!Refuse
<1>2. CASE \E meta \in SUBSET MetaKey : Decode(r, meta) \/ MetaMissing(r, meta)
  <2>1. /\ Call(r) = "idle"
        /\ Call(r)' = "pending"
        /\ messages' = messages
    BY <1>0, <1>2 DEF Decode, MetaMissing, Call, TypeOK
  <2> QED  BY <1>0, <2>1, CallMoves DEF RpcCalls!Next, RpcCalls!Submit
<1>3. CASE Serve(r) /\ ~Finish(r)
  <2>1. CASE EnterDependency(r) \/ ExitDependency(r)
    BY <1>0, <2>1, CallMoves DEF EnterDependency, ExitDependency, Call
  <2>2. CASE \/ DependencyFails(r) \/ DependencyUnsupported(r)
             \/ CallHandler(r) \/ MakeStream(r) \/ NoBranch(r)
    BY <1>0, <2>2, CallMoves
       DEF DependencyFails, DependencyUnsupported, CallHandler, MakeStream,
           NoBranch, Call, TypeOK
  <2>3. CASE HandlerReturns(r) \/ HandlerRaises(r)
    BY <1>0, <2>3, CallMoves DEF HandlerReturns, HandlerRaises, Call, TypeOK
  <2> QED  BY <1>3, <2>1, <2>2, <2>3 DEF Serve
<1>4. CASE Finish(r)
  <2>1. Call(r) = "pending" /\ messages' = messages
    BY <1>4 DEF Finish, Call
  <2>2. CASE unwinding[r] = NoError /\ result[r] = "stream"
    <3>1. Call(r)' = "streaming"
      BY <1>0, <1>4, <2>2 DEF Finish, Call, TypeOK
    <3> QED  BY <1>0, <2>1, <3>1, CallMoves
             DEF RpcCalls!Next, RpcCalls!OpenStream
  <2>3. CASE ~(unwinding[r] = NoError /\ result[r] = "stream")
    <3>1. Call(r)' = IF unwinding[r] = NoError THEN result[r] ELSE unwinding[r]
      BY <1>0, <1>4, <2>3 DEF Finish, Call, TypeOK
    <3>2. result[r] \in Replies \cup Errors \cup {"stream"}
      BY <1>4 DEF Finish, Inv, RequestInv, OutcomeInv
    <3>3. Call(r)' \in Replies \cup Errors
      BY <1>0, <2>3, <3>1, <3>2 DEF TypeOK
    <3> QED  BY <1>0, <2>1, <3>3, CallMoves DEF RpcCalls!Next, RpcCalls!Answer
  <2> QED  BY <2>2, <2>3
<1>5. CASE StreamHandlerReturns(r)
  BY <1>0, <1>5, CallMoves DEF StreamHandlerReturns, Call, TypeOK
<1>6. CASE StreamYields(r)
  <2>1. Call(r) = "streaming" /\ Call(r)' = Call(r)
    BY <1>6 DEF StreamYields, Call
  <2> QED  BY <1>0, <1>6, <2>1, OnlyItsCallMoves
           DEF StreamYields, RpcCalls!Next, RpcCalls!Deliver
<1>7. CASE StreamHandlerFails(r) \/ StreamFails(r) \/ StreamCompletes(r)
           \/ StreamAbandoned(r)
  <2>1. /\ Call(r) = "streaming"
        /\ Call(r)' \in Errors \cup StreamEnds
        /\ messages' = messages
    BY <1>0, <1>7
       DEF StreamHandlerFails, StreamFails, StreamCompletes, StreamAbandoned,
           Call, TypeOK, StreamEnds
  <2> QED  BY <1>0, <2>1, CallMoves DEF RpcCalls!Next, RpcCalls!CloseStream
<1> QED
  BY <1>1, <1>2, <1>3, <1>4, <1>5, <1>6, <1>7 DEF Step, Start, Serve, Stream

\* A request is a call of Rpc: it gets one final outcome, and messages only
\* while its stream is open.
THEOREM Implementation == Spec => ImplementsRpc
<1>1. Inv /\ [Next]_vars => [RpcCalls!Next]_(RpcCalls!vars)
  <2> SUFFICES ASSUME Inv, [Next]_vars
               PROVE  [RpcCalls!Next]_(RpcCalls!vars)
    OBVIOUS
  <2>1. CASE Next
    BY <2>1, StepSimulates DEF Next, Step
  <2>2. CASE UNCHANGED vars
    BY <2>2 DEF vars, RpcCalls!vars, Call
  <2> QED  BY <2>1, <2>2
<1> QED  BY CallInit, <1>1, Invariance, PTL DEF Spec, ImplementsRpc, RpcCalls!Spec
=============================================================================
