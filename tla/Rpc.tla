-------------------------------- MODULE Rpc --------------------------------
(***************************************************************************)
(* What the request path of a modapp server promises its transports,       *)
(* whatever the converter, the dependencies and the handler do.  A call    *)
(* gets one final outcome: a raw reply, an error, or, on a UNARY_STREAM    *)
(* route, a stream of raw messages that ends once.  Nothing is delivered   *)
(* before the stream is open or after it has ended.                        *)
(***************************************************************************)
EXTENDS Naturals

CONSTANTS
  Request,      \* the calls
  Reply,        \* raw replies of a unary call
  Error,        \* exceptions a call can end with
  StreamEnd     \* ways a stream ends without an exception

VARIABLES
  call,         \* call[r]: "idle", "pending", "streaming" or the outcome
  delivered     \* delivered[r]: stream messages delivered so far

vars == <<call, delivered>>

Init ==
  /\ call = [r \in Request |-> "idle"]
  /\ delivered = [r \in Request |-> 0]

Move(r, from, to) ==
  /\ call[r] = from
  /\ call' = [call EXCEPT ![r] = to]
  /\ UNCHANGED delivered

\* A call that cannot be decoded is refused where it is submitted.
Submit(r) == Move(r, "idle", "pending")
Refuse(r) == \E e \in Error : Move(r, "idle", e)
Answer(r) == \E o \in Reply \cup Error : Move(r, "pending", o)
OpenStream(r) == Move(r, "pending", "streaming")
CloseStream(r) == \E o \in Error \cup StreamEnd : Move(r, "streaming", o)

Deliver(r) ==
  /\ call[r] = "streaming"
  /\ delivered' = [delivered EXCEPT ![r] = @ + 1]
  /\ UNCHANGED call

Next ==
  \E r \in Request :
    \/ Submit(r)
    \/ Refuse(r)
    \/ Answer(r)
    \/ OpenStream(r)
    \/ Deliver(r)
    \/ CloseStream(r)

Spec == Init /\ [][Next]_vars
=============================================================================
