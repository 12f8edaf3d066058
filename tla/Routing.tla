------------------------------- MODULE Routing -------------------------------
(***************************************************************************)
(* The registration of endpoints: APIRouter and the router of a Modapp.    *)
(* A router has a dictionary of its own and a list of routers included     *)
(* into it; the property "routes" flattens the tree each time it is read.  *)
(* APIRouter.include_router links the other router, Modapp.include_router  *)
(* copies what it has at the moment.                                       *)
(*                                                                         *)
(* Transports get the flattened dictionary as argument of start(), one     *)
(* fresh dictionary each, and serve it until they are stopped.             *)
(* A dictionary is a function whose domain is the keys.                    *)
(***************************************************************************)
EXTENDS Naturals, Sequences, FiniteSets, SequencesExt

CONSTANTS
  Router,       \* APIRouter objects
  App,          \* the one that is Modapp.router
  Path,         \* route paths
  Handler,      \* endpoint functions; each has one Depends parameter
  Dependency,   \* dependency functions
  Depends,      \* Depends[h]: the default of the Depends parameter of h
  Overrides,    \* Overrides[rt]: dependency_overrides of router rt
  Transport,    \* transports of the Modapp
  MaxChanges    \* bound on the registrations and inclusions

ASSUME RoutingAssumption ==
  /\ IsFiniteSet(Router)
  /\ App \in Router
  /\ Depends \in [Handler -> Dependency]
  /\ Overrides \in [Router -> UNION {[D -> Dependency] : D \in SUBSET Dependency}]
  /\ MaxChanges \in Nat

VARIABLES
  own,          \* own[rt]: APIRouter._routes
  children,     \* children[rt]: APIRouter.child_routers
  argument,     \* dictionaries passed to start() coroutines that have not run
  table,        \* table[t]: the dictionary transport t serves
  changes       \* registrations and inclusions so far

vars == <<own, children, argument, table, changes>>

Empty == <<>>

Init ==
  /\ own = [rt \in Router |-> Empty]
  /\ children = [rt \in Router |-> <<>>]
  /\ argument = Empty
  /\ table = Empty
  /\ changes = 0

\* dict.update
Update(d, e) ==
  [k \in DOMAIN d \cup DOMAIN e |-> IF k \in DOMAIN e THEN e[k] ELSE d[k]]

\* The same with each of a sequence of dictionaries in turn.
UpdateAll(d, es) == FoldLeft(Update, d, es)

Without(d, k) == [j \in DOMAIN d \ {k} |-> d[j]]

\* Routers that are d inclusions below rt.
Level(d, rt) ==
  LET L[n \in 0..d] ==
        IF n = 0 THEN {rt}
        ELSE UNION {ToSet(children[c]) : c \in L[n - 1]}
  IN L[d]

\* The routers below rt include each other in a circle: reading rt.routes ends
\* in a RecursionError.
Circular(rt) == Level(Cardinality(Router), rt) # {}

\* APIRouter.routes: its own dictionary, updated with each child in turn.
Routes_ChildrenReplace(rt) ==
  LET R[d \in 0..Cardinality(Router)] ==
        [q \in Router |->
           IF d = 0 \/ children[q] = <<>> THEN own[q]
           ELSE UpdateAll(Empty, [i \in DOMAIN children[q] |-> R[d - 1][children[q][i]]])]
  IN R[Cardinality(Router)][rt]

Routes(rt) ==
  LET R[d \in 0..Cardinality(Router)] ==
        [q \in Router |->
           IF d = 0 THEN own[q]
           ELSE UpdateAll(own[q], [i \in DOMAIN children[q] |-> R[d - 1][children[q][i]]])]
  IN R[Cardinality(Router)][rt]

-----------------------------------------------------------------------------
Change ==
  /\ changes < MaxChanges
  /\ changes' = changes + 1

\* The override of the router the endpoint is registered with, else the default.
Resolve(rt, h) ==
  IF Depends[h] \in DOMAIN Overrides[rt] THEN Overrides[rt][Depends[h]]
  ELSE Depends[h]

\* add_endpoint reads self.routes first, for its log line.
AddEndpoint(rt, p, h) ==
  /\ Change
  /\ ~Circular(rt)
  /\ own' = [own EXCEPT ![rt] = Update(@, [k \in {p} |->
       [handler |-> h, router |-> rt, dependency |-> Resolve(rt, h)]])]
  /\ UNCHANGED <<children, argument, table>>

\* APIRouter.include_router; nothing forbids a router that includes itself.
IncludeRouter(rt, child) ==
  /\ Change
  /\ children' = [children EXCEPT ![rt] = Append(@, child)]
  /\ UNCHANGED <<own, argument, table>>

\* Modapp.include_router adds the routes one by one to the router of the app.
AppIncludeRouter_Replaces(child) ==
  /\ Change
  /\ ~Circular(child)
  /\ own' = [own EXCEPT ![App] = Routes(child)]
  /\ UNCHANGED <<children, argument, table>>

AppIncludeRouter(child) ==
  /\ Change
  /\ ~Circular(child)
  /\ own' = [own EXCEPT ![App] = Update(@, Routes(child))]
  /\ UNCHANGED <<children, argument, table>>

-----------------------------------------------------------------------------
\* run_async builds all start() coroutines before the first of them runs.
RunAsync ==
  /\ argument = Empty /\ table = Empty
  /\ ~Circular(App)
  /\ argument' = [t \in Transport |-> Routes(App)]
  /\ UNCHANGED <<own, children, table, changes>>

\* start(routes) of one transport; the application may register endpoints
\* before the next one gets its turn.
StartTransport_ReadsRoutes(t) ==
  /\ t \in DOMAIN argument
  /\ table' = Update(table, [k \in {t} |-> Routes(App)])
  /\ argument' = Without(argument, t)
  /\ UNCHANGED <<own, children, changes>>

StartTransport(t) ==
  /\ t \in DOMAIN argument
  /\ table' = Update(table, [k \in {t} |-> argument[t]])
  /\ argument' = Without(argument, t)
  /\ UNCHANGED <<own, children, changes>>

Stop ==
  /\ argument = Empty /\ table # Empty
  /\ table' = Empty
  /\ UNCHANGED <<own, children, argument, changes>>

Register ==
  \/ \E rt \in Router, p \in Path, h \in Handler : AddEndpoint(rt, p, h)
  \/ \E rt, child \in Router : IncludeRouter(rt, child)
  \/ \E child \in Router : AppIncludeRouter(child)

Run ==
  \/ RunAsync
  \/ \E t \in Transport : StartTransport(t)
  \/ Stop

Next == Register \/ Run

Spec == Init /\ [][Next]_vars

-----------------------------------------------------------------------------
\* The routers under rt in the order a reader of the registration code meets
\* them: a router, then what is included into it.
Preorder(rt) ==
  LET P[d \in 0..Cardinality(Router)] ==
        [q \in Router |->
           IF d = 0 THEN <<q>>
           ELSE <<q>> \o FlattenSeq([i \in DOMAIN children[q] |->
                                       P[d - 1][children[q][i]]])]
  IN P[Cardinality(Router)][rt]

\* Reference definition of APIRouter.routes: of all routers in the tree that
\* have the path, the one met last decides.
Precedence(rt) ==
  LET order == Preorder(rt)
      Having(p) == {i \in DOMAIN order : p \in DOMAIN own[order[i]]}
  IN [p \in {q \in Path : Having(q) # {}} |-> own[order[Max(Having(p))]][p]]

\* Flattening the tree gives every path of it the route of the router met last.
RoutesFollowPrecedence ==
  \A rt \in Router : ~Circular(rt) => Routes(rt) = Precedence(rt)

\* All transports of a server serve the same routes, whatever is registered
\* while they start one after the other.
TransportsAgree ==
  \A t, u \in DOMAIN table : table[t] = table[u]

\* Registration never takes a path away: what the app could serve it can serve
\* after any number of further registrations and inclusions, until a circular
\* inclusion breaks it.
PathsAreKept ==
  [][~Circular(App) /\ ~Circular(App)'
       => DOMAIN Routes(App) \subseteq DOMAIN Routes(App)']_vars
=============================================================================
