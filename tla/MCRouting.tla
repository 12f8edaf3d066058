------------------------------ MODULE MCRouting ------------------------------
(* An app with two more routers, one of which overrides the dependency.    *)
EXTENDS Routing, TLC

CONSTANTS app, a, b, p1, p2, h1, h2, db, fake

MCDepends == [h \in Handler |-> db]

MCOverrides == [rt \in Router |-> IF rt = a THEN db :> fake ELSE Empty]

Symmetric == Permutations(Path) \cup Permutations(Handler) \cup Permutations(Transport)
=============================================================================
