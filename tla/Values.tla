------------------------------- MODULE Values -------------------------------
(***************************************************************************)
(* Data as trees: a value is a record with a field items, the values in    *)
(* it.  A recursive conversion walks from the items of a value to the      *)
(* value, and is written as its step: Op(u, done) is what it makes of the  *)
(* node u when done[k] is what it makes of the item k of u.                *)
(***************************************************************************)
EXTENDS Naturals

CONSTANT Depth  \* bound on how deep a value nests

ASSUME DepthAssumption == Depth \in Nat \ {0}

\* Level(d, v): what is d levels below v.
Level(d, v) ==
  LET L[n \in 0..Depth] ==
        IF n = 0 THEN {v}
        ELSE UNION {{u.items[k] : k \in DOMAIN u.items} : u \in L[n - 1]}
  IN L[d]

\* A value and everything in it.
Nodes(v) == UNION {Level(d, v) : d \in 0..Depth}

Walk(Op(_, _), v) ==
  LET W[u \in Nodes(v)] == Op(u, [k \in DOMAIN u.items |-> W[u.items[k]]])
  IN W[v]
=============================================================================
