---------------------------- MODULE RoutingProofs ----------------------------
(***************************************************************************)
(* Proofs about Routing, for any routers, paths, handlers and transports.  *)
(*                                                                         *)
(* The helpers of Routing recur over a sequence or over the depth of the   *)
(* tree of routers. Each recursion is first shown to have a solution,      *)
(* which gives its equation; facts about it then follow by induction       *)
(* (Induction) over the length or the depth.                               *)
(*                                                                         *)
(* The order: dict.update and its repetition; flattening a tree of         *)
(* dictionaries (Flat) and of routers (Order); both agree (FlatIsPrec);    *)
(* flattening only grows (FlatGrows); circles; the theorems.               *)
(***************************************************************************)
EXTENDS Routing, TLAPS, WellFoundedInduction, FiniteSetTheorems, SequenceTheorems

\* Induction over the natural numbers, for a set in the place of a predicate.
LEMMA Induction ==
  ASSUME NEW T, 0 \in T, \A n \in Nat : n \in T => n + 1 \in T
  PROVE  Nat \subseteq T
<1> DEFINE Less == OpToRel(<, Nat)
           Rest == Nat \ T
<1>1. SUFFICES ASSUME Rest # {} PROVE FALSE
  OBVIOUS
<1>2. Less = {pair \in Nat \X Nat : pair[1] < pair[2]}
  BY Zenon DEF OpToRel
<1>3. IsWellFoundedOn(Less, Nat)
  BY NatLessThanWellFounded, Zenon
<1> HIDE DEF Less
<1>4. PICK n \in Rest : \A m \in Rest : <<m, n>> \notin Less
  BY <1>1, <1>3, WFMin, Zenon
<1>5. n \in Nat /\ n - 1 \in Nat /\ n - 1 < n /\ n - 1 \in Rest
  OBVIOUS
<1> QED BY <1>2, <1>4, <1>5

\* Max is the greatest element.
LEMMA MaxIs ==
  ASSUME NEW S \in SUBSET Nat, NEW m \in S, \A x \in S : x <= m
  PROVE  Max(S) = m
<1>1. \A x \in S : (\A y \in S : x >= y) <=> x = m
  OBVIOUS
<1> QED BY <1>1 DEF Max

\* What add_endpoint enters under a path, and dictionaries of it.
Route == [handler : Handler, router : Router, dependency : Dependency]
Dict == UNION {[K -> Route] : K \in SUBSET Path}

\* A dictionary of routes: what its keys and its values are.
LEMMA DictDef ==
  ASSUME NEW d
  PROVE  d \in Dict <=> /\ d = [k \in DOMAIN d |-> d[k]]
                        /\ DOMAIN d \subseteq Path
                        /\ \A k \in DOMAIN d : d[k] \in Route
<1>1. ASSUME d \in Dict
      PROVE  /\ d = [k \in DOMAIN d |-> d[k]]
             /\ DOMAIN d \subseteq Path
             /\ \A k \in DOMAIN d : d[k] \in Route
  <2>1. PICK K \in SUBSET Path : d \in [K -> Route]
    BY <1>1 DEF Dict
  <2> QED BY <2>1
<1>2. ASSUME d = [k \in DOMAIN d |-> d[k]], DOMAIN d \subseteq Path,
             \A k \in DOMAIN d : d[k] \in Route
      PROVE  d \in Dict
  <2>1. d \in [DOMAIN d -> Route]
    BY <1>2
  <2> QED BY <2>1, <1>2, Zenon DEF Dict
<1> QED BY <1>1, <1>2

\* dict.update gives a dictionary of routes with the keys of both.
LEMMA UpdateDict ==
  ASSUME NEW d \in Dict, NEW e \in Dict
  PROVE  /\ Update(d, e) \in Dict
         /\ DOMAIN Update(d, e) = DOMAIN d \cup DOMAIN e
<1>1. /\ DOMAIN Update(d, e) = DOMAIN d \cup DOMAIN e
      /\ Update(d, e) = [k \in DOMAIN Update(d, e) |-> Update(d, e)[k]]
      /\ \A k \in DOMAIN Update(d, e) :
           Update(d, e)[k] = IF k \in DOMAIN e THEN e[k] ELSE d[k]
  BY DEF Update
<1>2. /\ DOMAIN d \subseteq Path /\ DOMAIN e \subseteq Path
      /\ \A k \in DOMAIN d : d[k] \in Route
      /\ \A k \in DOMAIN e : e[k] \in Route
  BY DictDef
<1> HIDE DEF Update
<1>3. Update(d, e) \in Dict
  <2>1. \A k \in DOMAIN Update(d, e) : Update(d, e)[k] \in Route
    BY <1>1, <1>2
  <2>2. DOMAIN Update(d, e) \subseteq Path
    BY <1>1, <1>2
  <2> QED BY <1>1, <2>1, <2>2, DictDef, Zenon
<1> QED BY <1>1, <1>3

\* FoldLeft goes through the dictionaries one by one.
LEMMA UpdateAllSteps ==
  ASSUME NEW d \in Dict, NEW es \in Seq(Dict)
  PROVE  \E F \in [0..Len(es) -> Dict] :
           /\ F[0] = d
           /\ \A i \in 1..Len(es) : F[i] = Update(F[i - 1], es[i])
           /\ UpdateAll(d, es) = F[Len(es)]
<1> DEFINE Body(it, t) == IF t = {} THEN d ELSE Update(it[t \ {Max(t)}], es[Max(t)])
           It == CHOOSE it : it = [t \in SUBSET DOMAIN es |-> Body(it, t)]
           Known == {n \in Nat : \E it : it = [t \in SUBSET (1..n) |-> Body(it, t)]}
<1>1. UpdateAll(d, es) = It[DOMAIN es]
  BY DEF UpdateAll, FoldLeft, MapThenFoldSet
<1>2. 0 \in Known
  <2> DEFINE g == [t \in SUBSET (1..0) |-> d]
  <2>1. \A t \in SUBSET (1..0) : t = {}
    OBVIOUS
  <2>2. g = [t \in SUBSET (1..0) |-> Body(g, t)]
    BY <2>1
  <2> QED BY <2>2
<1>3. ASSUME NEW n \in Nat, n \in Known PROVE n + 1 \in Known
  <2>1. PICK g : g = [t \in SUBSET (1..n) |-> Body(g, t)]
    BY <1>3
  <2> DEFINE h == [t \in SUBSET (1..(n + 1)) |->
                     IF n + 1 \in t THEN Update(g[t \ {n + 1}], es[n + 1]) ELSE g[t]]
  <2>2. ASSUME NEW t \in SUBSET (1..(n + 1)) PROVE h[t] = Body(h, t)
    <3>1. CASE n + 1 \in t
      <4>1. Max(t) = n + 1
        <5>1. t \in SUBSET Nat /\ \A x \in t : x <= n + 1
          OBVIOUS
        <5> QED BY <5>1, <3>1, MaxIs
      <4>2. h[t \ {n + 1}] = g[t \ {n + 1}]
        OBVIOUS
      <4>3. h[t] = Update(g[t \ {n + 1}], es[n + 1])
        BY <3>1
      <4> HIDE DEF h
      <4> QED BY <4>1, <4>2, <4>3, <3>1
    <3>2. CASE n + 1 \notin t
      <4>1. t \in SUBSET (1..n) /\ t \ {Max(t)} \in SUBSET (1..n)
        <5>1. \A x \in t : x \in 1..n
          BY <3>2
        <5> QED BY <5>1
      <4>2. h[t] = g[t] /\ h[t \ {Max(t)}] = g[t \ {Max(t)}]
        BY <4>1, <3>2
      <4>3. g[t] = Body(g, t)
        BY <4>1, <2>1
      <4> HIDE DEF h
      <4> QED BY <4>2, <4>3
    <3> QED BY <3>1, <3>2
  <2>3. h = [t \in SUBSET (1..(n + 1)) |-> Body(h, t)]
    <3> HIDE DEF Body
    <3> QED BY <2>2
  <2> HIDE DEF h, Body
  <2> QED BY <2>3
<1>4. Len(es) \in Known /\ DOMAIN es = 1..Len(es) /\ Len(es) \in Nat
  <2> HIDE DEF Known
  <2> QED BY <1>2, <1>3, Induction
<1>5. It = [t \in SUBSET DOMAIN es |-> Body(It, t)]
  BY <1>4
<1> HIDE DEF It, Known
<1> DEFINE F == [i \in 0..Len(es) |-> It[1..i]]
<1>6. F[0] = d
  BY <1>4, <1>5
<1>7. ASSUME NEW i \in 1..Len(es) PROVE F[i] = Update(F[i - 1], es[i])
  <2>1. Max(1..i) = i /\ (1..i) \ {i} = 1..(i - 1) /\ 1..i # {} /\ 1..i \in SUBSET DOMAIN es
    <3>1. 1..i \in SUBSET Nat /\ i \in 1..i /\ \A x \in 1..i : x <= i
      BY <1>4
    <3>2. Max(1..i) = i
      BY <3>1, MaxIs
    <3>3. i \in Nat /\ Len(es) \in Nat /\ i >= 1 /\ i <= Len(es)
      BY <1>4
    <3>4. (1..i) \ {i} = 1..(i - 1) /\ 1..i # {}
      <4>1. ASSUME NEW x PROVE x \in (1..i) \ {i} <=> x \in 1..(i - 1)
        BY <3>3
      <4> QED BY <4>1, <3>1
    <3>5. 1..i \subseteq 1..Len(es)
      BY <3>3
    <3> QED BY <3>2, <3>4, <3>5, <1>4
  <2>2. It[1..i] = Body(It, 1..i)
    <3> HIDE DEF Body
    <3> QED BY <2>1, <1>5
  <2>3. It[1..i] = Update(It[1..(i - 1)], es[i])
    BY <2>1, <2>2
  <2>4. F[i] = It[1..i] /\ F[i - 1] = It[1..(i - 1)]
    BY <1>4
  <2> QED BY <2>3, <2>4
<1> DEFINE Good == {n \in Nat : n <= Len(es) => F[n] \in Dict}
<1>8. Len(es) \in Nat /\ \A n \in 0..Len(es) : F[n] \in Dict
  <2>1. 0 \in Good
    BY <1>6
  <2>2. ASSUME NEW n \in Nat, n \in Good PROVE n + 1 \in Good
    <3>1. CASE n + 1 <= Len(es)
      <4>1. n + 1 \in 1..Len(es) /\ F[n] \in Dict /\ es[n + 1] \in Dict /\ (n + 1) - 1 = n
        BY <3>1, <2>2, <1>4
      <4>2. F[n + 1] = Update(F[n], es[n + 1])
        BY <1>7, <4>1
      <4> HIDE DEF F
      <4>3. F[n + 1] \in Dict
        BY <4>1, <4>2, UpdateDict
      <4> QED BY <4>3
    <3>2. CASE ~(n + 1 <= Len(es))
      BY <3>2
    <3> QED BY <3>1, <3>2
  <2>3. Nat \subseteq Good
    <3> HIDE DEF Good
    <3> QED BY <2>1, <2>2, Induction
  <2>4. ASSUME NEW n \in 0..Len(es) PROVE F[n] \in Dict
    <3> HIDE DEF F
    <3> QED BY <2>3, <1>4
  <2> QED BY <2>4, <1>4
<1>9. F \in [0..Len(es) -> Dict] /\ UpdateAll(d, es) = F[Len(es)]
  BY <1>1, <1>4, <1>8
<1> HIDE DEF F
<1> QED BY <1>6, <1>7, <1>9

-----------------------------------------------------------------------------
\* FlattenSeq goes through the sequences one by one.
LEMMA FlattenSteps ==
  ASSUME NEW ss \in Seq(Seq(Router))
  PROVE  \E F \in [0..Len(ss) -> Seq(Router)] :
           /\ F[0] = <<>>
           /\ \A i \in 1..Len(ss) : F[i] = F[i - 1] \o ss[i]
           /\ FlattenSeq(ss) = F[Len(ss)]
<1> DEFINE N == Len(ss)
           Body(g, i) == IF i = 1 THEN ss[i] ELSE g[i - 1] \o ss[i]
           It == CHOOSE g : g = [i \in 1..N |-> Body(g, i)]
           Known == {n \in Nat : \E g : g = [i \in 1..n |-> Body(g, i)]}
           F == [i \in 0..N |-> IF i = 0 THEN <<>> ELSE It[i]]
<1>1. N \in Nat /\ \A i \in 1..N : ss[i] \in Seq(Router)
  OBVIOUS
<1>2. FlattenSeq(ss) = IF N = 0 THEN ss ELSE It[N]
  BY DEF FlattenSeq
<1>3. 0 \in Known
  <2> DEFINE g == [i \in 1..0 |-> 0]
  <2>1. g = [i \in 1..0 |-> Body(g, i)]
    OBVIOUS
  <2> QED BY <2>1
<1>4. ASSUME NEW n \in Nat, n \in Known PROVE n + 1 \in Known
  <2>1. PICK g : g = [i \in 1..n |-> Body(g, i)]
    BY <1>4
  <2> DEFINE h == [i \in 1..(n + 1) |-> IF i <= n THEN g[i] ELSE Body(g, n + 1)]
  <2>2. ASSUME NEW i \in 1..(n + 1) PROVE h[i] = Body(h, i)
    <3>1. i # 1 => h[i - 1] = g[i - 1]
      OBVIOUS
    <3>2. Body(h, i) = Body(g, i)
      BY <3>1
    <3>3. h[i] = Body(g, i)
      <4>1. CASE i <= n
        <5>1. i \in 1..n /\ h[i] = g[i]
          BY <4>1
        <5> HIDE DEF h, Body
        <5> QED BY <5>1, <2>1
      <4>2. CASE i = n + 1
        BY <4>2
      <4> QED BY <4>1, <4>2
    <3> QED BY <3>2, <3>3
  <2>3. h = [i \in 1..(n + 1) |-> Body(h, i)]
    <3> HIDE DEF Body
    <3> QED BY <2>2
  <2> HIDE DEF h, Body
  <2> QED BY <2>3
<1>5. N \in Known
  <2> HIDE DEF Known
  <2> QED BY <1>1, <1>3, <1>4, Induction
<1>6. It = [i \in 1..N |-> Body(It, i)]
  BY <1>5
<1> HIDE DEF It, Known
<1>7. F[0] = <<>> /\ \A i \in 1..N : F[i] = It[i]
  BY <1>1
<1>8. \A i \in 1..N : It[i] = IF i = 1 THEN ss[i] ELSE It[i - 1] \o ss[i]
  BY <1>6
<1>9. ASSUME NEW i \in 1..N PROVE F[i] = F[i - 1] \o ss[i]
  <2>1. CASE i = 1
    <3>1. F[i] = ss[1] /\ ss[1] \in Seq(Router)
      BY <2>1, <1>1, <1>7, <1>8
    <3>2. <<>> \o ss[1] = ss[1]
      BY <3>1, ConcatEmptySeq
    <3>3. F[i - 1] = <<>> /\ ss[i] = ss[1]
      BY <2>1, <1>7
    <3> HIDE DEF F
    <3> QED BY <3>1, <3>2, <3>3
  <2>2. CASE i # 1
    <3>1. i - 1 \in 1..N
      BY <2>2, <1>1
    <3> QED BY <3>1, <2>2, <1>7, <1>8
  <2> QED BY <2>1, <2>2
<1> DEFINE Good == {n \in Nat : n <= N => F[n] \in Seq(Router)}
<1> HIDE DEF F
<1>10. 0 \in Good
  <2>1. <<>> \in Seq(Router)
    OBVIOUS
  <2> QED BY <2>1, <1>7
<1>11. ASSUME NEW n \in Nat, n \in Good PROVE n + 1 \in Good
  <2>1. CASE n + 1 <= N
    <3>1. n + 1 \in 1..N /\ F[n] \in Seq(Router) /\ ss[n + 1] \in Seq(Router) /\ (n + 1) - 1 = n
      BY <2>1, <1>11, <1>1
    <3>2. F[n + 1] = F[n] \o ss[n + 1]
      BY <3>1, <1>9
    <3>3. F[n + 1] \in Seq(Router)
      BY <3>1, <3>2
    <3> QED BY <3>3
  <2>2. CASE ~(n + 1 <= N)
    BY <2>2
  <2> QED BY <2>1, <2>2
<1>12. Nat \subseteq Good
  <2> HIDE DEF Good
  <2> QED BY <1>10, <1>11, Induction
<1>13. F \in [0..N -> Seq(Router)]
  <2>1. \A n \in 0..N : F[n] \in Seq(Router)
    BY <1>12, <1>1
  <2> QED BY <2>1 DEF F
<1>14. FlattenSeq(ss) = F[N]
  <2>1. CASE N = 0
    BY <2>1, <1>2, <1>7
  <2>2. CASE N # 0
    BY <2>2, <1>1, <1>2, <1>7
  <2> QED BY <2>1, <2>2
<1> QED BY <1>7, <1>9, <1>13, <1>14

-----------------------------------------------------------------------------
\* How deep the tree is searched: no chain of inclusions without a circle is
\* longer.
Deep == Cardinality(Router)

\* There are finitely many routers.
LEMMA DeepType == Deep \in Nat
BY RoutingAssumption, FS_CardinalityType DEF Deep

\* APIRouter.routes of every router, d inclusions deep, for any dictionaries
\* and inclusions: the function Routes is defined with.
Flat(o, c) ==
  LET R[d \in 0..Deep] ==
        [q \in Router |->
           IF d = 0 THEN o[q]
           ELSE UpdateAll(o[q], [i \in DOMAIN c[q] |-> R[d - 1][c[q][i]]])]
  IN R

\* Routes is Flat at the greatest depth.
LEMMA RoutesAreFlat ==
  ASSUME NEW rt \in Router
  PROVE  /\ Routes(rt) = Flat(own, children)[Deep][rt]
         /\ Routes(rt)' = Flat(own', children')[Deep][rt]
BY DEF Routes, Flat, Deep

\* Flat obeys the recursion it is defined by, and gives dictionaries.
LEMMA FlatSteps ==
  ASSUME NEW o \in [Router -> Dict], NEW c \in [Router -> Seq(Router)]
  PROVE  /\ \A q \in Router : Flat(o, c)[0][q] = o[q]
         /\ \A d \in 1..Deep, q \in Router :
              Flat(o, c)[d][q] =
                UpdateAll(o[q], [i \in DOMAIN c[q] |-> Flat(o, c)[d - 1][c[q][i]]])
         /\ \A d \in 0..Deep, q \in Router : Flat(o, c)[d][q] \in Dict
<1> DEFINE Body(g, d) ==
             [q \in Router |->
                IF d = 0 THEN o[q]
                ELSE UpdateAll(o[q], [i \in DOMAIN c[q] |-> g[d - 1][c[q][i]]])]
           Known == {n \in Nat : \E g : g = [d \in 0..n |-> Body(g, d)]}
           F == Flat(o, c)
<1>1. 0 \in Known
  <2> DEFINE g == [d \in 0..0 |-> o]
  <2>1. \A d \in 0..0 : g[d] = Body(g, d)
    OBVIOUS
  <2>2. g = [d \in 0..0 |-> Body(g, d)]
    BY <2>1
  <2> QED BY <2>2
<1>2. ASSUME NEW n \in Nat, n \in Known PROVE n + 1 \in Known
  <2>1. PICK g : g = [d \in 0..n |-> Body(g, d)]
    BY <1>2
  <2> DEFINE h == [d \in 0..(n + 1) |-> IF d <= n THEN g[d] ELSE Body(g, n + 1)]
  <2>2. ASSUME NEW d \in 0..(n + 1) PROVE h[d] = Body(h, d)
    <3>1. d # 0 => h[d - 1] = g[d - 1]
      OBVIOUS
    <3>2. Body(h, d) = Body(g, d)
      <4>1. CASE d = 0
        BY <4>1
      <4>2. CASE d # 0
        <5> HIDE DEF h
        <5> QED BY <4>2, <3>1
      <4> QED BY <4>1, <4>2
    <3>3. h[d] = Body(g, d)
      <4> HIDE DEF Body
      <4>1. CASE d <= n
        <5>1. d \in 0..n /\ h[d] = g[d]
          BY <4>1
        <5> HIDE DEF h
        <5> QED BY <5>1, <2>1
      <4>2. CASE d = n + 1
        BY <4>2
      <4> QED BY <4>1, <4>2
    <3> HIDE DEF Body, h
    <3> QED BY <3>2, <3>3
  <2>3. h = [d \in 0..(n + 1) |-> Body(h, d)]
    <3> HIDE DEF Body
    <3> QED BY <2>2
  <2> HIDE DEF h, Body
  <2> QED BY <2>3
<1>3. Deep \in Known
  <2> HIDE DEF Known
  <2> QED BY <1>1, <1>2, Induction, DeepType
<1>4. F = [d \in 0..Deep |-> Body(F, d)]
  <2>1. F = CHOOSE g : g = [d \in 0..Deep |-> Body(g, d)]
    BY DEF Flat
  <2>2. \E g : g = [d \in 0..Deep |-> Body(g, d)]
    BY <1>3
  <2> HIDE DEF Body, F
  <2> QED BY <2>1, <2>2
<1> HIDE DEF F
<1>5. \A q \in Router : F[0][q] = o[q]
  BY <1>4, DeepType
<1>6. ASSUME NEW d \in 1..Deep, NEW q \in Router
      PROVE  F[d][q] = UpdateAll(o[q], [i \in DOMAIN c[q] |-> F[d - 1][c[q][i]]])
  <2>1. d \in 0..Deep /\ d # 0
    BY DeepType
  <2>2. F[d] = Body(F, d)
    <3> HIDE DEF Body
    <3> QED BY <2>1, <1>4
  <2> QED BY <2>1, <2>2
<1> DEFINE Good == {n \in Nat : n <= Deep => \A q \in Router : F[n][q] \in Dict}
<1>7. 0 \in Good
  BY <1>5
<1>8. ASSUME NEW n \in Nat, n \in Good PROVE n + 1 \in Good
  <2>1. ASSUME n + 1 <= Deep, NEW q \in Router PROVE F[n + 1][q] \in Dict
    <3> DEFINE es == [i \in DOMAIN c[q] |-> F[n][c[q][i]]]
    <3>1. n + 1 \in 1..Deep /\ (n + 1) - 1 = n /\ \A r \in Router : F[n][r] \in Dict
      BY <2>1, <1>8, DeepType
    <3>2. F[n + 1][q] = UpdateAll(o[q], es)
      <4>1. F[n + 1][q] = UpdateAll(o[q], [i \in DOMAIN c[q] |-> F[(n + 1) - 1][c[q][i]]])
        BY <3>1, <1>6
      <4> QED BY <4>1, <3>1
    <3>3. es \in Seq(Dict)
      <4>1. c[q] \in Seq(Router) /\ DOMAIN c[q] = 1..Len(c[q]) /\ Len(c[q]) \in Nat
        OBVIOUS
      <4>2. \A i \in 1..Len(c[q]) : es[i] \in Dict
        BY <4>1, <3>1
      <4> QED BY <4>1, <4>2, IsASeq
    <3> HIDE DEF es
    <3>4. PICK G \in [0..Len(es) -> Dict] : UpdateAll(o[q], es) = G[Len(es)]
      BY <3>3, UpdateAllSteps
    <3>5. Len(es) \in 0..Len(es)
      BY <3>3
    <3> QED BY <3>2, <3>4, <3>5
  <2> QED BY <2>1
<1>9. Nat \subseteq Good
  <2> HIDE DEF Good
  <2> QED BY <1>7, <1>8, Induction
<1>10. \A d \in 0..Deep, q \in Router : F[d][q] \in Dict
  BY <1>9, DeepType
<1> QED BY <1>5, <1>6, <1>10 DEF F

-----------------------------------------------------------------------------
\* The routers below each router, d inclusions deep, in the order of Preorder.
Order(c) ==
  LET P[d \in 0..Deep] ==
        [q \in Router |->
           IF d = 0 THEN <<q>>
           ELSE <<q>> \o FlattenSeq([i \in DOMAIN c[q] |-> P[d - 1][c[q][i]]])]
  IN P

\* Order obeys the recursion it is defined by, and gives sequences of routers.
LEMMA OrderSteps ==
  ASSUME NEW c \in [Router -> Seq(Router)]
  PROVE  /\ \A q \in Router : Order(c)[0][q] = <<q>>
         /\ \A d \in 1..Deep, q \in Router :
              Order(c)[d][q] =
                <<q>> \o FlattenSeq([i \in DOMAIN c[q] |-> Order(c)[d - 1][c[q][i]]])
         /\ \A d \in 0..Deep, q \in Router : Order(c)[d][q] \in Seq(Router)
<1> DEFINE Body(g, d) ==
             [q \in Router |->
                IF d = 0 THEN <<q>>
                ELSE <<q>> \o FlattenSeq([i \in DOMAIN c[q] |-> g[d - 1][c[q][i]]])]
           Known == {n \in Nat : \E g : g = [d \in 0..n |-> Body(g, d)]}
           F == Order(c)
<1>1. 0 \in Known
  <2> DEFINE g == [d \in 0..0 |-> [q \in Router |-> <<q>>]]
  <2>1. \A d \in 0..0 : g[d] = Body(g, d)
    OBVIOUS
  <2>2. g = [d \in 0..0 |-> Body(g, d)]
    BY <2>1
  <2> QED BY <2>2
<1>2. ASSUME NEW n \in Nat, n \in Known PROVE n + 1 \in Known
  <2>1. PICK g : g = [d \in 0..n |-> Body(g, d)]
    BY <1>2
  <2> DEFINE h == [d \in 0..(n + 1) |-> IF d <= n THEN g[d] ELSE Body(g, n + 1)]
  <2>2. ASSUME NEW d \in 0..(n + 1) PROVE h[d] = Body(h, d)
    <3>1. d # 0 => h[d - 1] = g[d - 1]
      OBVIOUS
    <3>2. Body(h, d) = Body(g, d)
      <4>1. CASE d = 0
        BY <4>1
      <4>2. CASE d # 0
        <5> HIDE DEF h
        <5> QED BY <4>2, <3>1
      <4> QED BY <4>1, <4>2
    <3>3. h[d] = Body(g, d)
      <4> HIDE DEF Body
      <4>1. CASE d <= n
        <5>1. d \in 0..n /\ h[d] = g[d]
          BY <4>1
        <5> HIDE DEF h
        <5> QED BY <5>1, <2>1
      <4>2. CASE d = n + 1
        BY <4>2
      <4> QED BY <4>1, <4>2
    <3> HIDE DEF Body, h
    <3> QED BY <3>2, <3>3
  <2>3. h = [d \in 0..(n + 1) |-> Body(h, d)]
    <3> HIDE DEF Body
    <3> QED BY <2>2
  <2> HIDE DEF h, Body
  <2> QED BY <2>3
<1>3. Deep \in Known
  <2> HIDE DEF Known
  <2> QED BY <1>1, <1>2, Induction, DeepType
<1>4. F = [d \in 0..Deep |-> Body(F, d)]
  <2>1. F = CHOOSE g : g = [d \in 0..Deep |-> Body(g, d)]
    BY DEF Order
  <2>2. \E g : g = [d \in 0..Deep |-> Body(g, d)]
    BY <1>3
  <2> HIDE DEF Body, F
  <2> QED BY <2>1, <2>2
<1> HIDE DEF F
<1>5. \A q \in Router : F[0][q] = <<q>>
  BY <1>4, DeepType
<1>6. ASSUME NEW d \in 1..Deep, NEW q \in Router
      PROVE  F[d][q] = <<q>> \o FlattenSeq([i \in DOMAIN c[q] |-> F[d - 1][c[q][i]]])
  <2>1. d \in 0..Deep /\ d # 0
    BY DeepType
  <2>2. F[d] = Body(F, d)
    <3> HIDE DEF Body
    <3> QED BY <2>1, <1>4
  <2> QED BY <2>1, <2>2
<1> DEFINE Good == {n \in Nat : n <= Deep => \A q \in Router : F[n][q] \in Seq(Router)}
<1>7. 0 \in Good
  <2>1. \A q \in Router : <<q>> \in Seq(Router)
    OBVIOUS
  <2>2. \A q \in Router : F[0][q] \in Seq(Router)
    BY <2>1, <1>5
  <2> QED BY <2>2
<1>8. ASSUME NEW n \in Nat, n \in Good PROVE n + 1 \in Good
  <2>1. ASSUME n + 1 <= Deep, NEW q \in Router PROVE F[n + 1][q] \in Seq(Router)
    <3> DEFINE ss == [i \in DOMAIN c[q] |-> F[n][c[q][i]]]
    <3>1. n + 1 \in 1..Deep /\ (n + 1) - 1 = n /\ \A r \in Router : F[n][r] \in Seq(Router)
      BY <2>1, <1>8, DeepType
    <3>2. F[n + 1][q] = <<q>> \o FlattenSeq(ss)
      <4>1. F[n + 1][q] = <<q>> \o FlattenSeq([i \in DOMAIN c[q] |-> F[(n + 1) - 1][c[q][i]]])
        BY <3>1, <1>6
      <4> QED BY <4>1, <3>1
    <3>3. ss \in Seq(Seq(Router))
      <4>1. c[q] \in Seq(Router) /\ DOMAIN c[q] = 1..Len(c[q]) /\ Len(c[q]) \in Nat
        OBVIOUS
      <4>2. \A i \in 1..Len(c[q]) : ss[i] \in Seq(Router)
        BY <4>1, <3>1
      <4> QED BY <4>1, <4>2, IsASeq
    <3> HIDE DEF ss
    <3>4. PICK G \in [0..Len(ss) -> Seq(Router)] : FlattenSeq(ss) = G[Len(ss)]
      BY <3>3, FlattenSteps
    <3>5. Len(ss) \in 0..Len(ss)
      BY <3>3
    <3>6. FlattenSeq(ss) \in Seq(Router)
      BY <3>4, <3>5
    <3>7. <<q>> \in Seq(Router)
      OBVIOUS
    <3>8. <<q>> \o FlattenSeq(ss) \in Seq(Router)
      BY <3>6, <3>7, ConcatProperties
    <3> QED BY <3>2, <3>8
  <2> QED BY <2>1
<1>9. Nat \subseteq Good
  <2> HIDE DEF Good
  <2> QED BY <1>7, <1>8, Induction
<1>10. \A d \in 0..Deep, q \in Router : F[d][q] \in Seq(Router)
  BY <1>9, DeepType
<1> QED BY <1>5, <1>6, <1>10 DEF F

-----------------------------------------------------------------------------
\* Positions of a sequence of routers that have a path; Precedence for it.
Having(o, s, p) == {i \in DOMAIN s : p \in DOMAIN o[s[i]]}

Prec(o, s) ==
  [p \in {q \in Path : Having(o, s, q) # {}} |-> o[s[Max(Having(o, s, p))]][p]]

\* Precedence is Prec of the routers in the order of Order.
LEMMA PrecedenceIsPrec ==
  ASSUME NEW rt \in Router
  PROVE  Precedence(rt) = Prec(own, Order(children)[Deep][rt])
BY DEF Precedence, Prec, Having, Preorder, Order, Deep

\* A set of positions has a last one.
LEMMA HasMax ==
  ASSUME NEW n \in Nat, NEW S \in SUBSET (1..n), S # {}
  PROVE  \E m \in S : Max(S) = m /\ \A x \in S : x <= m
<1> DEFINE Bounded == {k \in Nat : \A T \in SUBSET (1..k) :
                         T # {} => \E m \in T : \A x \in T : x <= m}
<1>1. 0 \in Bounded
  <2>1. \A T \in SUBSET (1..0) : T = {}
    OBVIOUS
  <2> QED BY <2>1
<1>2. ASSUME NEW k \in Nat, k \in Bounded PROVE k + 1 \in Bounded
  <2>1. ASSUME NEW T \in SUBSET (1..(k + 1)), T # {}
        PROVE  \E m \in T : \A x \in T : x <= m
    <3>1. CASE k + 1 \in T
      BY <3>1
    <3>2. CASE k + 1 \notin T
      <4>1. ASSUME NEW x \in T PROVE x \in 1..k
        BY <3>2
      <4>2. T \in SUBSET (1..k)
        BY <4>1
      <4> QED BY <4>2, <2>1, <1>2
    <3> QED BY <3>1, <3>2
  <2> QED BY <2>1
<1>3. n \in Bounded
  <2> HIDE DEF Bounded
  <2> QED BY <1>1, <1>2, Induction
<1>4. PICK m \in S : \A x \in S : x <= m
  BY <1>3
<1>5. S \in SUBSET Nat
  OBVIOUS
<1> QED BY <1>4, <1>5, MaxIs

\* The route of a path is that of the last router that has it.
LEMMA PrecValue ==
  ASSUME NEW o \in [Router -> Dict], NEW s \in Seq(Router), NEW p
  PROVE  \A i \in DOMAIN s :
           p \in DOMAIN o[s[i]] /\ (\A j \in DOMAIN s : j > i => p \notin DOMAIN o[s[j]])
             => p \in DOMAIN Prec(o, s) /\ Prec(o, s)[p] = o[s[i]][p]
<1> SUFFICES ASSUME NEW i \in DOMAIN s, p \in DOMAIN o[s[i]],
                    \A j \in DOMAIN s : j > i => p \notin DOMAIN o[s[j]]
             PROVE  p \in DOMAIN Prec(o, s) /\ Prec(o, s)[p] = o[s[i]][p]
  OBVIOUS
<1>1. i \in Nat /\ DOMAIN s \subseteq Nat /\ s[i] \in Router
  OBVIOUS
<1>2. p \in Path
  BY <1>1, DictDef
<1>3. i \in Having(o, s, p) /\ Having(o, s, p) \in SUBSET Nat
  BY <1>1 DEF Having
<1>4. \A j \in Having(o, s, p) : j <= i
  BY <1>1 DEF Having
<1>5. Max(Having(o, s, p)) = i
  BY <1>3, <1>4, MaxIs
<1> QED BY <1>2, <1>3, <1>5 DEF Prec

\* Who has a path in Prec: the last router of the sequence that has it.
LEMMA PrecDomain ==
  ASSUME NEW o \in [Router -> Dict], NEW s \in Seq(Router), NEW p
  PROVE  /\ p \in DOMAIN Prec(o, s) <=> \E i \in DOMAIN s : p \in DOMAIN o[s[i]]
         /\ p \in DOMAIN Prec(o, s) =>
              \E i \in DOMAIN s : /\ p \in DOMAIN o[s[i]]
                                  /\ \A j \in DOMAIN s : j > i => p \notin DOMAIN o[s[j]]
                                  /\ Prec(o, s)[p] = o[s[i]][p]
<1>1. DOMAIN s = 1..Len(s) /\ Len(s) \in Nat /\ \A i \in DOMAIN s : s[i] \in Router
  OBVIOUS
<1>2. p \in DOMAIN Prec(o, s) <=> \E i \in DOMAIN s : p \in DOMAIN o[s[i]]
  <2>1. p \in DOMAIN Prec(o, s) <=> p \in Path /\ Having(o, s, p) # {}
    BY DEF Prec
  <2>2. \A i \in DOMAIN s : p \in DOMAIN o[s[i]] => p \in Path
    BY <1>1, DictDef
  <2> QED BY <2>1, <2>2 DEF Having
<1>3. ASSUME p \in DOMAIN Prec(o, s)
      PROVE  \E i \in DOMAIN s : /\ p \in DOMAIN o[s[i]]
                                 /\ \A j \in DOMAIN s : j > i => p \notin DOMAIN o[s[j]]
                                 /\ Prec(o, s)[p] = o[s[i]][p]
  <2>1. Having(o, s, p) # {} /\ Having(o, s, p) \in SUBSET (1..Len(s))
    BY <1>1, <1>3 DEF Prec, Having
  <2>2. PICK m \in Having(o, s, p) : \A x \in Having(o, s, p) : x <= m
    BY <1>1, <2>1, HasMax
  <2>3. m \in DOMAIN s /\ p \in DOMAIN o[s[m]]
    BY DEF Having
  <2>4. ASSUME NEW j \in DOMAIN s, j > m PROVE p \notin DOMAIN o[s[j]]
    <3>1. j \notin Having(o, s, p)
      BY <2>2, <2>3, <2>4, <1>1
    <3> QED BY <3>1 DEF Having
  <2>5. Prec(o, s)[p] = o[s[m]][p]
    BY <2>3, <2>4, PrecValue
  <2> QED BY <2>3, <2>4, <2>5
<1> QED BY <1>2, <1>3

\* A router with nothing below it decides alone.
LEMMA PrecOne ==
  ASSUME NEW o \in [Router -> Dict], NEW q \in Router
  PROVE  Prec(o, <<q>>) = o[q]
<1> DEFINE s == <<q>>
<1>1. s \in Seq(Router) /\ DOMAIN s = {1} /\ s[1] = q
  OBVIOUS
<1> HIDE DEF s
<1>2. DOMAIN Prec(o, s) = DOMAIN o[q]
  <2>1. ASSUME NEW p PROVE p \in DOMAIN Prec(o, s) <=> p \in DOMAIN o[q]
    <3>1. p \in DOMAIN Prec(o, s) <=> \E i \in DOMAIN s : p \in DOMAIN o[s[i]]
      BY <1>1, PrecDomain
    <3> QED BY <3>1, <1>1
  <2> QED BY <2>1
<1>3. ASSUME NEW p \in DOMAIN o[q] PROVE Prec(o, s)[p] = o[q][p]
  <2>1. PICK i \in DOMAIN s : Prec(o, s)[p] = o[s[i]][p]
    BY <1>1, <1>2, PrecDomain
  <2> QED BY <2>1, <1>1
<1>4. o[q] \in Dict /\ o[q] = [p \in DOMAIN o[q] |-> o[q][p]]
  BY DictDef
<1>5. Prec(o, s) = [p \in DOMAIN o[q] |-> Prec(o, s)[p]]
  BY <1>2 DEF Prec
<1> QED BY <1>3, <1>4, <1>5 DEF s

\* Of two sequences of routers the second decides where it has the path.
LEMMA PrecConcat ==
  ASSUME NEW o \in [Router -> Dict], NEW s \in Seq(Router), NEW t \in Seq(Router)
  PROVE  Prec(o, s \o t) = Update(Prec(o, s), Prec(o, t))
<1> DEFINE st == s \o t
           u == Update(Prec(o, s), Prec(o, t))
<1>1. /\ st \in Seq(Router)
      /\ Len(s) \in Nat /\ Len(t) \in Nat
      /\ DOMAIN s = 1..Len(s) /\ DOMAIN t = 1..Len(t)
      /\ DOMAIN st = 1..(Len(s) + Len(t))
      /\ \A i \in 1..(Len(s) + Len(t)) : st[i] = IF i <= Len(s) THEN s[i] ELSE t[i - Len(s)]
  OBVIOUS
<1> HIDE DEF st
<1>2. \A i \in DOMAIN s : i \in DOMAIN st /\ st[i] = s[i]
  BY <1>1
<1>3. \A i \in DOMAIN t : i + Len(s) \in DOMAIN st /\ st[i + Len(s)] = t[i]
  <2>1. ASSUME NEW i \in DOMAIN t PROVE i + Len(s) \in DOMAIN st /\ st[i + Len(s)] = t[i]
    <3>1. i + Len(s) \in 1..(Len(s) + Len(t)) /\ ~(i + Len(s) <= Len(s)) /\ (i + Len(s)) - Len(s) = i
      BY <1>1
    <3> QED BY <3>1, <1>1
  <2> QED BY <2>1
<1>4. \A i \in DOMAIN st :
        \/ i \in DOMAIN s
        \/ i - Len(s) \in DOMAIN t /\ i = (i - Len(s)) + Len(s)
  BY <1>1
<1>5. /\ DOMAIN u = DOMAIN Prec(o, s) \cup DOMAIN Prec(o, t)
      /\ \A p \in DOMAIN u : u[p] = IF p \in DOMAIN Prec(o, t) THEN Prec(o, t)[p] ELSE Prec(o, s)[p]
      /\ u = [p \in DOMAIN u |-> u[p]]
  BY DEF Update
<1> HIDE DEF u
<1>6. st \in Seq(Router)
  BY <1>1
<1>7. DOMAIN Prec(o, st) = DOMAIN u
  <2>1. ASSUME NEW p PROVE p \in DOMAIN Prec(o, st) <=> p \in DOMAIN u
    <3>1. p \in DOMAIN Prec(o, st) <=> \E i \in DOMAIN st : p \in DOMAIN o[st[i]]
      BY <1>1, PrecDomain
    <3>2. p \in DOMAIN Prec(o, s) <=> \E i \in DOMAIN s : p \in DOMAIN o[s[i]]
      BY PrecDomain
    <3>3. p \in DOMAIN Prec(o, t) <=> \E i \in DOMAIN t : p \in DOMAIN o[t[i]]
      BY PrecDomain
    <3>4. (\E i \in DOMAIN st : p \in DOMAIN o[st[i]])
            <=> \/ \E i \in DOMAIN s : p \in DOMAIN o[s[i]]
                \/ \E i \in DOMAIN t : p \in DOMAIN o[t[i]]
      BY <1>2, <1>3, <1>4
    <3> QED BY <3>1, <3>2, <3>3, <3>4, <1>5
  <2> QED BY <2>1
<1>8. ASSUME NEW p \in DOMAIN u PROVE Prec(o, st)[p] = u[p]
  <2>1. CASE p \in DOMAIN Prec(o, t)
    <3>1. PICK i \in DOMAIN t : /\ p \in DOMAIN o[t[i]]
                                /\ \A j \in DOMAIN t : j > i => p \notin DOMAIN o[t[j]]
                                /\ Prec(o, t)[p] = o[t[i]][p]
      BY <2>1, PrecDomain
    <3>2. PICK k \in DOMAIN st : k = i + Len(s) /\ st[k] = t[i]
      BY <1>3
    <3>3. ASSUME NEW j \in DOMAIN st, j > k PROVE p \notin DOMAIN o[st[j]]
      <4>1. j - Len(s) \in DOMAIN t /\ j - Len(s) > i /\ j = (j - Len(s)) + Len(s)
        BY <3>2, <3>3, <1>1
      <4>2. st[j] = t[j - Len(s)]
        BY <4>1, <1>3
      <4> QED BY <4>1, <4>2, <3>1
    <3>4. Prec(o, st)[p] = o[st[k]][p]
      <4>1. p \in DOMAIN o[st[k]] /\ \A j \in DOMAIN st : j > k => p \notin DOMAIN o[st[j]]
        BY <3>1, <3>2, <3>3
      <4>2. p \in DOMAIN o[st[k]] /\ (\A j \in DOMAIN st : j > k => p \notin DOMAIN o[st[j]])
              => Prec(o, st)[p] = o[st[k]][p]
        BY <3>2, <1>6, PrecValue
      <4> QED BY <4>1, <4>2
    <3> QED BY <3>1, <3>2, <3>4, <2>1, <1>5
  <2>2. CASE p \notin DOMAIN Prec(o, t)
    <3>1. p \in DOMAIN Prec(o, s) /\ u[p] = Prec(o, s)[p]
      BY <2>2, <1>5
    <3>2. PICK i \in DOMAIN s : /\ p \in DOMAIN o[s[i]]
                                /\ \A j \in DOMAIN s : j > i => p \notin DOMAIN o[s[j]]
                                /\ Prec(o, s)[p] = o[s[i]][p]
      BY <3>1, PrecDomain
    <3>3. i \in DOMAIN st /\ st[i] = s[i]
      BY <1>2
    <3>4. ASSUME NEW j \in DOMAIN st, j > i PROVE p \notin DOMAIN o[st[j]]
      <4>1. CASE j \in DOMAIN s
        BY <4>1, <3>2, <3>4, <1>2
      <4>2. CASE j - Len(s) \in DOMAIN t /\ j = (j - Len(s)) + Len(s)
        <5>1. st[j] = t[j - Len(s)]
          BY <4>2, <1>3
        <5>2. p \notin DOMAIN o[t[j - Len(s)]]
          BY <2>2, <4>2, PrecDomain
        <5> QED BY <5>1, <5>2
      <4> QED BY <4>1, <4>2, <1>4
    <3>5. Prec(o, st)[p] = o[st[i]][p]
      <4>1. p \in DOMAIN o[st[i]] /\ \A j \in DOMAIN st : j > i => p \notin DOMAIN o[st[j]]
        BY <3>2, <3>3, <3>4
      <4>2. p \in DOMAIN o[st[i]] /\ (\A j \in DOMAIN st : j > i => p \notin DOMAIN o[st[j]])
              => Prec(o, st)[p] = o[st[i]][p]
        BY <3>3, <1>6, PrecValue
      <4> QED BY <4>1, <4>2
    <3> QED BY <3>1, <3>2, <3>3, <3>5
  <2> QED BY <2>1, <2>2
<1>9. Prec(o, st) = [p \in DOMAIN u |-> Prec(o, st)[p]]
  BY <1>7 DEF Prec
<1> QED BY <1>5, <1>8, <1>9 DEF st, u

-----------------------------------------------------------------------------
\* What the walk over the children of one router gives.
LEMMA PrecOfChildren ==
  ASSUME NEW o \in [Router -> Dict], NEW q \in Router, NEW ss \in Seq(Seq(Router)),
         NEW es \in Seq(Dict), Len(es) = Len(ss),
         \A i \in 1..Len(ss) : es[i] = Prec(o, ss[i])
  PROVE  UpdateAll(o[q], es) = Prec(o, <<q>> \o FlattenSeq(ss))
<1>1. Len(ss) \in Nat /\ \A i \in 1..Len(ss) : ss[i] \in Seq(Router)
  OBVIOUS
<1>2. PICK G \in [0..Len(ss) -> Dict] :
        /\ G[0] = o[q]
        /\ \A i \in 1..Len(ss) : G[i] = Update(G[i - 1], es[i])
        /\ UpdateAll(o[q], es) = G[Len(ss)]
  <2>1. o[q] \in Dict
    OBVIOUS
  <2> QED BY <2>1, UpdateAllSteps
<1>3. PICK F \in [0..Len(ss) -> Seq(Router)] :
        /\ F[0] = <<>>
        /\ \A i \in 1..Len(ss) : F[i] = F[i - 1] \o ss[i]
        /\ FlattenSeq(ss) = F[Len(ss)]
  BY FlattenSteps
<1> DEFINE one == <<q>>
<1>4. one \in Seq(Router) /\ Prec(o, one) = o[q]
  BY PrecOne
<1> DEFINE Good == {n \in Nat : n <= Len(ss) => G[n] = Prec(o, one \o F[n])}
<1> HIDE DEF one
<1>5. 0 \in Good
  <2>1. one \o <<>> = one
    BY <1>4, ConcatEmptySeq
  <2> QED BY <2>1, <1>2, <1>3, <1>4
<1>6. ASSUME NEW n \in Nat, n \in Good PROVE n + 1 \in Good
  <2>1. CASE n + 1 <= Len(ss)
    <3>1. /\ n + 1 \in 1..Len(ss) /\ (n + 1) - 1 = n
          /\ n \in 0..Len(ss)
          /\ G[n] = Prec(o, one \o F[n])
      BY <2>1, <1>6, <1>1
    <3>2. F[n] \in Seq(Router) /\ ss[n + 1] \in Seq(Router)
      BY <3>1, <1>1
    <3>3. G[n + 1] = Update(Prec(o, one \o F[n]), Prec(o, ss[n + 1]))
      BY <3>1, <1>2
    <3>4. one \o F[n] \in Seq(Router)
      BY <3>2, <1>4, ConcatProperties
    <3>5. G[n + 1] = Prec(o, (one \o F[n]) \o ss[n + 1])
      BY <3>2, <3>3, <3>4, PrecConcat
    <3>6. (one \o F[n]) \o ss[n + 1] = one \o (F[n] \o ss[n + 1])
      <4>1. one \in Seq(Router) /\ F[n] \in Seq(Router) /\ ss[n + 1] \in Seq(Router)
        BY <3>2, <1>4
      <4>2. ASSUME NEW s \in Seq(Router), NEW t \in Seq(Router), NEW u \in Seq(Router)
            PROVE  (s \o t) \o u = s \o (t \o u)
        BY ConcatAssociative
      <4> QED BY <4>1, <4>2
    <3>7. F[n + 1] = F[n] \o ss[n + 1]
      BY <3>1, <1>3
    <3>8. G[n + 1] = Prec(o, one \o F[n + 1])
      BY <3>5, <3>6, <3>7
    <3> QED BY <3>8
  <2>2. CASE ~(n + 1 <= Len(ss))
    BY <2>2
  <2> QED BY <2>1, <2>2
<1>7. Len(ss) \in Good
  <2> HIDE DEF Good
  <2> QED BY <1>1, <1>5, <1>6, Induction
<1> QED BY <1>1, <1>2, <1>3, <1>7 DEF one

\* At every depth, flattening the dictionaries is the same as flattening the
\* routers and letting the last one decide.
LEMMA FlatIsPrec ==
  ASSUME NEW o \in [Router -> Dict], NEW c \in [Router -> Seq(Router)]
  PROVE  \A d \in 0..Deep, q \in Router : Flat(o, c)[d][q] = Prec(o, Order(c)[d][q])
<1> DEFINE R == Flat(o, c)
           P == Order(c)
           Good == {n \in Nat : n <= Deep => \A q \in Router : R[n][q] = Prec(o, P[n][q])}
<1>1. /\ \A q \in Router : R[0][q] = o[q]
      /\ \A d \in 1..Deep, q \in Router :
           R[d][q] = UpdateAll(o[q], [i \in DOMAIN c[q] |-> R[d - 1][c[q][i]]])
      /\ \A d \in 0..Deep, q \in Router : R[d][q] \in Dict
  BY FlatSteps
<1>2. /\ \A q \in Router : P[0][q] = <<q>>
      /\ \A d \in 1..Deep, q \in Router :
           P[d][q] = <<q>> \o FlattenSeq([i \in DOMAIN c[q] |-> P[d - 1][c[q][i]]])
      /\ \A d \in 0..Deep, q \in Router : P[d][q] \in Seq(Router)
  BY OrderSteps
<1> HIDE DEF R, P
<1>3. 0 \in Good
  <2>1. \A q \in Router : Prec(o, <<q>>) = o[q]
    BY PrecOne
  <2>2. \A q \in Router : R[0][q] = Prec(o, P[0][q])
    BY <2>1, <1>1, <1>2
  <2> QED BY <2>2
<1>4. ASSUME NEW n \in Nat, n \in Good PROVE n + 1 \in Good
  <2>1. ASSUME n + 1 <= Deep, NEW q \in Router PROVE R[n + 1][q] = Prec(o, P[n + 1][q])
    <3> DEFINE es == [i \in DOMAIN c[q] |-> R[n][c[q][i]]]
               ss == [i \in DOMAIN c[q] |-> P[n][c[q][i]]]
    <3>1. /\ n + 1 \in 1..Deep /\ (n + 1) - 1 = n /\ n \in 0..Deep
          /\ \A r \in Router : R[n][r] = Prec(o, P[n][r])
      BY <2>1, <1>4, DeepType
    <3>2. R[n + 1][q] = UpdateAll(o[q], es)
      <4>1. R[n + 1][q] = UpdateAll(o[q], [i \in DOMAIN c[q] |-> R[(n + 1) - 1][c[q][i]]])
        BY <3>1, <1>1
      <4> QED BY <4>1, <3>1
    <3>3. P[n + 1][q] = <<q>> \o FlattenSeq(ss)
      <4>1. P[n + 1][q] = <<q>> \o FlattenSeq([i \in DOMAIN c[q] |-> P[(n + 1) - 1][c[q][i]]])
        BY <3>1, <1>2
      <4> QED BY <4>1, <3>1
    <3>4. /\ Len(c[q]) \in Nat /\ DOMAIN c[q] = 1..Len(c[q])
          /\ \A i \in 1..Len(c[q]) : c[q][i] \in Router
      <4>1. c[q] \in Seq(Router)
        OBVIOUS
      <4> QED BY <4>1
    <3>5. \A i \in 1..Len(c[q]) : es[i] \in Dict /\ ss[i] \in Seq(Router) /\ es[i] = Prec(o, ss[i])
      BY <3>1, <3>4, <1>1, <1>2
    <3>6. es \in Seq(Dict) /\ Len(es) = Len(c[q])
      BY <3>4, <3>5, IsASeq
    <3>7. ss \in Seq(Seq(Router)) /\ Len(ss) = Len(c[q])
      BY <3>4, <3>5, IsASeq
    <3> HIDE DEF es, ss
    <3>8. UpdateAll(o[q], es) = Prec(o, <<q>> \o FlattenSeq(ss))
      BY <3>5, <3>6, <3>7, PrecOfChildren
    <3> QED BY <3>2, <3>3, <3>8
  <2> QED BY <2>1
<1>5. Nat \subseteq Good
  <2> HIDE DEF Good
  <2> QED BY <1>3, <1>4, Induction
<1>6. \A d \in 0..Deep, q \in Router : R[d][q] = Prec(o, P[d][q])
  BY <1>5, DeepType
<1> QED BY <1>6 DEF R, P

-----------------------------------------------------------------------------
\* The keys of a dictionary updated with others.
LEMMA UpdateAllDomain ==
  ASSUME NEW d \in Dict, NEW es \in Seq(Dict)
  PROVE  \A p : p \in DOMAIN UpdateAll(d, es)
                  <=> p \in DOMAIN d \/ \E i \in 1..Len(es) : p \in DOMAIN es[i]
<1>1. PICK F \in [0..Len(es) -> Dict] :
        /\ F[0] = d
        /\ \A i \in 1..Len(es) : F[i] = Update(F[i - 1], es[i])
        /\ UpdateAll(d, es) = F[Len(es)]
  BY UpdateAllSteps
<1>2. Len(es) \in Nat /\ \A i \in 1..Len(es) : es[i] \in Dict
  OBVIOUS
<1> DEFINE Has(n, p) == p \in DOMAIN d \/ \E i \in 1..n : p \in DOMAIN es[i]
           Good == {n \in Nat : n <= Len(es) => \A p : p \in DOMAIN F[n] <=> Has(n, p)}
<1>3. 0 \in Good
  BY <1>1
<1>4. ASSUME NEW n \in Nat, n \in Good PROVE n + 1 \in Good
  <2>1. CASE n + 1 <= Len(es)
    <3>1. /\ n + 1 \in 1..Len(es) /\ (n + 1) - 1 = n /\ n \in 0..Len(es)
          /\ \A p : p \in DOMAIN F[n] <=> Has(n, p)
      BY <2>1, <1>4, <1>2
    <3>2. F[n + 1] = Update(F[n], es[n + 1])
      BY <3>1, <1>1
    <3>3. DOMAIN F[n + 1] = DOMAIN F[n] \cup DOMAIN es[n + 1]
      BY <3>1, <3>2, <1>2, UpdateDict
    <3>4. \A i : i \in 1..(n + 1) <=> i \in 1..n \/ i = n + 1
      OBVIOUS
    <3>5. \A p : Has(n + 1, p) <=> Has(n, p) \/ p \in DOMAIN es[n + 1]
      BY <3>4
    <3>6. \A p : p \in DOMAIN F[n + 1] <=> Has(n + 1, p)
      <4> HIDE DEF Has
      <4> QED BY <3>1, <3>3, <3>5
    <3> QED BY <3>6
  <2>2. CASE ~(n + 1 <= Len(es))
    BY <2>2
  <2> QED BY <2>1, <2>2
<1>5. Len(es) \in Good
  <2> HIDE DEF Good
  <2> QED BY <1>2, <1>3, <1>4, Induction
<1> QED BY <1>1, <1>2, <1>5

\* More routes and more inclusions never make a path disappear.
LEMMA FlatGrows ==
  ASSUME NEW o \in [Router -> Dict], NEW c \in [Router -> Seq(Router)],
         NEW o2 \in [Router -> Dict], NEW c2 \in [Router -> Seq(Router)],
         \A q \in Router : DOMAIN o[q] \subseteq DOMAIN o2[q],
         \A q \in Router : \A i \in DOMAIN c[q] : \E j \in DOMAIN c2[q] : c2[q][j] = c[q][i]
  PROVE  \A d \in 0..Deep, q \in Router :
           DOMAIN Flat(o, c)[d][q] \subseteq DOMAIN Flat(o2, c2)[d][q]
<1> DEFINE R == Flat(o, c)
           S == Flat(o2, c2)
           Good == {n \in Nat : n <= Deep => \A q \in Router : DOMAIN R[n][q] \subseteq DOMAIN S[n][q]}
<1>1. /\ \A q \in Router : R[0][q] = o[q]
      /\ \A d \in 1..Deep, q \in Router :
           R[d][q] = UpdateAll(o[q], [i \in DOMAIN c[q] |-> R[d - 1][c[q][i]]])
      /\ \A d \in 0..Deep, q \in Router : R[d][q] \in Dict
  BY FlatSteps
<1>2. /\ \A q \in Router : S[0][q] = o2[q]
      /\ \A d \in 1..Deep, q \in Router :
           S[d][q] = UpdateAll(o2[q], [i \in DOMAIN c2[q] |-> S[d - 1][c2[q][i]]])
      /\ \A d \in 0..Deep, q \in Router : S[d][q] \in Dict
  BY FlatSteps
<1> HIDE DEF R, S
<1>3. 0 \in Good
  BY <1>1, <1>2
<1>4. ASSUME NEW n \in Nat, n \in Good PROVE n + 1 \in Good
  <2>1. ASSUME n + 1 <= Deep, NEW q \in Router
        PROVE  DOMAIN R[n + 1][q] \subseteq DOMAIN S[n + 1][q]
    <3> DEFINE es == [i \in DOMAIN c[q] |-> R[n][c[q][i]]]
               fs == [i \in DOMAIN c2[q] |-> S[n][c2[q][i]]]
    <3>1. /\ n + 1 \in 1..Deep /\ (n + 1) - 1 = n /\ n \in 0..Deep
          /\ \A r \in Router : DOMAIN R[n][r] \subseteq DOMAIN S[n][r]
      BY <2>1, <1>4, DeepType
    <3>2. R[n + 1][q] = UpdateAll(o[q], es)
      <4>1. R[n + 1][q] = UpdateAll(o[q], [i \in DOMAIN c[q] |-> R[(n + 1) - 1][c[q][i]]])
        BY <3>1, <1>1
      <4> QED BY <4>1, <3>1
    <3>3. S[n + 1][q] = UpdateAll(o2[q], fs)
      <4>1. S[n + 1][q] = UpdateAll(o2[q], [i \in DOMAIN c2[q] |-> S[(n + 1) - 1][c2[q][i]]])
        BY <3>1, <1>2
      <4> QED BY <4>1, <3>1
    <3>4. /\ Len(c[q]) \in Nat /\ DOMAIN c[q] = 1..Len(c[q])
          /\ \A i \in 1..Len(c[q]) : c[q][i] \in Router
          /\ Len(c2[q]) \in Nat /\ DOMAIN c2[q] = 1..Len(c2[q])
          /\ \A i \in 1..Len(c2[q]) : c2[q][i] \in Router
      <4>1. c[q] \in Seq(Router) /\ c2[q] \in Seq(Router)
        OBVIOUS
      <4> QED BY <4>1
    <3>5. /\ \A i \in 1..Len(c[q]) : es[i] \in Dict
          /\ \A i \in 1..Len(c2[q]) : fs[i] \in Dict
      BY <3>1, <3>4, <1>1, <1>2
    <3>6. es \in Seq(Dict) /\ Len(es) = Len(c[q])
      BY <3>4, <3>5, IsASeq
    <3>7. fs \in Seq(Dict) /\ Len(fs) = Len(c2[q])
      BY <3>4, <3>5, IsASeq
    <3>8. ASSUME NEW i \in 1..Len(es)
          PROVE  \E j \in 1..Len(fs) : DOMAIN es[i] \subseteq DOMAIN fs[j]
      <4>1. PICK j \in 1..Len(fs) : c2[q][j] = c[q][i]
        BY <3>4, <3>6, <3>7
      <4>2. es[i] = R[n][c[q][i]] /\ fs[j] = S[n][c[q][i]] /\ c[q][i] \in Router
        BY <4>1, <3>4, <3>6, <3>7
      <4> QED BY <4>2, <3>1
    <3> HIDE DEF es, fs
    <3>9. o[q] \in Dict /\ o2[q] \in Dict
      OBVIOUS
    <3>10. \A p : p \in DOMAIN R[n + 1][q]
                    => p \in DOMAIN o[q] \/ \E i \in 1..Len(es) : p \in DOMAIN es[i]
      BY <3>2, <3>6, <3>9, UpdateAllDomain
    <3>11. \A p : p \in DOMAIN o2[q] \/ (\E i \in 1..Len(fs) : p \in DOMAIN fs[i])
                    => p \in DOMAIN S[n + 1][q]
      BY <3>3, <3>7, <3>9, UpdateAllDomain
    <3>12. ASSUME NEW p \in DOMAIN R[n + 1][q] PROVE p \in DOMAIN S[n + 1][q]
      <4>1. CASE p \in DOMAIN o[q]
        BY <4>1, <3>11
      <4>2. ASSUME NEW i \in 1..Len(es), p \in DOMAIN es[i] PROVE p \in DOMAIN S[n + 1][q]
        BY <4>2, <3>8, <3>11
      <4> QED BY <4>1, <4>2, <3>10
    <3> QED BY <3>12
  <2> QED BY <2>1
<1>5. Nat \subseteq Good
  <2> HIDE DEF Good
  <2> QED BY <1>3, <1>4, Induction
<1>6. \A d \in 0..Deep, q \in Router : DOMAIN R[d][q] \subseteq DOMAIN S[d][q]
  BY <1>5, DeepType
<1> QED BY <1>6 DEF R, S

-----------------------------------------------------------------------------
\* Dictionaries are dictionaries of routes, lists are lists of routers.
Typed ==
  /\ own \in [Router -> Dict]
  /\ children \in [Router -> Seq(Router)]

\* What APIRouter.routes returns is a dictionary of routes.
LEMMA RoutesType ==
  ASSUME Typed, NEW rt \in Router
  PROVE  Routes(rt) \in Dict
<1>1. own \in [Router -> Dict] /\ children \in [Router -> Seq(Router)] /\ Deep \in 0..Deep
  BY DeepType DEF Typed
<1>2. Flat(own, children)[Deep][rt] \in Dict
  BY <1>1, FlatSteps
<1> QED BY <1>2, RoutesAreFlat

\* A router is created with an empty dictionary and an empty list.
LEMMA TypedInit == Init => Typed
<1> SUFFICES ASSUME Init PROVE Typed
  OBVIOUS
<1>1. Empty \in Dict
  <2>1. Empty = [k \in DOMAIN Empty |-> Empty[k]] /\ DOMAIN Empty = {}
    BY DEF Empty
  <2> QED BY <2>1, DictDef
<1>2. own = [rt \in Router |-> Empty] /\ children = [rt \in Router |-> <<>>]
  BY DEF Init
<1>3. <<>> \in Seq(Router)
  OBVIOUS
<1> QED BY <1>1, <1>2, <1>3 DEF Typed

\* A dictionary of one route.
LEMMA OneRoute ==
  ASSUME NEW rt \in Router, NEW p \in Path, NEW h \in Handler
  PROVE  [k \in {p} |-> [handler |-> h, router |-> rt, dependency |-> Resolve(rt, h)]] \in Dict
<1>1. Depends[h] \in Dependency
  BY RoutingAssumption
<1>2. Resolve(rt, h) \in Dependency
  <2>1. PICK D \in SUBSET Dependency : Overrides[rt] \in [D -> Dependency]
    BY RoutingAssumption
  <2> QED BY <2>1, <1>1 DEF Resolve
<1> DEFINE r == [handler |-> h, router |-> rt, dependency |-> Resolve(rt, h)]
<1>3. r \in Route
  BY <1>2 DEF Route
<1> HIDE DEF r
<1> DEFINE one == [k \in {p} |-> r]
<1>4. one = [k \in DOMAIN one |-> one[k]] /\ DOMAIN one = {p} /\ one[p] = r
  OBVIOUS
<1> HIDE DEF one
<1>5. one \in Dict
  BY <1>3, <1>4, DictDef
<1> QED BY <1>5 DEF one, r

\* Only the registrations change a router, and all they do is to add.
LEMMA Growth ==
  ASSUME Typed, [Next]_vars
  PROVE  /\ Typed'
         /\ \A q \in Router : DOMAIN own[q] \subseteq DOMAIN own'[q]
         /\ \A q \in Router : \A i \in DOMAIN children[q] :
              \E j \in DOMAIN children'[q] : children'[q][j] = children[q][i]
<1> USE DEF Typed
<1> DEFINE Goal == /\ Typed'
                   /\ \A q \in Router : DOMAIN own[q] \subseteq DOMAIN own'[q]
                   /\ \A q \in Router : \A i \in DOMAIN children[q] :
                        \E j \in DOMAIN children'[q] : children'[q][j] = children[q][i]
<1>1. ASSUME NEW rt \in Router, NEW e \in Dict, children' = children,
             own' = [own EXCEPT ![rt] = Update(@, e)]
      PROVE  Goal
  <2>1. Update(own[rt], e) \in Dict /\ DOMAIN own[rt] \subseteq DOMAIN Update(own[rt], e)
    <3>1. own[rt] \in Dict
      OBVIOUS
    <3> QED BY <3>1, UpdateDict
  <2> QED BY <1>1, <2>1
<1>2. ASSUME NEW rt \in Router, NEW p \in Path, NEW h \in Handler, AddEndpoint(rt, p, h)
      PROVE  Goal
  <2> DEFINE e == [k \in {p} |-> [handler |-> h, router |-> rt, dependency |-> Resolve(rt, h)]]
  <2>1. e \in Dict
    BY OneRoute
  <2>2. children' = children /\ own' = [own EXCEPT ![rt] = Update(@, e)]
    BY <1>2 DEF AddEndpoint
  <2> HIDE DEF e, Goal
  <2> QED BY <2>1, <2>2, <1>1
<1>3. ASSUME NEW rt \in Router, NEW child \in Router, IncludeRouter(rt, child)
      PROVE  Goal
  <2>1. own' = own /\ children' = [children EXCEPT ![rt] = Append(@, child)]
    BY <1>3 DEF IncludeRouter
  <2>2. ASSUME NEW q \in Router
        PROVE  /\ children'[q] \in Seq(Router)
               /\ \A i \in DOMAIN children[q] :
                    i \in DOMAIN children'[q] /\ children'[q][i] = children[q][i]
    <3>1. children[q] \in Seq(Router)
      OBVIOUS
    <3>2. CASE q = rt
      <4>1. children'[q] = Append(children[q], child)
        BY <2>1, <3>2
      <4> QED BY <4>1, <3>1
    <3>3. CASE q # rt
      BY <2>1, <3>1, <3>3
    <3> QED BY <3>2, <3>3
  <2>3. children' \in [Router -> Seq(Router)]
    BY <2>1, <2>2
  <2> QED BY <2>1, <2>2, <2>3
<1>4. ASSUME NEW child \in Router, AppIncludeRouter(child)
      PROVE  Goal
  <2>1. Routes(child) \in Dict /\ App \in Router
    BY RoutesType, RoutingAssumption
  <2>2. children' = children /\ own' = [own EXCEPT ![App] = Update(@, Routes(child))]
    BY <1>4 DEF AppIncludeRouter
  <2> HIDE DEF Goal
  <2> QED BY <2>1, <2>2, <1>1
<1>5. ASSUME Run \/ UNCHANGED vars PROVE Goal
  <2>1. own' = own /\ children' = children
    BY <1>5 DEF Run, RunAsync, StartTransport, Stop, vars
  <2> QED BY <2>1
<1> HIDE DEF Goal
<1>6. Goal
  <2>1. CASE Register
    BY <2>1, <1>2, <1>3, <1>4 DEF Register
  <2> QED BY <2>1, <1>5 DEF Next
<1> QED BY <1>6 DEF Goal

\* Dictionaries stay dictionaries of routes, lists lists of routers.
THEOREM RoutersTyped == Spec => []Typed
<1>1. Typed /\ [Next]_vars => Typed'
  BY Growth
<1> QED BY <1>1, TypedInit, PTL DEF Spec

\* Flattening a tree of routers, of any shape, gives every path of it the route
\* of the router met last (RoutesFollowPrecedence).
THEOREM LastRouterDecides == Spec => []RoutesFollowPrecedence
<1>1. ASSUME Typed, NEW rt \in Router PROVE Routes(rt) = Precedence(rt)
  <2>1. own \in [Router -> Dict] /\ children \in [Router -> Seq(Router)] /\ Deep \in 0..Deep
    BY <1>1, DeepType DEF Typed
  <2>2. Flat(own, children)[Deep][rt] = Prec(own, Order(children)[Deep][rt])
    BY <2>1, FlatIsPrec
  <2> QED BY <2>2, RoutesAreFlat, PrecedenceIsPrec
<1>2. Typed => RoutesFollowPrecedence
  BY <1>1 DEF RoutesFollowPrecedence
<1> QED BY <1>2, RoutersTyped, PTL

\* What the app could serve it can serve after any further registrations and
\* inclusions, however many (PathsAreKept).
THEOREM NoPathIsLost == Spec => PathsAreKept
<1>1. ASSUME Typed, [Next]_vars
      PROVE  DOMAIN Routes(App) \subseteq DOMAIN Routes(App)'
  <2>1. Typed' /\ App \in Router /\ Deep \in 0..Deep
    BY <1>1, Growth, RoutingAssumption, DeepType
  <2>2. DOMAIN Flat(own, children)[Deep][App] \subseteq DOMAIN Flat(own', children')[Deep][App]
    <3>1. /\ own \in [Router -> Dict] /\ children \in [Router -> Seq(Router)]
          /\ own' \in [Router -> Dict] /\ children' \in [Router -> Seq(Router)]
          /\ \A q \in Router : DOMAIN own[q] \subseteq DOMAIN own'[q]
          /\ \A q \in Router : \A i \in DOMAIN children[q] :
               \E j \in DOMAIN children'[q] : children'[q][j] = children[q][i]
      BY <1>1, <2>1, Growth DEF Typed
    <3>2. \A d \in 0..Deep, q \in Router :
            DOMAIN Flat(own, children)[d][q] \subseteq DOMAIN Flat(own', children')[d][q]
      BY <3>1, FlatGrows
    <3> QED BY <3>2, <2>1
  <2> QED BY <2>1, <2>2, RoutesAreFlat
<1>2. Typed /\ [Next]_vars =>
        [~Circular(App) /\ ~Circular(App)' => DOMAIN Routes(App) \subseteq DOMAIN Routes(App)']_vars
  BY <1>1
<1> QED BY <1>2, RoutersTyped, PTL DEF Spec, PathsAreKept

-----------------------------------------------------------------------------
\* n inclusions, each into the router that comes before it.
Walks(n) ==
  {f \in [0..n -> Router] : \A i \in 1..n : f[i] \in ToSet(children[f[i - 1]])}

\* What Level reaches is at the end of a walk.
LEMMA LevelIsWalk ==
  ASSUME Typed, NEW d \in Nat, NEW rt \in Router, NEW x
  PROVE  x \in Level(d, rt) <=> \E f \in Walks(d) : f[0] = rt /\ f[d] = x
<1> DEFINE Body(g, n) == IF n = 0 THEN {rt} ELSE UNION {ToSet(children[c]) : c \in g[n - 1]}
           Known == {n \in Nat : \E g : g = [i \in 0..n |-> Body(g, i)]}
           L == CHOOSE g : g = [i \in 0..d |-> Body(g, i)]
<1>1. 0 \in Known
  <2> DEFINE g == [i \in 0..0 |-> {rt}]
  <2>1. \A i \in 0..0 : g[i] = Body(g, i)
    OBVIOUS
  <2>2. g = [i \in 0..0 |-> Body(g, i)]
    BY <2>1
  <2> QED BY <2>2
<1>2. ASSUME NEW n \in Nat, n \in Known PROVE n + 1 \in Known
  <2>1. PICK g : g = [i \in 0..n |-> Body(g, i)]
    BY <1>2
  <2> DEFINE h == [i \in 0..(n + 1) |-> IF i <= n THEN g[i] ELSE Body(g, n + 1)]
  <2>2. ASSUME NEW i \in 0..(n + 1) PROVE h[i] = Body(h, i)
    <3>1. i # 0 => h[i - 1] = g[i - 1]
      OBVIOUS
    <3>2. Body(h, i) = Body(g, i)
      <4> HIDE DEF h
      <4> QED BY <3>1
    <3>3. h[i] = Body(g, i)
      <4> HIDE DEF Body
      <4>1. CASE i <= n
        <5>1. i \in 0..n /\ h[i] = g[i]
          BY <4>1
        <5> HIDE DEF h
        <5> QED BY <5>1, <2>1
      <4>2. CASE i = n + 1
        BY <4>2
      <4> QED BY <4>1, <4>2
    <3> HIDE DEF Body, h
    <3> QED BY <3>2, <3>3
  <2>3. h = [i \in 0..(n + 1) |-> Body(h, i)]
    <3> HIDE DEF Body
    <3> QED BY <2>2
  <2> HIDE DEF h, Body
  <2> QED BY <2>3
<1>3. d \in Known
  <2> HIDE DEF Known
  <2> QED BY <1>1, <1>2, Induction
<1>4. L = [i \in 0..d |-> Body(L, i)]
  <2> HIDE DEF Body
  <2> QED BY <1>3
<1>5. Level(d, rt) = L[d]
  BY DEF Level
<1> HIDE DEF L, Known
<1>6. L[0] = {rt} /\ \A i \in 1..d : L[i] = UNION {ToSet(children[c]) : c \in L[i - 1]}
  BY <1>4
<1> HIDE DEF Body
<1> DEFINE Ends(n, y) == \E f \in Walks(n) : f[0] = rt /\ f[n] = y
           Good == {n \in Nat : n <= d => \A y : y \in L[n] <=> Ends(n, y)}
<1>7. 0 \in Good
  <2>1. ASSUME NEW y PROVE y \in L[0] <=> Ends(0, y)
    <3>1. ASSUME y = rt PROVE Ends(0, y)
      <4> DEFINE f == [i \in 0..0 |-> rt]
      <4>1. f \in Walks(0) /\ f[0] = rt
        BY DEF Walks
      <4> HIDE DEF f
      <4> QED BY <4>1, <3>1
    <3> QED BY <3>1, <1>6
  <2> QED BY <2>1
<1>8. ASSUME NEW n \in Nat, n \in Good PROVE n + 1 \in Good
  <2>1. ASSUME n + 1 <= d, NEW y PROVE y \in L[n + 1] <=> Ends(n + 1, y)
    <3>1. n + 1 \in 1..d /\ (n + 1) - 1 = n /\ \A z : z \in L[n] <=> Ends(n, z)
      BY <2>1, <1>8
    <3>2. L[n + 1] = UNION {ToSet(children[c]) : c \in L[n]}
      BY <3>1, <1>6
    <3>3. ASSUME y \in L[n + 1] PROVE Ends(n + 1, y)
      <4>1. PICK c \in L[n] : y \in ToSet(children[c])
        BY <3>2, <3>3
      <4>2. PICK f \in Walks(n) : f[0] = rt /\ f[n] = c
        BY <3>1, <4>1
      <4>3. y \in Router
        <5>1. c \in Router
          BY <4>2 DEF Walks
        <5>2. children[c] \in Seq(Router)
          BY <5>1 DEF Typed
        <5> QED BY <4>1, <5>2 DEF ToSet
      <4> DEFINE g == [i \in 0..(n + 1) |-> IF i <= n THEN f[i] ELSE y]
      <4>4. g \in [0..(n + 1) -> Router]
        BY <4>3 DEF Walks
      <4>5. ASSUME NEW i \in 1..(n + 1) PROVE g[i] \in ToSet(children[g[i - 1]])
        <5>1. CASE i <= n
          <6>1. g[i] = f[i] /\ g[i - 1] = f[i - 1] /\ i \in 1..n
            BY <5>1
          <6> QED BY <6>1 DEF Walks
        <5>2. CASE i = n + 1
          <6>1. g[i] = y /\ g[i - 1] = c
            BY <5>2, <4>2
          <6> QED BY <6>1, <4>1
        <5> QED BY <5>1, <5>2
      <4>6. g[0] = rt /\ g[n + 1] = y
        BY <4>2
      <4> HIDE DEF g
      <4>7. g \in Walks(n + 1)
        BY <4>4, <4>5 DEF Walks
      <4> QED BY <4>6, <4>7
    <3>4. ASSUME Ends(n + 1, y) PROVE y \in L[n + 1]
      <4>1. PICK f \in Walks(n + 1) : f[0] = rt /\ f[n + 1] = y
        BY <3>4
      <4> DEFINE g == [i \in 0..n |-> f[i]]
      <4>2. g \in Walks(n)
        BY DEF Walks
      <4>3. g[0] = rt /\ g[n] = f[n]
        BY <4>1
      <4> HIDE DEF g
      <4>4. f[n] \in L[n]
        BY <4>2, <4>3, <3>1
      <4>5. f[n + 1] \in ToSet(children[f[n]])
        <5>1. n + 1 \in 1..(n + 1) /\ (n + 1) - 1 = n
          OBVIOUS
        <5>2. f[n + 1] \in ToSet(children[f[(n + 1) - 1]])
          BY <5>1 DEF Walks
        <5> QED BY <5>1, <5>2
      <4> QED BY <4>1, <4>4, <4>5, <3>2
    <3> HIDE DEF Ends
    <3> QED BY <3>3, <3>4
  <2> QED BY <2>1
<1>9. d \in Good
  <2> HIDE DEF Good
  <2> QED BY <1>7, <1>8, Induction
<1> QED BY <1>5, <1>9

\* Circular says that some walk from the router is as long as the tree is deep.
LEMMA CircularIsWalk ==
  ASSUME Typed, NEW rt \in Router
  PROVE  Circular(rt) <=> \E f \in Walks(Deep) : f[0] = rt
<1>1. \A x : x \in Level(Deep, rt) <=> \E f \in Walks(Deep) : f[0] = rt /\ f[Deep] = x
  BY LevelIsWalk, DeepType
<1>2. Circular(rt) <=> \E x : x \in Level(Deep, rt)
  BY DEF Circular, Deep
<1> QED BY <1>1, <1>2

\* A walk from rt that comes back to a router it has been at.
Circle(rt) ==
  \E n \in Nat : \E f \in Walks(n) :
    f[0] = rt /\ \E i \in 0..(n - 1) : f[i] = f[n]

\* Reading routes fails for a router exactly when there is a circle below it:
\* no tree without one is too deep for the recursion (Circular).
LEMMA CircularIsCircle ==
  ASSUME Typed, NEW rt \in Router
  PROVE  Circular(rt) <=> Circle(rt)
<1>1. ASSUME Circular(rt) PROVE Circle(rt)
  <2>1. PICK f \in Walks(Deep) : f[0] = rt
    BY <1>1, CircularIsWalk
  <2>2. IsFiniteSet(0..Deep) /\ Cardinality(0..Deep) = Deep + 1
    BY DeepType, FS_Interval
  <2>3. IsFiniteSet(Router) /\ Cardinality(Router) < Cardinality(0..Deep)
    BY <2>2, DeepType, RoutingAssumption DEF Deep
  <2>4. f \in [0..Deep -> Router]
    BY DEF Walks
  <2>5. PICK x \in 0..Deep, y \in 0..Deep : x # y /\ f[x] = f[y]
    BY <2>2, <2>3, <2>4, FS_PigeonHole
  <2>6. PICK i \in 0..Deep, j \in 0..Deep : i < j /\ f[i] = f[j]
    <3>1. CASE x < y
      BY <3>1, <2>5
    <3>2. CASE y < x
      BY <3>2, <2>5
    <3> QED BY <3>1, <3>2, <2>5, DeepType
  <2> DEFINE g == [k \in 0..j |-> f[k]]
  <2>7. j \in Nat /\ i \in 0..(j - 1) /\ j <= Deep
    BY <2>6, DeepType
  <2>8. g \in Walks(j)
    BY <2>7, DeepType DEF Walks
  <2>9. g[0] = rt /\ g[i] = g[j]
    BY <2>1, <2>6, <2>7
  <2> HIDE DEF g
  <2> QED BY <2>7, <2>8, <2>9 DEF Circle
<1>2. ASSUME Circle(rt) PROVE Circular(rt)
  <2>a. PICK n \in Nat : \E f \in Walks(n) :
                           f[0] = rt /\ \E i \in 0..(n - 1) : f[i] = f[n]
    BY <1>2 DEF Circle
  <2>b. PICK f \in Walks(n) : f[0] = rt /\ \E i \in 0..(n - 1) : f[i] = f[n]
    BY <2>a
  <2>1. PICK i \in 0..(n - 1) : f[0] = rt /\ f[i] = f[n]
    BY <2>b
  <2> DEFINE On(y) == \E j \in 0..(n - 1) : y = f[j]
             Good == {k \in Nat : \E g \in Walks(k) : g[0] = rt /\ On(g[k])}
  <2>2. ASSUME NEW y, On(y) PROVE \E z \in Router : z \in ToSet(children[y]) /\ On(z)
    <3>1. PICK j \in 0..(n - 1) : y = f[j]
      BY <2>2
    <3>2. j + 1 \in 1..n /\ (j + 1) - 1 = j
      OBVIOUS
    <3>3. f[j + 1] \in ToSet(children[y]) /\ f[j + 1] \in Router
      <4>1. f[j + 1] \in ToSet(children[f[(j + 1) - 1]]) /\ f[j + 1] \in Router
        BY <3>2 DEF Walks
      <4> QED BY <4>1, <3>1, <3>2
    <3>4. CASE j + 1 = n
      BY <3>3, <3>4, <2>1
    <3>5. CASE j + 1 # n
      <4>1. j + 1 \in 0..(n - 1)
        BY <3>2, <3>5
      <4> QED BY <3>3, <4>1
    <3> QED BY <3>4, <3>5
  <2>3. 0 \in Good
    <3> DEFINE g == [k \in 0..0 |-> rt]
    <3>1. g \in Walks(0) /\ g[0] = rt
      BY DEF Walks
    <3>2. 0 \in 0..(n - 1)
      OBVIOUS
    <3> HIDE DEF g
    <3> QED BY <3>1, <3>2, <2>1
  <2>4. ASSUME NEW k \in Nat, k \in Good PROVE k + 1 \in Good
    <3>1. PICK g \in Walks(k) : g[0] = rt /\ On(g[k])
      BY <2>4
    <3> HIDE DEF On
    <3>2. PICK z \in Router : z \in ToSet(children[g[k]]) /\ On(z)
      BY <3>1, <2>2
    <3> DEFINE h == [m \in 0..(k + 1) |-> IF m <= k THEN g[m] ELSE z]
    <3>3. h \in [0..(k + 1) -> Router] /\ h[0] = rt /\ h[k + 1] = z
      BY <3>1 DEF Walks
    <3>4. ASSUME NEW m \in 1..(k + 1) PROVE h[m] \in ToSet(children[h[m - 1]])
      <4>1. CASE m <= k
        <5>1. h[m] = g[m] /\ h[m - 1] = g[m - 1] /\ m \in 1..k
          BY <4>1
        <5> QED BY <5>1 DEF Walks
      <4>2. CASE m = k + 1
        <5>1. h[m] = z /\ h[m - 1] = g[k]
          BY <4>2
        <5> QED BY <5>1, <3>2
      <4> QED BY <4>1, <4>2
    <3> HIDE DEF h
    <3>5. h \in Walks(k + 1)
      BY <3>3, <3>4 DEF Walks
    <3> QED BY <3>2, <3>3, <3>5
  <2>5. Deep \in Good
    <3> HIDE DEF Good
    <3> QED BY <2>3, <2>4, Induction, DeepType
  <2> QED BY <2>5, CircularIsWalk
<1> QED BY <1>1, <1>2

-----------------------------------------------------------------------------
\* Under a router that is n inclusions above nothing, n inclusions are enough.
Settled(n, q) ==
  \A d \in n..Deep : Flat(own, children)[d][q] = Flat(own, children)[n][q]

\* An inclusion in front of a walk.
LEMMA LongerWalk ==
  ASSUME Typed, NEW n \in Nat, NEW q \in Router, NEW r \in ToSet(children[q]),
         NEW f \in Walks(n), f[0] = r
  PROVE  \E g \in Walks(n + 1) : g[0] = q
<1> DEFINE g == [i \in 0..(n + 1) |-> IF i = 0 THEN q ELSE f[i - 1]]
<1>1. g \in [0..(n + 1) -> Router] /\ g[0] = q
  BY DEF Walks
<1>2. ASSUME NEW i \in 1..(n + 1) PROVE g[i] \in ToSet(children[g[i - 1]])
  <2>1. CASE i = 1
    <3>1. g[i] = r /\ g[i - 1] = q
      BY <2>1
    <3> QED BY <3>1
  <2>2. CASE i # 1
    <3>1. /\ i - 1 \in 1..n
          /\ g[i] = f[i - 1]
          /\ g[i - 1] = f[(i - 1) - 1]
      BY <2>2
    <3> QED BY <3>1 DEF Walks
  <2> QED BY <2>1, <2>2
<1> HIDE DEF g
<1> QED BY <1>1, <1>2 DEF Walks

\* Where no walk is longer than n, n inclusions are all there are.
LEMMA ShortWalksSettle ==
  ASSUME Typed, NEW n \in Nat, n <= Deep, NEW rt \in Router,
         \A f \in Walks(n + 1) : f[0] # rt
  PROVE  Settled(n, rt)
<1> DEFINE F == Flat(own, children)
           Short(k, q) == \A f \in Walks(k + 1) : f[0] # q
           Good == {k \in Nat : k <= Deep =>
                      \A q \in Router : Short(k, q) => \A d \in k..Deep : F[d][q] = F[k][q]}
           Below(d, q) == [i \in DOMAIN children[q] |-> F[d][children[q][i]]]
<1>1. own \in [Router -> Dict] /\ children \in [Router -> Seq(Router)]
  BY DEF Typed
<1>2. /\ \A q \in Router : F[0][q] = own[q]
      /\ \A d \in 1..Deep, q \in Router : F[d][q] = UpdateAll(own[q], Below(d - 1, q))
  BY <1>1, FlatSteps
<1>3. ASSUME NEW q \in Router, NEW i \in DOMAIN children[q]
      PROVE  children[q][i] \in Router /\ children[q][i] \in ToSet(children[q])
  BY <1>1 DEF ToSet
<1> HIDE DEF F
<1>4. 0 \in Good
  <2>1. ASSUME NEW q \in Router, Short(0, q), NEW d \in 0..Deep PROVE F[d][q] = F[0][q]
    <3>1. ASSUME NEW i \in DOMAIN children[q] PROVE FALSE
      <4> DEFINE f == [j \in 0..0 |-> children[q][i]]
      <4>1. f \in Walks(0) /\ f[0] = children[q][i]
        BY <1>3 DEF Walks
      <4> HIDE DEF f
      <4>2. \E g \in Walks(0 + 1) : g[0] = q
        <5>1. 0 \in Nat
          OBVIOUS
        <5> QED BY <4>1, <5>1, <1>3, LongerWalk
      <4> QED BY <4>2, <2>1
    <3>2. CASE d # 0
      <4>1. d \in 1..Deep
        BY <3>2, DeepType
      <4>2. Below(d - 1, q) = <<>>
        <5>1. children[q] \in Seq(Router) /\ DOMAIN children[q] = {}
          BY <1>1, <3>1
        <5> QED BY <5>1
      <4>3. F[d][q] = UpdateAll(own[q], <<>>)
        BY <4>1, <4>2, <1>2
      <4>4. PICK G \in [0..Len(<<>>) -> Dict] : G[0] = own[q] /\ UpdateAll(own[q], <<>>) = G[Len(<<>>)]
        <5>1. own[q] \in Dict /\ <<>> \in Seq(Dict)
          BY <1>1
        <5> QED BY <5>1, UpdateAllSteps
      <4>5. Len(<<>>) = 0
        OBVIOUS
      <4> QED BY <4>3, <4>4, <4>5, <1>2
    <3> QED BY <3>2
  <2> HIDE DEF Short
  <2> QED BY <2>1
<1>5. ASSUME NEW k \in Nat, k \in Good PROVE k + 1 \in Good
  <2>1. ASSUME k + 1 <= Deep, NEW q \in Router, Short(k + 1, q), NEW d \in (k + 1)..Deep
        PROVE  F[d][q] = F[k + 1][q]
    <3>1. /\ k <= Deep /\ d \in 1..Deep /\ d - 1 \in k..Deep
          /\ k + 1 \in 1..Deep /\ (k + 1) - 1 = k /\ k + 1 \in Nat
      BY <2>1, DeepType
    <3>2. ASSUME NEW i \in DOMAIN children[q]
          PROVE  F[d - 1][children[q][i]] = F[k][children[q][i]]
      <4>1. Short(k, children[q][i])
        BY <1>3, <2>1, <3>1, LongerWalk
      <4> HIDE DEF Short
      <4> QED BY <4>1, <3>1, <1>3, <1>5
    <3>3. Below(d - 1, q) = Below(k, q)
      BY <3>2
    <3>4. F[d][q] = UpdateAll(own[q], Below(d - 1, q)) /\ F[k + 1][q] = UpdateAll(own[q], Below(k, q))
      <4> HIDE DEF Below
      <4> QED BY <3>1, <1>2
    <3> HIDE DEF Below
    <3> QED BY <3>3, <3>4
  <2> HIDE DEF Short
  <2> QED BY <2>1
<1>6. n \in Good
  <2> HIDE DEF Good
  <2> QED BY <1>4, <1>5, Induction
<1>7. Short(n, rt)
  OBVIOUS
<1> HIDE DEF Short
<1> QED BY <1>6, <1>7 DEF Settled, F

\* What APIRouter.routes computes: the dictionary of the router, updated with
\* the routes of each included router in turn.
RoutesRecur ==
  \A rt \in Router : ~Circular(rt) =>
    Routes(rt) = UpdateAll(own[rt], [i \in DOMAIN children[rt] |-> Routes(children[rt][i])])

\* The bound on the depth does not show in what Routes returns.
LEMMA RoutesUnfold == Typed => RoutesRecur
<1> SUFFICES ASSUME Typed, NEW rt \in Router, ~Circular(rt)
             PROVE  Routes(rt) = UpdateAll(own[rt], [i \in DOMAIN children[rt] |-> Routes(children[rt][i])])
  BY DEF RoutesRecur
<1> DEFINE F == Flat(own, children)
<1>1. own \in [Router -> Dict] /\ children \in [Router -> Seq(Router)]
  BY DEF Typed
<1>2. Deep \in Nat /\ Deep >= 1
  <2>1. Deep # 0
    BY RoutingAssumption, FS_EmptySet DEF Deep
  <2> QED BY <2>1, DeepType
<1>3. Routes(rt) = UpdateAll(own[rt], [i \in DOMAIN children[rt] |-> F[Deep - 1][children[rt][i]]])
  <2>1. Deep \in 1..Deep
    BY <1>2
  <2> QED BY <2>1, <1>1, RoutesAreFlat, FlatSteps
<1>4. ASSUME NEW i \in DOMAIN children[rt]
      PROVE  F[Deep - 1][children[rt][i]] = Routes(children[rt][i])
  <2> DEFINE r == children[rt][i]
  <2>1. r \in Router /\ r \in ToSet(children[rt])
    BY <1>1 DEF ToSet
  <2>2. ASSUME NEW f \in Walks(Deep - 1), f[0] = r PROVE FALSE
    <3>1. Deep - 1 \in Nat /\ (Deep - 1) + 1 = Deep
      BY <1>2
    <3>2. \E g \in Walks((Deep - 1) + 1) : g[0] = rt
      <4> HIDE DEF r
      <4> QED BY <2>1, <2>2, <3>1, LongerWalk
    <3> QED BY <3>1, <3>2, CircularIsWalk
  <2>3. Deep # 1
    <3>1. ASSUME Deep = 1 PROVE FALSE
      <4> DEFINE f == [j \in 0..0 |-> r]
      <4>1. f \in Walks(0) /\ f[0] = r
        BY <2>1 DEF Walks
      <4>2. Deep - 1 = 0
        BY <3>1
      <4> HIDE DEF f
      <4> QED BY <4>1, <4>2, <2>2
    <3> QED BY <3>1
  <2>4. Deep - 2 \in Nat /\ Deep - 2 <= Deep /\ (Deep - 2) + 1 = Deep - 1
    BY <2>3, <1>2
  <2>5. Settled(Deep - 2, r)
    <3> HIDE DEF r
    <3> QED BY <2>1, <2>2, <2>4, ShortWalksSettle
  <2>6. Deep - 1 \in (Deep - 2)..Deep /\ Deep \in (Deep - 2)..Deep
    BY <1>2, <2>4
  <2>7. F[Deep - 1][r] = F[Deep][r]
    BY <2>5, <2>6 DEF Settled
  <2> QED BY <2>1, <2>7, RoutesAreFlat
<1>5. [i \in DOMAIN children[rt] |-> F[Deep - 1][children[rt][i]]]
        = [i \in DOMAIN children[rt] |-> Routes(children[rt][i])]
  BY <1>4
<1> QED BY <1>3, <1>5

\* Reading routes fails exactly for a router above a circle of inclusions.
FailsInCirclesOnly == \A rt \in Router : Circular(rt) <=> Circle(rt)

\* The RecursionError of APIRouter.routes is raised for a circle of inclusions
\* and for nothing else (FailsInCirclesOnly).
THEOREM OnlyCirclesFail == Spec => []FailsInCirclesOnly
<1>1. Typed => FailsInCirclesOnly
  BY CircularIsCircle DEF FailsInCirclesOnly
<1> QED BY <1>1, RoutersTyped, PTL

\* Routes is the recursion the code is written as (RoutesRecur), not only the
\* bounded one it is defined by.
THEOREM RoutesAreRecursive == Spec => []RoutesRecur
BY RoutesUnfold, RoutersTyped, PTL

-----------------------------------------------------------------------------
\* Of the dictionaries that wait as arguments and those that are served, any
\* two are equal: one flattening made them all.
Agree ==
  /\ \A t, u \in DOMAIN argument : argument[t] = argument[u]
  /\ \A t, u \in DOMAIN table : table[t] = table[u]
  /\ \A t \in DOMAIN argument, u \in DOMAIN table : argument[t] = table[u]

\* A server that is not running serves no dictionary.
LEMMA NoTransport == DOMAIN Empty = {}
BY DEF Empty

\* Registration and start-up keep all dictionaries of a run equal.
LEMMA AgreeStep == Agree /\ [Next]_vars => Agree'
<1> SUFFICES ASSUME Agree, [Next]_vars PROVE Agree'
  OBVIOUS
<1>1. CASE Register \/ UNCHANGED vars
  BY <1>1 DEF Register, AddEndpoint, IncludeRouter, AppIncludeRouter, vars, Agree
<1>2. CASE RunAsync
  <2> DEFINE routes == Routes(App)
  <2> HIDE DEF routes
  <2>1. table' = Empty /\ argument' = [t \in Transport |-> routes]
    BY <1>2 DEF RunAsync, routes
  <2> QED BY <2>1, NoTransport DEF Agree
<1>3. ASSUME NEW t \in Transport, StartTransport(t) PROVE Agree'
  <2>1. /\ t \in DOMAIN argument
        /\ table' = Update(table, [k \in {t} |-> argument[t]])
        /\ argument' = Without(argument, t)
    BY <1>3 DEF StartTransport
  <2> DEFINE x == argument[t]
  <2> HIDE DEF x
  <2>2. ASSUME NEW u \in DOMAIN table' PROVE table'[u] = x
    <3>1. /\ DOMAIN table' = DOMAIN table \cup {t}
          /\ table'[u] = IF u = t THEN x ELSE table[u]
      BY <2>1, <2>2 DEF Update, x
    <3> QED BY <3>1, <2>1 DEF Agree, x
  <2>3. ASSUME NEW u \in DOMAIN argument' PROVE argument'[u] = x
    <3>1. u \in DOMAIN argument /\ argument'[u] = argument[u]
      BY <2>1, <2>3 DEF Without
    <3> QED BY <3>1, <2>1 DEF Agree, x
  <2> QED BY <2>2, <2>3 DEF Agree
<1>4. CASE Stop
  BY <1>4, NoTransport DEF Stop, Agree
<1> QED BY <1>1, <1>2, <1>3, <1>4 DEF Next, Run

\* All transports of a server serve the same routes, whatever is registered
\* while they start one after the other (TransportsAgree).
THEOREM SameRoutes == Spec => []TransportsAgree
<1>1. Init => Agree
  BY NoTransport DEF Init, Agree
<1>2. Agree => TransportsAgree
  BY DEF Agree, TransportsAgree
<1> QED BY <1>1, <1>2, AgreeStep, PTL DEF Spec
=============================================================================
