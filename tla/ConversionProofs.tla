------------------------- MODULE ConversionProofs --------------------------
(***************************************************************************)
(* Proofs about ProtobufMessage and CamelCase: for any descriptors, models *)
(* and messages that DescriptorAssumption and DataAssumption describe, and *)
(* any classes, names and models that ModelAssumption does.                *)
(*                                                                         *)
(* The conversions recur over the nodes of a value.  Each is first shown   *)
(* to have a solution, which gives its equation (ToProtoUnfold and so on); *)
(* facts about a value then follow by induction (Induction) over how deep  *)
(* it nests (Within).                                                      *)
(*                                                                         *)
(* The order: levels and equations; instants; descriptors; what            *)
(* model_to_raw makes is a message (ToProtoIsMessage); what raw_to_model   *)
(* reads (CanBeRead); the invariant and the first theorem; timestamps;     *)
(* plain models come back (PlainRoundTrips).  Then CamelCase: its          *)
(* equations; dictionaries that a loop writes (WrittenAll, WrittenSame);   *)
(* what to_dict makes of a model (CamelizedIsRenamed); what is read of it  *)
(* (RenamedComesBack) and of added keys (UnknownSkipped); the invariant    *)
(* and the theorems.                                                       *)
(***************************************************************************)
EXTENDS ProtobufMessage, CamelCase, TLAPS, WellFoundedInduction

\* Induction over the natural numbers, for a set in the place of a predicate.
LEMMA Induction ==
  ASSUME NEW T, 0 \in T, \A n \in Nat : n \in T => n + 1 \in T
  PROVE  Nat \subseteq T
<1> DEFINE Less == OpToRel(<, Nat)
           Rest == Nat \ T
<1>1. SUFFICES ASSUME Rest # {} PROVE FALSE
  OBVIOUS
<1>2. Less = {pair \in Nat \X Nat : pair[1] < pair[2]}
  BY Zenon DEF OpToRel
<1>3. IsWellFoundedOn(Less, Nat)
  BY NatLessThanWellFounded, Zenon
<1> HIDE DEF Less
<1>4. PICK n \in Rest : \A m \in Rest : <<m, n>> \notin Less
  BY <1>1, <1>3, WFMin, Zenon
<1>5. n \in Nat /\ n - 1 \in Nat /\ n - 1 < n /\ n - 1 \in Rest
  OBVIOUS
<1> QED BY <1>2, <1>4, <1>5

-----------------------------------------------------------------------------
\* The bound on the depth of values.
LEMMA DepthType == Depth \in Nat /\ Depth - 1 \in Nat /\ 0 \in 0..Depth
BY DepthAssumption

Items(v) == {v.items[k] : k \in DOMAIN v.items}

\* Level obeys the recursion it is defined by.
LEMMA LevelSteps ==
  ASSUME NEW v
  PROVE  /\ Level(0, v) = {v}
         /\ \A d \in 1..Depth : \A y :
              y \in Level(d, v) <=> \E u \in Level(d - 1, v) : y \in Items(u)
<1> DEFINE Body(g, n) == IF n = 0 THEN {v} ELSE UNION {Items(u) : u \in g[n - 1]}
           Known == {n \in Nat : \E g : g = [i \in 0..n |-> Body(g, i)]}
           L == CHOOSE g : g = [i \in 0..Depth |-> Body(g, i)]
<1>1. 0 \in Known
  <2> DEFINE g == [i \in 0..0 |-> {v}]
  <2>1. \A i \in 0..0 : g[i] = Body(g, i)
    OBVIOUS
  <2>2. g = [i \in 0..0 |-> Body(g, i)]
    BY <2>1
  <2> QED BY <2>2
<1>2. ASSUME NEW n \in Nat, n \in Known PROVE n + 1 \in Known
  <2>1. PICK g : g = [i \in 0..n |-> Body(g, i)]
    BY <1>2
  <2> DEFINE h == [i \in 0..(n + 1) |-> IF i <= n THEN g[i] ELSE Body(g, n + 1)]
  <2>2. ASSUME NEW i \in 0..(n + 1) PROVE h[i] = Body(h, i)
    <3>1. i # 0 => h[i - 1] = g[i - 1]
      OBVIOUS
    <3>2. Body(h, i) = Body(g, i)
      <4> HIDE DEF h
      <4> QED BY <3>1
    <3>3. h[i] = Body(g, i)
      <4> HIDE DEF Body
      <4>1. CASE i <= n
        <5>1. i \in 0..n /\ h[i] = g[i]
          BY <4>1
        <5> HIDE DEF h
        <5> QED BY <5>1, <2>1
      <4>2. CASE i = n + 1
        BY <4>2
      <4> QED BY <4>1, <4>2
    <3> HIDE DEF Body, h
    <3> QED BY <3>2, <3>3
  <2>3. h = [i \in 0..(n + 1) |-> Body(h, i)]
    <3> HIDE DEF Body
    <3> QED BY <2>2
  <2> HIDE DEF h, Body
  <2> QED BY <2>3
<1>3. Depth \in Known
  <2> HIDE DEF Known
  <2> QED BY <1>1, <1>2, Induction, DepthType
<1>4. L = [i \in 0..Depth |-> Body(L, i)]
  <2> HIDE DEF Body
  <2> QED BY <1>3
<1>5. \A d \in 0..Depth : Level(d, v) = L[d]
  BY DEF Level, Items
<1> HIDE DEF L, Known
<1>6. L[0] = {v}
  BY <1>4, DepthType
<1>7. ASSUME NEW d \in 1..Depth PROVE L[d] = UNION {Items(u) : u \in L[d - 1]}
  <2>1. d \in 0..Depth /\ d # 0
    BY DepthType
  <2>2. L[d] = Body(L, d)
    <3> HIDE DEF Body
    <3> QED BY <2>1, <1>4
  <2> QED BY <2>1, <2>2
<1>8. ASSUME NEW d \in 1..Depth, NEW y
      PROVE  y \in Level(d, v) <=> \E u \in Level(d - 1, v) : y \in Items(u)
  <2>1. d \in 0..Depth /\ d - 1 \in 0..Depth
    BY DepthType
  <2> QED BY <2>1, <1>5, <1>7
<1> QED BY <1>5, <1>6, <1>8, DepthType

\* What is d levels below v is d - 1 levels below an item of v.
LEMMA LevelFront ==
  ASSUME NEW v
  PROVE  \A d \in 1..Depth : \A y :
           y \in Level(d, v) <=> \E x \in Items(v) : y \in Level(d - 1, x)
<1> DEFINE Good == {n \in Nat : n + 1 <= Depth =>
                      \A y : y \in Level(n + 1, v) <=> \E x \in Items(v) : y \in Level(n, x)}
<1>1. 0 \in Good
  <2>1. ASSUME 0 + 1 <= Depth, NEW y
        PROVE  y \in Level(0 + 1, v) <=> \E x \in Items(v) : y \in Level(0, x)
    <3>1. 1 \in 1..Depth /\ 1 - 1 = 0 /\ 0 + 1 = 1
      BY <2>1, DepthType
    <3>2. y \in Level(1, v) <=> \E u \in Level(1 - 1, v) : y \in Items(u)
      BY <3>1, LevelSteps
    <3>3. Level(0, v) = {v} /\ \A x : Level(0, x) = {x}
      BY LevelSteps
    <3> QED BY <3>1, <3>2, <3>3
  <2> QED BY <2>1
<1>2. ASSUME NEW n \in Nat, n \in Good PROVE n + 1 \in Good
  <2>1. ASSUME (n + 1) + 1 <= Depth, NEW y
        PROVE  y \in Level((n + 1) + 1, v) <=> \E x \in Items(v) : y \in Level(n + 1, x)
    <3>1. /\ (n + 1) + 1 \in 1..Depth /\ ((n + 1) + 1) - 1 = n + 1
          /\ n + 1 \in 1..Depth /\ (n + 1) - 1 = n
          /\ \A z : z \in Level(n + 1, v) <=> \E x \in Items(v) : z \in Level(n, x)
      BY <2>1, <1>2, DepthType
    <3>2. y \in Level((n + 1) + 1, v) <=> \E u \in Level(n + 1, v) : y \in Items(u)
      <4>1. y \in Level((n + 1) + 1, v) <=> \E u \in Level(((n + 1) + 1) - 1, v) : y \in Items(u)
        BY <3>1, LevelSteps
      <4> QED BY <4>1, <3>1
    <3>3. \A x : y \in Level(n + 1, x) <=> \E u \in Level(n, x) : y \in Items(u)
      <4>1. \A x : y \in Level(n + 1, x) <=> \E u \in Level((n + 1) - 1, x) : y \in Items(u)
        BY <3>1, LevelSteps
      <4> QED BY <4>1, <3>1
    <3> QED BY <3>1, <3>2, <3>3
  <2> QED BY <2>1
<1>3. Nat \subseteq Good
  <2> HIDE DEF Good
  <2> QED BY <1>1, <1>2, Induction
<1>4. ASSUME NEW d \in 1..Depth, NEW y
      PROVE  y \in Level(d, v) <=> \E x \in Items(v) : y \in Level(d - 1, x)
  <2>1. d - 1 \in Nat /\ (d - 1) + 1 = d /\ d <= Depth
    BY DepthType
  <2>2. d - 1 \in Good
    <3> HIDE DEF Good
    <3> QED BY <2>1, <1>3
  <2> QED BY <2>1, <2>2
<1> QED BY <1>4

\* What is below something below v is below v.
LEMMA LevelBelow ==
  ASSUME NEW i \in Nat, NEW v, NEW u \in Level(i, v)
  PROVE  \A j \in Nat : i + j <= Depth => Level(j, u) \subseteq Level(i + j, v)
<1> DEFINE Good == {j \in Nat : i + j <= Depth => Level(j, u) \subseteq Level(i + j, v)}
<1>1. 0 \in Good
  BY LevelSteps
<1>2. ASSUME NEW j \in Nat, j \in Good PROVE j + 1 \in Good
  <2>1. ASSUME i + (j + 1) <= Depth, NEW y \in Level(j + 1, u) PROVE y \in Level(i + (j + 1), v)
    <3>1. /\ j + 1 \in 1..Depth /\ (j + 1) - 1 = j
          /\ i + (j + 1) \in 1..Depth /\ (i + (j + 1)) - 1 = i + j
          /\ Level(j, u) \subseteq Level(i + j, v)
      BY <2>1, <1>2, DepthType
    <3>2. PICK x \in Level((j + 1) - 1, u) : y \in Items(x)
      BY <2>1, <3>1, LevelSteps
    <3>3. x \in Level((i + (j + 1)) - 1, v)
      BY <3>1, <3>2
    <3> QED BY <3>1, <3>2, <3>3, LevelSteps
  <2> QED BY <2>1
<1>3. Nat \subseteq Good
  <2> HIDE DEF Good
  <2> QED BY <1>1, <1>2, Induction
<1> QED BY <1>3

-----------------------------------------------------------------------------
\* A value nests less than n levels.
Within(n, v) == Level(n, v) = {}

Shallow(v) == Within(Depth, v)

\* A value nests one level more than its items.
LEMMA WithinItems ==
  ASSUME NEW n \in Nat, n + 1 <= Depth, NEW v
  PROVE  Within(n + 1, v) <=> \A x \in Items(v) : Within(n, x)
<1>1. n + 1 \in 1..Depth /\ (n + 1) - 1 = n
  BY DepthType
<1>2. \A y : y \in Level(n + 1, v) <=> \E x \in Items(v) : y \in Level(n, x)
  <2>1. \A y : y \in Level(n + 1, v) <=> \E x \in Items(v) : y \in Level((n + 1) - 1, x)
    BY <1>1, LevelFront
  <2> QED BY <2>1, <1>1
<1> QED BY <1>2 DEF Within

\* Every value has something at its own level.
LEMMA WithinSome == \A v : ~Within(0, v)
BY LevelSteps DEF Within

\* What ends at a level ends at every level below.
LEMMA WithinMore ==
  ASSUME NEW m \in Nat, NEW n \in Nat, m <= n, n <= Depth, NEW v, Within(m, v)
  PROVE  Within(n, v)
<1> DEFINE Good == {j \in Nat : m + j <= Depth => Within(m + j, v)}
<1>1. 0 \in Good
  OBVIOUS
<1>2. ASSUME NEW j \in Nat, j \in Good PROVE j + 1 \in Good
  <2>1. ASSUME m + (j + 1) <= Depth, NEW y \in Level(m + (j + 1), v) PROVE FALSE
    <3>1. m + (j + 1) \in 1..Depth /\ (m + (j + 1)) - 1 = m + j /\ Level(m + j, v) = {}
      BY <2>1, <1>2, DepthType DEF Within
    <3> QED BY <2>1, <3>1, LevelSteps
  <2> QED BY <2>1 DEF Within
<1>3. Nat \subseteq Good
  <2> HIDE DEF Good
  <2> QED BY <1>1, <1>2, Induction
<1>4. n - m \in Good /\ m + (n - m) = n
  <2> HIDE DEF Good
  <2> QED BY <1>3
<1> QED BY <1>4

\* The nodes of a value are itself and those of its items.
LEMMA NodesUnfold ==
  ASSUME NEW v, Shallow(v)
  PROVE  /\ \A x \in Items(v) : Shallow(x) /\ Within(Depth - 1, x)
         /\ v \in Nodes(v)
         /\ \A y : y \in Nodes(v) <=> y = v \/ \E x \in Items(v) : y \in Nodes(x)
<1>1. (Depth - 1) + 1 = Depth /\ Depth - 1 \in Nat /\ Depth \in Nat /\ Depth - 1 <= Depth
  BY DepthType
<1>2. \A x \in Items(v) : Within(Depth - 1, x)
  BY <1>1, WithinItems DEF Shallow
<1>3. \A x \in Items(v) : Shallow(x)
  BY <1>1, <1>2, WithinMore DEF Shallow
<1>4. \A u, y : y \in Nodes(u) <=> \E d \in 0..Depth : y \in Level(d, u)
  BY DEF Nodes
<1>5. v \in Nodes(v)
  BY <1>4, LevelSteps, DepthType
<1>6. ASSUME NEW y \in Nodes(v) PROVE y = v \/ \E x \in Items(v) : y \in Nodes(x)
  <2>1. PICK d \in 0..Depth : y \in Level(d, v)
    BY <1>4
  <2>2. CASE d = 0
    BY <2>1, <2>2, LevelSteps
  <2>3. CASE d # 0
    <3>1. d \in 1..Depth /\ d - 1 \in 0..Depth
      BY <2>3, <1>1
    <3>2. PICK x \in Items(v) : y \in Level(d - 1, x)
      BY <2>1, <3>1, LevelFront
    <3> QED BY <3>1, <3>2, <1>4
  <2> QED BY <2>2, <2>3
<1>7. ASSUME NEW x \in Items(v), NEW y \in Nodes(x) PROVE y \in Nodes(v)
  <2>1. PICK d \in 0..Depth : y \in Level(d, x)
    BY <1>4
  <2>2. d # Depth
    BY <2>1, <1>3 DEF Shallow, Within
  <2>3. d + 1 \in 1..Depth /\ (d + 1) - 1 = d /\ d + 1 \in 0..Depth
    BY <2>2, <1>1
  <2>4. y \in Level(d + 1, v)
    <3>1. y \in Level((d + 1) - 1, x)
      BY <2>1, <2>3
    <3> QED BY <3>1, <2>3, LevelFront
  <2> QED BY <2>3, <2>4, <1>4
<1> QED BY <1>2, <1>3, <1>5, <1>6, <1>7

\* What is in a value is as shallow, and what is in that is in the value.
LEMMA NodesClosed ==
  ASSUME NEW v, Shallow(v), NEW u \in Nodes(v)
  PROVE  Shallow(u) /\ Items(u) \subseteq Nodes(v)
<1>1. PICK d \in 0..Depth : u \in Level(d, v)
  BY DEF Nodes
<1>2. d \in Nat /\ d # Depth /\ Depth \in Nat /\ Depth - d \in Nat /\ d + (Depth - d) = Depth
      /\ Depth - d <= Depth
  BY <1>1, DepthType DEF Shallow, Within
<1>3. Within(Depth - d, u)
  <2>1. Level(Depth - d, u) \subseteq Level(d + (Depth - d), v)
    BY <1>1, <1>2, LevelBelow
  <2> QED BY <2>1, <1>2 DEF Shallow, Within
<1>4. Shallow(u)
  BY <1>2, <1>3, WithinMore DEF Shallow
<1>5. ASSUME NEW y \in Items(u) PROVE y \in Nodes(v)
  <2>1. d + 1 \in 1..Depth /\ (d + 1) - 1 = d /\ d + 1 \in 0..Depth
    BY <1>2
  <2>2. y \in Level(d + 1, v)
    <3>1. u \in Level((d + 1) - 1, v)
      BY <1>1, <2>1
    <3> QED BY <3>1, <2>1, LevelSteps
  <2> QED BY <2>1, <2>2 DEF Nodes
<1> QED BY <1>4, <1>5

\* One step of each of the recursive conversions.
Step(op, v, done) ==
  IF op = "proto" THEN ProtoOf(v, done)
  ELSE IF op = "dict" THEN DictOf(v, done)
  ELSE IF op = "data" THEN DataOf(v, done)
  ELSE IF op = "asdict" THEN Keys!Dictionary(v, done)
  ELSE IF op = "camel" THEN Keys!CamelizedValue(v, done)
  ELSE IF op = "decamel" THEN Keys!DecamelizedAs(v, done)
  ELSE RenamedValue(v, done)

\* What conversion op makes of each node of v.
IsRun(op, v, g) ==
  g = [u \in Nodes(v) |-> Step(op, u, [k \in DOMAIN u.items |-> g[u.items[k]]])]

\* A conversion comes to an end on a shallow value.
LEMMA RunExists ==
  ASSUME NEW op, NEW v, Shallow(v)
  PROVE  \E g : IsRun(op, v, g)
<1> DEFINE N == Nodes(v)
           Low(n) == {u \in N : Within(n, u)}
           Body(g, u) == Step(op, u, [k \in DOMAIN u.items |-> g[u.items[k]]])
           Known == {n \in Nat : n <= Depth => \E g : g = [u \in Low(n) |-> Body(g, u)]}
<1>1. 0 \in Known
  <2> DEFINE g == [u \in Low(0) |-> 0]
  <2>1. Low(0) = {}
    BY WithinSome
  <2>2. g = [u \in Low(0) |-> Body(g, u)]
    <3> HIDE DEF Body, Low
    <3> QED BY <2>1
  <2> HIDE DEF g, Body, Low
  <2> QED BY <2>2
<1>2. ASSUME NEW n \in Nat, n \in Known PROVE n + 1 \in Known
  <2> HIDE DEF Body, Low
  <2> SUFFICES ASSUME n + 1 <= Depth
               PROVE  \E g : g = [u \in Low(n + 1) |-> Body(g, u)]
    <3>1. n + 1 \in Nat
      OBVIOUS
    <3> QED BY <3>1, Zenon
  <2> USE DEF Body, Low
  <2>1. n <= Depth /\ n <= n + 1 /\ n + 1 \in Nat
    BY DepthType
  <2>2. PICK g : g = [u \in Low(n) |-> Body(g, u)]
    BY <1>2, <2>1
  <2> DEFINE h == [u \in Low(n + 1) |-> Body(g, u)]
  <2>3. ASSUME NEW u \in Low(n) PROVE u \in Low(n + 1) /\ h[u] = g[u]
    <3>1. u \in Low(n + 1)
      BY <2>1, WithinMore
    <3>2. g[u] = Body(g, u)
      <4> HIDE DEF Body, Low
      <4> QED BY <2>2
    <3>3. h[u] = Body(g, u)
      <4> HIDE DEF Body, Low
      <4> QED BY <3>1
    <3> HIDE DEF h, Body, Low
    <3> QED BY <3>1, <3>2, <3>3
  <2>4. ASSUME NEW u \in Low(n + 1) PROVE h[u] = Body(h, u)
    <3>1. ASSUME NEW k \in DOMAIN u.items PROVE u.items[k] \in Low(n)
      <4>1. u.items[k] \in Items(u)
        BY DEF Items
      <4>2. Within(n, u.items[k])
        BY <4>1, WithinItems
      <4>3. u.items[k] \in N
        <5> HIDE DEF N
        <5> QED BY <4>1, NodesClosed DEF N
      <4> QED BY <4>2, <4>3
    <3>2. \A k \in DOMAIN u.items : h[u.items[k]] = g[u.items[k]]
      <4> HIDE DEF h, Low
      <4> QED BY <3>1, <2>3
    <3>3. Body(h, u) = Body(g, u)
      <4> HIDE DEF h, Low
      <4>1. [k \in DOMAIN u.items |-> h[u.items[k]]] = [k \in DOMAIN u.items |-> g[u.items[k]]]
        BY <3>2
      <4> QED BY <4>1
    <3>4. h[u] = Body(g, u)
      <4> HIDE DEF Body, Low
      <4> QED OBVIOUS
    <3> HIDE DEF h, Body, Low
    <3> QED BY <3>3, <3>4
  <2>5. h = [u \in Low(n + 1) |-> Body(h, u)]
    <3> HIDE DEF Body, Low
    <3> QED BY <2>4
  <2> HIDE DEF h, Body, Low
  <2> QED BY <2>5
<1>3. Depth \in Known
  <2> HIDE DEF Known
  <2> QED BY <1>1, <1>2, Induction, DepthType
<1>4. PICK g : g = [u \in Low(Depth) |-> Body(g, u)]
  <2>1. Depth <= Depth
    BY DepthType
  <2> HIDE DEF Low, Body
  <2> QED BY <1>3, <2>1
<1>5. Low(Depth) = Nodes(v)
  BY NodesClosed DEF Shallow
<1>6. g = [u \in Nodes(v) |-> Body(g, u)]
  <2> HIDE DEF Body, Low
  <2> QED BY <1>4, <1>5
<1> QED BY <1>6 DEF IsRun

\* What it makes of a node does not depend on where the node is.
LEMMA RunsAgree ==
  ASSUME NEW op, NEW v, Shallow(v), NEW w, Shallow(w), NEW g, IsRun(op, v, g),
         NEW h, IsRun(op, w, h)
  PROVE  \A u \in Nodes(v) \cap Nodes(w) : g[u] = h[u]
<1> DEFINE Good == {n \in Nat : n <= Depth =>
                      \A u \in Nodes(v) \cap Nodes(w) : Within(n, u) => g[u] = h[u]}
<1>1. 0 \in Good
  BY WithinSome
<1>2. ASSUME NEW n \in Nat, n \in Good PROVE n + 1 \in Good
  <2>1. ASSUME n + 1 <= Depth, NEW u \in Nodes(v) \cap Nodes(w), Within(n + 1, u)
        PROVE  g[u] = h[u]
    <3>1. n <= Depth
      BY <2>1, DepthType
    <3>2. ASSUME NEW k \in DOMAIN u.items PROVE g[u.items[k]] = h[u.items[k]]
      <4>1. u.items[k] \in Items(u)
        BY DEF Items
      <4>2. Within(n, u.items[k])
        BY <4>1, <2>1, WithinItems
      <4>3. u.items[k] \in Nodes(v) \cap Nodes(w)
        BY <4>1, NodesClosed
      <4> QED BY <3>1, <4>2, <4>3, <1>2
    <3>3. [k \in DOMAIN u.items |-> g[u.items[k]]] = [k \in DOMAIN u.items |-> h[u.items[k]]]
      BY <3>2
    <3>4. /\ g[u] = Step(op, u, [k \in DOMAIN u.items |-> g[u.items[k]]])
          /\ h[u] = Step(op, u, [k \in DOMAIN u.items |-> h[u.items[k]]])
      BY DEF IsRun
    <3> QED BY <3>3, <3>4
  <2> QED BY <2>1
<1>3. Depth \in Good
  <2> HIDE DEF Good
  <2> QED BY <1>1, <1>2, Induction, DepthType
<1>4. \A u \in Nodes(v) \cap Nodes(w) : Within(Depth, u)
  BY NodesClosed DEF Shallow
<1> QED BY <1>3, <1>4, DepthType

\* So it is a recursion over the items.
LEMMA RunUnfold ==
  ASSUME NEW op, NEW v, Shallow(v), NEW g, IsRun(op, v, g),
         NEW r, \A k \in DOMAIN v.items : \E h : IsRun(op, v.items[k], h) /\ r[k] = h[v.items[k]],
         r = [k \in DOMAIN v.items |-> r[k]]
  PROVE  g[v] = Step(op, v, r)
<1>1. v \in Nodes(v)
  BY NodesUnfold
<1>2. g[v] = Step(op, v, [k \in DOMAIN v.items |-> g[v.items[k]]])
  BY <1>1 DEF IsRun
<1>3. ASSUME NEW k \in DOMAIN v.items PROVE g[v.items[k]] = r[k]
  <2>1. PICK h : IsRun(op, v.items[k], h) /\ r[k] = h[v.items[k]]
    OBVIOUS
  <2>2. v.items[k] \in Items(v)
    BY DEF Items
  <2>3. Shallow(v.items[k]) /\ v.items[k] \in Nodes(v)
    BY <1>1, <2>2, NodesClosed, NodesUnfold
  <2>4. v.items[k] \in Nodes(v.items[k])
    BY <2>3, NodesUnfold
  <2> QED BY <2>1, <2>3, <2>4, RunsAgree
<1>4. [k \in DOMAIN v.items |-> g[v.items[k]]] = r
  BY <1>3
<1> QED BY <1>2, <1>4

\* The equations of the three conversions.
LEMMA ToProtoUnfold ==
  ASSUME NEW v, Shallow(v)
  PROVE  ToProto(v) = ProtoOf(v, [k \in DOMAIN v.items |-> ToProto(v.items[k])])
<1> DEFINE R(u) == CHOOSE P : P = [x \in Nodes(u) |-> ProtoOf(x, [k \in DOMAIN x.items |-> P[x.items[k]]])]
<1>1. \A u : ToProto(u) = R(u)[u]
  BY DEF ToProto, Walk
<1>2. ASSUME NEW u, Shallow(u) PROVE IsRun("proto", u, R(u))
  <2>1. PICK g : IsRun("proto", u, g)
    BY <1>2, RunExists
  <2>2. \A x, d : Step("proto", x, d) = ProtoOf(x, d)
    BY DEF Step
  <2>3. g = [x \in Nodes(u) |-> ProtoOf(x, [k \in DOMAIN x.items |-> g[x.items[k]]])]
    BY <2>1, <2>2 DEF IsRun
  <2>4. R(u) = [x \in Nodes(u) |-> ProtoOf(x, [k \in DOMAIN x.items |-> R(u)[x.items[k]]])]
    BY <2>3
  <2> HIDE DEF R
  <2> QED BY <2>2, <2>4 DEF IsRun
<1> HIDE DEF R
<1> DEFINE r == [k \in DOMAIN v.items |-> ToProto(v.items[k])]
<1>3. ASSUME NEW k \in DOMAIN v.items
      PROVE  \E h : IsRun("proto", v.items[k], h) /\ r[k] = h[v.items[k]]
  <2>1. Shallow(v.items[k])
    BY NodesUnfold DEF Items
  <2> QED BY <2>1, <1>1, <1>2
<1>4. r = [k \in DOMAIN v.items |-> r[k]]
  OBVIOUS
<1> HIDE DEF r
<1>5. R(v)[v] = Step("proto", v, r)
  BY <1>2, <1>3, <1>4, RunUnfold
<1> QED BY <1>1, <1>5 DEF Step, r

\* The equation of ToDict.
LEMMA ToDictUnfold ==
  ASSUME NEW v, Shallow(v)
  PROVE  ToDict(v) = DictOf(v, [k \in DOMAIN v.items |-> ToDict(v.items[k])])
<1> DEFINE R(u) == CHOOSE D : D = [x \in Nodes(u) |-> DictOf(x, [k \in DOMAIN x.items |-> D[x.items[k]]])]
<1>1. \A u : ToDict(u) = R(u)[u]
  BY DEF ToDict, Walk
<1>2. ASSUME NEW u, Shallow(u) PROVE IsRun("dict", u, R(u))
  <2>1. PICK g : IsRun("dict", u, g)
    BY <1>2, RunExists
  <2>2. \A x, d : Step("dict", x, d) = DictOf(x, d)
    BY DEF Step
  <2>3. g = [x \in Nodes(u) |-> DictOf(x, [k \in DOMAIN x.items |-> g[x.items[k]]])]
    BY <2>1, <2>2 DEF IsRun
  <2>4. R(u) = [x \in Nodes(u) |-> DictOf(x, [k \in DOMAIN x.items |-> R(u)[x.items[k]]])]
    BY <2>3
  <2> HIDE DEF R
  <2> QED BY <2>2, <2>4 DEF IsRun
<1> HIDE DEF R
<1> DEFINE r == [k \in DOMAIN v.items |-> ToDict(v.items[k])]
<1>3. ASSUME NEW k \in DOMAIN v.items
      PROVE  \E h : IsRun("dict", v.items[k], h) /\ r[k] = h[v.items[k]]
  <2>1. Shallow(v.items[k])
    BY NodesUnfold DEF Items
  <2> QED BY <2>1, <1>1, <1>2
<1>4. r = [k \in DOMAIN v.items |-> r[k]]
  OBVIOUS
<1> HIDE DEF r
<1>5. R(v)[v] = Step("dict", v, r)
  BY <1>2, <1>3, <1>4, RunUnfold
<1> QED BY <1>1, <1>5 DEF Step, r

\* The equation of AsDict.
LEMMA AsDictUnfold ==
  ASSUME NEW v, Shallow(v)
  PROVE  AsDict(v) = DataOf(v, [k \in DOMAIN v.items |-> AsDict(v.items[k])])
<1> DEFINE R(u) == CHOOSE A : A = [x \in Nodes(u) |-> DataOf(x, [k \in DOMAIN x.items |-> A[x.items[k]]])]
<1>1. \A u : AsDict(u) = R(u)[u]
  BY DEF AsDict, Walk
<1>2. ASSUME NEW u, Shallow(u) PROVE IsRun("data", u, R(u))
  <2>1. PICK g : IsRun("data", u, g)
    BY <1>2, RunExists
  <2>2. \A x, d : Step("data", x, d) = DataOf(x, d)
    BY DEF Step
  <2>3. g = [x \in Nodes(u) |-> DataOf(x, [k \in DOMAIN x.items |-> g[x.items[k]]])]
    BY <2>1, <2>2 DEF IsRun
  <2>4. R(u) = [x \in Nodes(u) |-> DataOf(x, [k \in DOMAIN x.items |-> R(u)[x.items[k]]])]
    BY <2>3
  <2> HIDE DEF R
  <2> QED BY <2>2, <2>4 DEF IsRun
<1> HIDE DEF R
<1> DEFINE r == [k \in DOMAIN v.items |-> AsDict(v.items[k])]
<1>3. ASSUME NEW k \in DOMAIN v.items
      PROVE  \E h : IsRun("data", v.items[k], h) /\ r[k] = h[v.items[k]]
  <2>1. Shallow(v.items[k])
    BY NodesUnfold DEF Items
  <2> QED BY <2>1, <1>1, <1>2
<1>4. r = [k \in DOMAIN v.items |-> r[k]]
  OBVIOUS
<1> HIDE DEF r
<1>5. R(v)[v] = Step("data", v, r)
  BY <1>2, <1>3, <1>4, RunUnfold
<1> QED BY <1>1, <1>5 DEF Step, r

\* A datetime is split into seconds and microseconds so that it comes back at
\* its instant when these count from a second on or after 1970.
LEMMA SplitInstant ==
  ASSUME NEW t \in Int
  PROVE  /\ Truncate(t) \in Int /\ t % Second \in Int
         /\ t >= 0 \/ t % Second = 0 => Truncate(t) * Second + (t % Second) = t
         /\ ~(t >= 0 \/ t % Second = 0) => Truncate(t) * Second + (t % Second) = t + Second
<1>1. Second \in Nat \ {0}
  BY DataAssumption
<1> DEFINE q == t \div Second
           r == t % Second
           p == (-t) \div Second
           s == (-t) % Second
<1>2. q \in Int /\ r \in 0..(Second - 1) /\ t = Second * q + r
  BY <1>1
<1>3. p \in Int /\ s \in 0..(Second - 1) /\ -t = Second * p + s
  BY <1>1
<1>4. Truncate(t) = IF t >= 0 THEN q ELSE -p
  BY DEF Truncate
<1>5. r \in Int
  BY <1>1, <1>2
<1> HIDE DEF q, r, p, s
<1>6. Second * (q + p) + (r + s) = 0
  BY <1>1, <1>2, <1>3
<1>7. r + s \in 0..(2 * Second - 2)
  BY <1>1, <1>2, <1>3
<1>8. q + p = 0 \/ q + p = -1
  BY <1>1, <1>2, <1>3, <1>6, <1>7
<1>9. r = 0 => q + p = 0
  BY <1>1, <1>2, <1>3, <1>6, <1>8
<1>10. r # 0 => q + p = -1
  BY <1>1, <1>2, <1>3, <1>6, <1>8
<1>11. q * Second + r = t
  BY <1>1, <1>2
<1>12. (q + 1) * Second + r = t + Second
  BY <1>1, <1>2
<1>13. r = 0 => -p = q
  BY <1>2, <1>3, <1>9
<1>14. r # 0 => -p = q + 1
  BY <1>2, <1>3, <1>10
<1>15. Truncate(t) \in Int
  BY <1>2, <1>3, <1>4
<1> QED BY <1>4, <1>5, <1>11, <1>12, <1>13, <1>14, <1>15 DEF r

\* First is the least of some numbers.
LEMMA FirstIsLeast ==
  ASSUME NEW S \in SUBSET Nat, S # {}
  PROVE  First(S) \in S /\ \A j \in S : First(S) <= j
<1> DEFINE Low == {n \in Nat : \A j \in S : n <= j}
<1>1. ASSUME ~\E i \in S : \A j \in S : i <= j PROVE FALSE
  <2>1. 0 \in Low
    OBVIOUS
  <2>2. ASSUME NEW n \in Nat, n \in Low PROVE n + 1 \in Low
    <3>1. n \notin S
      BY <1>1, <2>2
    <3>2. \A j \in S : n <= j /\ n # j /\ j \in Nat
      BY <2>2, <3>1
    <3> QED BY <3>2
  <2>3. Nat \subseteq Low
    <3> HIDE DEF Low
    <3> QED BY <2>1, <2>2, Induction
  <2>4. PICK s \in S : TRUE
    OBVIOUS
  <2>5. s + 1 \in Low
    <3> HIDE DEF Low
    <3> QED BY <2>3, <2>4
  <2> QED BY <2>4, <2>5
<1>2. PICK i \in S : \A j \in S : i <= j
  BY <1>1
<1> QED BY <1>2 DEF First

\* What the assumptions say of one field of a message type.
LEMMA FieldType ==
  ASSUME NEW c \in Message, NEW f \in DOMAIN Field[c]
  PROVE  /\ Field[c][f].type \in ScalarType \cup {"message"}
         /\ Field[c][f].type = "message" => Field[c][f].message \in Message
         /\ Field[c][f].type # "message" => Field[c][f].message = "none"
         /\ Field[c][f].label \in {"singular", "repeated", "map"}
         /\ Field[c][f].oneof \notin DOMAIN Field[c]
         /\ Field[c][f].oneof # NoOneof => Field[c][f].label = "singular"
         /\ Field[c][f].message = "Timestamp" => Field[c][f].type = "message"
BY DescriptorAssumption

\* The tags of messages are no others.
LEMMA MessageTags ==
  ASSUME NEW c \in Message
  PROVE  c \notin Collection /\ c \notin PyType
BY DescriptorAssumption

\* Datetimes are values of python types.
LEMMA DateTags ==
  /\ \A tag : tag \notin PyType => tag \notin {"datetime", "zoned_datetime"}
  /\ \A tag \in Collection : tag \notin {"datetime", "zoned_datetime"}
BY DEF PyType, Collection

\* What a field keeps of a number it keeps as it is; only a float of 32 bits
\* may be another number.
LEMMA KeptIs ==
  ASSUME NEW type, NEW n \in Int
  PROVE  /\ Kept(type, n) \in Int
         /\ Kept(type, Kept(type, n)) = Kept(type, n)
         /\ type # "float" => Kept(type, n) = n
<1>1. \A k \in DOMAIN Rounding : Rounding[k] \in Int \ DOMAIN Rounding
  BY DataAssumption
<1> QED BY <1>1 DEF Kept

\* A oneof has fields of the message type, at positions of it.
LEMMA OneofPositions ==
  ASSUME NEW c \in Message, NEW o
  PROVE  /\ OneofFields(c, o) \subseteq Nat
         /\ \A i \in OneofFields(c, o) :
              FieldNames[c][i] \in DOMAIN Field[c] /\ Field[c][FieldNames[c][i]].oneof = o
<1>1. FieldNames[c] \in Seq(DOMAIN Field[c])
  BY DescriptorAssumption
<1>2. DOMAIN FieldNames[c] = 1..Len(FieldNames[c]) /\ Len(FieldNames[c]) \in Nat
  BY <1>1
<1>3. \A i \in DOMAIN FieldNames[c] : i \in Nat /\ FieldNames[c][i] \in DOMAIN Field[c]
  BY <1>1, <1>2
<1> QED BY <1>3 DEF OneofFields

\* An attribute of the name of a field is for that field.
LEMMA NameOfField ==
  ASSUME NEW c \in Message, NEW a \in DOMAIN Field[c], NEW v
  PROVE  FieldOf(c, a, v) = a
<1>1. OneofFields(c, a) = {}
  BY OneofPositions, FieldType
<1> QED BY <1>1 DEF FieldOf

\* An attribute for a field has its name or that of its oneof.
LEMMA NameOfOneof ==
  ASSUME NEW c \in Message, NEW a, NEW v, FieldOf(c, a, v) \in DOMAIN Field[c]
  PROVE  \/ FieldOf(c, a, v) = a
         \/ /\ Field[c][FieldOf(c, a, v)].oneof = a
            /\ a # NoOneof
            /\ a \notin DOMAIN Field[c]
<1>1. CASE a # NoOneof /\ OneofFields(c, a) # {}
  <2> DEFINE tried == {i \in OneofFields(c, a) : Matches(v, Field[c][FieldNames[c][i]]) # "no"}
  <2>1. FieldOf(c, a, v) = ChosenField(c, a, v)
    BY <1>1 DEF FieldOf
  <2>2. FieldOf(c, a, v) # NoField
    BY DescriptorAssumption
  <2>3. tried # {} /\ FieldOf(c, a, v) = FieldNames[c][First(tried)]
    BY <2>1, <2>2 DEF ChosenField
  <2>4. First(tried) \in tried
    BY <2>3, FirstIsLeast, OneofPositions
  <2>5. Field[c][FieldOf(c, a, v)].oneof = a
    <3>1. First(tried) \in OneofFields(c, a)
      BY <2>4
    <3> HIDE DEF tried
    <3>2. Field[c][FieldNames[c][First(tried)]].oneof = a
      BY <3>1, OneofPositions
    <3> QED BY <3>2, <2>3
  <2>6. a \notin DOMAIN Field[c]
    BY <2>5, FieldType
  <2> QED BY <1>1, <2>5, <2>6
<1>2. CASE ~(a # NoOneof /\ OneofFields(c, a) # {})
  BY <1>2 DEF FieldOf
<1> QED BY <1>1, <1>2

\* So it is for the choice that the field is one of.
LEMMA NameIsChoice ==
  ASSUME NEW c \in Message, NEW a, NEW v, FieldOf(c, a, v) \in DOMAIN Field[c]
  PROVE  LET f == FieldOf(c, a, v) IN
         /\ Field[c][f].oneof = NoOneof => a = f
         /\ Choice(c, a) = Field[c][f].oneof
<1>1. CASE FieldOf(c, a, v) = a
  BY <1>1 DEF Choice
<1>2. CASE FieldOf(c, a, v) # a
  BY <1>2, NameOfOneof DEF Choice
<1> QED BY <1>1, <1>2

\* The value of the field of attribute a in a message made of m.
ValueFor(m, done, a) ==
  FieldValue(Field[m.tag][FieldOf(m.tag, a, m.items[a])], a, m.items[a], done[a])

\* What model_to_raw makes of a message type has values the runtime takes, of
\* the attributes that are not None.
LEMMA Converted ==
  ASSUME NEW m, m.tag \in Message, NEW done, DictToProto(m, done) # Raise
  PROVE  LET p == DictToProto(m, done)
             c == m.tag
         IN
         /\ c \in Protos
         /\ p = Node(c, 0, [f \in DOMAIN p.items |-> p.items[f]])
         /\ \A a \in DOMAIN m.items : FieldOf(c, a, m.items[a]) \in DOMAIN Field[c]
         /\ \A f \in DOMAIN p.items :
              /\ f \in DOMAIN Field[c]
              /\ \E a \in DOMAIN m.items :
                   /\ FieldOf(c, a, m.items[a]) = f
                   /\ Fits(Field[c][f], ValueFor(m, done, a))
                   /\ p.items[f] = Stored(Field[c][f], ValueFor(m, done, a))
         /\ \A f \in DOMAIN Field[c] \ DOMAIN p.items, a \in DOMAIN m.items :
              FieldOf(c, a, m.items[a]) = f =>
                \E b \in DOMAIN m.items :
                  FieldOf(c, b, m.items[b]) = f /\ ValueFor(m, done, b).tag = "none"
<1> DEFINE c == m.tag
           field == [a \in DOMAIN m.items |-> FieldOf(c, a, m.items[a])]
           Attribute(f) == CHOOSE a \in DOMAIN field : field[a] = f
           names == {field[a] : a \in DOMAIN field}
           args == [f \in names |-> FieldValue(Field[c][f], Attribute(f), m.items[Attribute(f)],
                                               done[Attribute(f)])]
           set == {f \in DOMAIN args : args[f].tag # "none"}
           p == DictToProto(m, done)
<1>1. /\ c \in Protos
      /\ \A a \in DOMAIN field : field[a] \in DOMAIN Field[c]
      /\ p = Construct(c, args)
  BY DEF DictToProto
<1>2. /\ DOMAIN field = DOMAIN m.items
      /\ \A a \in DOMAIN m.items : field[a] = FieldOf(c, a, m.items[a])
  OBVIOUS
<1>3. ASSUME NEW f \in names
      PROVE  /\ f \in DOMAIN Field[c]
             /\ Attribute(f) \in DOMAIN m.items
             /\ FieldOf(c, Attribute(f), m.items[Attribute(f)]) = f
             /\ args[f] = ValueFor(m, done, Attribute(f))
  <2>1. Attribute(f) \in DOMAIN field /\ field[Attribute(f)] = f
    OBVIOUS
  <2>2. args[f] = FieldValue(Field[c][f], Attribute(f), m.items[Attribute(f)], done[Attribute(f)])
    <3> HIDE DEF Attribute, names
    <3> QED OBVIOUS
  <2> HIDE DEF Attribute, field, args
  <2> QED BY <2>1, <2>2, <1>1, <1>2 DEF ValueFor
<1>4. DOMAIN args = names
  OBVIOUS
<1> HIDE DEF args, Attribute
<1>5. \A f \in set : Fits(Field[c][f], args[f])
  BY <1>1 DEF Construct
<1>6. p = Node(c, 0, [f \in set |-> Stored(Field[c][f], args[f])])
  BY <1>1 DEF Construct
<1>7. set \subseteq names /\ \A f \in names \ set : args[f].tag = "none"
  BY <1>4
<1> HIDE DEF p, set
<1>8. DOMAIN p.items = set /\ \A f \in set : p.items[f] = Stored(Field[c][f], args[f])
  BY <1>6 DEF Node
<1>9. p = Node(c, 0, [f \in DOMAIN p.items |-> p.items[f]])
  <2>1. [f \in DOMAIN p.items |-> p.items[f]] = [f \in set |-> Stored(Field[c][f], args[f])]
    BY <1>8
  <2> QED BY <2>1, <1>6
<1>10. ASSUME NEW f \in DOMAIN p.items
       PROVE  /\ f \in DOMAIN Field[c]
              /\ \E a \in DOMAIN m.items :
                   /\ FieldOf(c, a, m.items[a]) = f
                   /\ Fits(Field[c][f], ValueFor(m, done, a))
                   /\ p.items[f] = Stored(Field[c][f], ValueFor(m, done, a))
  <2>1. f \in set /\ f \in names
    BY <1>7, <1>8
  <2> HIDE DEF names, field, c
  <2> QED BY <2>1, <1>3, <1>5, <1>8
<1>11. ASSUME NEW f \in DOMAIN Field[c] \ DOMAIN p.items, NEW a \in DOMAIN m.items,
              FieldOf(c, a, m.items[a]) = f
       PROVE  \E b \in DOMAIN m.items :
                FieldOf(c, b, m.items[b]) = f /\ ValueFor(m, done, b).tag = "none"
  <2>1. f \in names
    BY <1>2, <1>11
  <2> HIDE DEF names, field, c
  <2> QED BY <2>1, <1>3, <1>7, <1>8
<1>12. \A a \in DOMAIN m.items : FieldOf(c, a, m.items[a]) \in DOMAIN Field[c]
  BY <1>1, <1>2
<1> HIDE DEF c
<1>13. c \in Protos
  BY <1>1
<1>14. \A f \in DOMAIN p.items :
         /\ f \in DOMAIN Field[c]
         /\ \E a \in DOMAIN m.items :
              /\ FieldOf(c, a, m.items[a]) = f
              /\ Fits(Field[c][f], ValueFor(m, done, a))
              /\ p.items[f] = Stored(Field[c][f], ValueFor(m, done, a))
  BY <1>10
<1>15. \A f \in DOMAIN Field[c] \ DOMAIN p.items, a \in DOMAIN m.items :
         FieldOf(c, a, m.items[a]) = f =>
           \E b \in DOMAIN m.items :
             FieldOf(c, b, m.items[b]) = f /\ ValueFor(m, done, b).tag = "none"
  BY <1>11
<1> HIDE DEF field
<1> QED BY <1>9, <1>12, <1>13, <1>14, <1>15, Zenon DEF c, p

\* When each attribute is for a field of its own, and its value fits, the
\* message has them all.
LEMMA ConvertedAll ==
  ASSUME NEW m, m.tag \in Protos, m.tag \in Message, NEW done,
         \A a \in DOMAIN m.items :
           LET f == FieldOf(m.tag, a, m.items[a]) IN
           /\ f \in DOMAIN Field[m.tag]
           /\ ValueFor(m, done, a).tag # "none"
           /\ Fits(Field[m.tag][f], ValueFor(m, done, a))
           /\ \A b \in DOMAIN m.items : FieldOf(m.tag, b, m.items[b]) = f => a = b
  PROVE  LET p == DictToProto(m, done)
             c == m.tag
         IN
         /\ p.tag = c
         /\ p.val = 0
         /\ DOMAIN p.items = {FieldOf(c, a, m.items[a]) : a \in DOMAIN m.items}
         /\ \A a \in DOMAIN m.items :
              p.items[FieldOf(c, a, m.items[a])]
                = Stored(Field[c][FieldOf(c, a, m.items[a])], ValueFor(m, done, a))
<1> DEFINE c == m.tag
           field == [a \in DOMAIN m.items |-> FieldOf(c, a, m.items[a])]
           Attribute(f) == CHOOSE a \in DOMAIN field : field[a] = f
           names == {field[a] : a \in DOMAIN field}
           args == [f \in names |-> FieldValue(Field[c][f], Attribute(f), m.items[Attribute(f)],
                                               done[Attribute(f)])]
           set == {f \in DOMAIN args : args[f].tag # "none"}
           p == DictToProto(m, done)
<1>1. /\ DOMAIN field = DOMAIN m.items
      /\ \A a \in DOMAIN m.items : field[a] = FieldOf(c, a, m.items[a])
  OBVIOUS
<1>2. \A a \in DOMAIN m.items :
        /\ field[a] \in DOMAIN Field[c]
        /\ ValueFor(m, done, a).tag # "none"
        /\ Fits(Field[c][field[a]], ValueFor(m, done, a))
        /\ \A b \in DOMAIN m.items : field[b] = field[a] => a = b
  OBVIOUS
<1>3. p = Construct(c, args)
  BY <1>1, <1>2 DEF DictToProto
<1>4. ASSUME NEW a \in DOMAIN m.items
      PROVE  Attribute(field[a]) = a /\ field[a] \in names
             /\ args[field[a]] = ValueFor(m, done, a)
  <2>1. Attribute(field[a]) = a
    <3>1. \A b \in DOMAIN field : field[b] = field[a] <=> b = a
      BY <1>1, <1>2
    <3> HIDE DEF field
    <3>2. Attribute(field[a]) \in DOMAIN field /\ field[Attribute(field[a])] = field[a]
      BY <1>1
    <3> HIDE DEF Attribute
    <3> QED BY <3>1, <3>2
  <2>2. field[a] \in names
    BY <1>1
  <2>3. args[field[a]] = FieldValue(Field[c][field[a]], Attribute(field[a]),
                                    m.items[Attribute(field[a])], done[Attribute(field[a])])
    <3> HIDE DEF Attribute, names
    <3> QED BY <2>2
  <2> HIDE DEF Attribute, args
  <2> QED BY <2>1, <2>2, <2>3, <1>1 DEF ValueFor
<1>5. DOMAIN args = names
  OBVIOUS
<1> HIDE DEF args, Attribute
<1>6. \A f \in names : \E a \in DOMAIN m.items : f = field[a]
  BY <1>1
<1> HIDE DEF names
<1>7. \A f \in names : args[f].tag # "none" /\ Fits(Field[c][f], args[f])
  <2> HIDE DEF field
  <2> QED BY <1>2, <1>4, <1>6
<1>8. set = names
  BY <1>5, <1>7
<1> HIDE DEF set
<1>9. p = Node(c, 0, [f \in names |-> Stored(Field[c][f], args[f])])
  <2>1. Construct(c, args) =
          IF \A f \in set : Fits(Field[c][f], args[f])
          THEN Node(c, 0, [f \in set |-> Stored(Field[c][f], args[f])])
          ELSE Raise
    BY DEF Construct, set
  <2> HIDE DEF c, field, p
  <2> QED BY <2>1, <1>3, <1>7, <1>8
<1> HIDE DEF p
<1>10. /\ p.tag = c /\ p.val = 0 /\ DOMAIN p.items = names
       /\ \A f \in names : p.items[f] = Stored(Field[c][f], args[f])
  <2> HIDE DEF c
  <2> QED BY <1>9 DEF Node
<1>11. names = {FieldOf(c, a, m.items[a]) : a \in DOMAIN m.items}
  BY <1>1 DEF names
<1>12. \A a \in DOMAIN m.items :
         p.items[FieldOf(c, a, m.items[a])]
           = Stored(Field[c][FieldOf(c, a, m.items[a])], ValueFor(m, done, a))
  <2> HIDE DEF field
  <2> QED BY <1>1, <1>4, <1>10
<1> QED BY <1>10, <1>11, <1>12 DEF p

\* What data and messages are like at each of their nodes.
DataNode(u) ==
  /\ u = Node(u.tag, u.val, [k \in DOMAIN u.items |-> u.items[k]])
  /\ u.tag \in Message \cup Collection \cup PyType
  /\ u.tag \in PyType => u.items = <<>>
  /\ u.val \in Int
  /\ u.tag \in {"datetime", "zoned_datetime"} => u.val \in FirstTick..LastTick

MessageNode(u) ==
  /\ DataNode(u)
  /\ u.tag \in Message =>
       /\ DOMAIN u.items \subseteq DOMAIN Field[u.tag]
       /\ \A f \in DOMAIN u.items :
            /\ Fits(Field[u.tag][f], u.items[f])
            /\ Stored(Field[u.tag][f], u.items[f]) = u.items[f]
       /\ OneOfEach(u)

ModelNode(u) == DataNode(u) /\ (u.tag \in Message => OneOfEach(u))

\* Data, messages and models are conditions on each of their nodes.
LEMMA NodeConditions ==
  ASSUME NEW v
  PROVE  /\ IsData(v) <=> \A u \in Nodes(v) : DataNode(u)
         /\ IsMessage(v) <=> \A u \in Nodes(v) : MessageNode(u)
         /\ IsModel(v) <=> \A u \in Nodes(v) : ModelNode(u)
<1>1. IsData(v) <=> \A u \in Nodes(v) : DataNode(u)
  BY DEF IsData, DataNode
<1>2. IsMessage(v) <=> \A u \in Nodes(v) : MessageNode(u)
  BY <1>1 DEF IsMessage, MessageNode
<1>3. IsModel(v) <=> \A u \in Nodes(v) : ModelNode(u)
  BY <1>1 DEF IsModel, ModelNode
<1> QED BY <1>1, <1>2, <1>3

\* They are so when their top and their items are.
LEMMA NodeByNode ==
  ASSUME NEW v, Shallow(v)
  PROVE  /\ IsData(v) <=> DataNode(v) /\ \A x \in Items(v) : IsData(x)
         /\ IsMessage(v) <=> MessageNode(v) /\ \A x \in Items(v) : IsMessage(x)
         /\ IsModel(v) <=> ModelNode(v) /\ \A x \in Items(v) : IsModel(x)
<1>1. \A y : y \in Nodes(v) <=> y = v \/ \E x \in Items(v) : y \in Nodes(x)
  BY NodesUnfold
<1>2. IsData(v) <=> DataNode(v) /\ \A x \in Items(v) : IsData(x)
  BY <1>1, NodeConditions
<1>3. IsMessage(v) <=> MessageNode(v) /\ \A x \in Items(v) : IsMessage(x)
  BY <1>1, NodeConditions
<1>4. IsModel(v) <=> ModelNode(v) /\ \A x \in Items(v) : IsModel(x)
  BY <1>1, NodeConditions
<1> QED BY <1>2, <1>3, <1>4

\* The numbers of the first two levels.
LEMMA OneLevel ==
  1 <= Depth /\ 0 + 1 = 1 /\ 1 + 1 = 2 /\ 1 \in Nat /\ 2 \in Nat
  /\ 0 \in Nat /\ 0 \in Int /\ 1 \in 1..Depth
BY DepthAssumption

\* A value without items is shallow.
LEMMA BareIsShallow ==
  ASSUME NEW v, Items(v) = {}
  PROVE  \A n \in 1..Depth : Within(n, v)
<1>1. Within(0 + 1, v)
  BY OneLevel, WithinItems
<1>2. Within(1, v)
  BY <1>1, OneLevel
<1>3. ASSUME NEW n \in 1..Depth PROVE Within(n, v)
  <2>1. n \in Nat /\ 1 <= n /\ n <= Depth
    BY DepthType
  <2> QED BY <2>1, <1>2, OneLevel, WithinMore
<1> QED BY <1>3

\* A leaf is a message of no fields.
LEMMA LeafIsMessage ==
  ASSUME NEW tag \in PyType, NEW x \in Int, tag \notin {"datetime", "zoned_datetime"}
  PROVE  /\ IsMessage(Leaf(tag, x))
         /\ Items(Leaf(tag, x)) = {}
         /\ Shallow(Leaf(tag, x))
         /\ \A n \in 1..Depth : Within(n, Leaf(tag, x))
<1> DEFINE v == Leaf(tag, x)
<1>1. v.tag = tag /\ v.val = x /\ v.items = <<>> /\ DOMAIN v.items = {}
  BY DEF Leaf, Node
<1>2. Items(v) = {}
  BY <1>1 DEF Items
<1>3. \A n \in 1..Depth : Within(n, v)
  BY <1>2, BareIsShallow
<1>4. Shallow(v)
  BY <1>3, OneLevel, DepthType DEF Shallow
<1>5. DataNode(v)
  <2>1. [k \in DOMAIN v.items |-> v.items[k]] = <<>>
    BY <1>1
  <2>2. v = Node(v.tag, v.val, <<>>)
    BY <1>1 DEF Leaf
  <2> HIDE DEF v
  <2> QED BY <1>1, <2>1, <2>2 DEF DataNode
<1>6. v.tag \notin Message
  BY <1>1, DescriptorAssumption
<1>7. IsMessage(v)
  <2> HIDE DEF v
  <2> QED BY <1>2, <1>4, <1>5, <1>6, NodeByNode DEF MessageNode
<1> QED BY <1>2, <1>3, <1>4, <1>7

\* A value nests at most n + 1 levels if its items nest n.
LEMMA WithinBy ==
  ASSUME NEW n \in Nat, n + 1 <= Depth, NEW v, \A k \in DOMAIN v.items : Within(n, v.items[k])
  PROVE  Within(n + 1, v) /\ Shallow(v)
<1>1. Within(n + 1, v)
  BY WithinItems DEF Items
<1>2. n + 1 \in Nat
  OBVIOUS
<1> QED BY <1>1, <1>2, WithinMore, DepthType DEF Shallow

\* A datetime becomes a Timestamp message.
LEMMA StampIsMessage ==
  ASSUME NEW v, v.tag \in {"datetime", "zoned_datetime"}, v.val \in Int, 2 \in 1..Depth
  PROVE  LET s == ToTimestamp(v) IN
         /\ s.tag = "Timestamp"
         /\ IsMessage(s)
         /\ Within(2, s)
         /\ Shallow(s)
<1> DEFINE x == Leaf("int", Truncate(v.val))
           y == Leaf("int", v.val % Second)
           s == ToTimestamp(v)
<1>1. Truncate(v.val) \in Int /\ v.val % Second \in Int
  BY SplitInstant
<1>2. "int" \in PyType
  BY DEF PyType
<1>3. IsMessage(x) /\ IsMessage(y) /\ Within(1, x) /\ Within(1, y)
  <2>1. \A z \in Int : IsMessage(Leaf("int", z)) /\ Within(1, Leaf("int", z))
    BY <1>2, LeafIsMessage, OneLevel
  <2> QED BY <1>1, <2>1
<1>4. x.tag = "int" /\ y.tag = "int" /\ x = Leaf("int", x.val) /\ y = Leaf("int", y.val)
  BY DEF Leaf, Node
<1>5. s = Node("Timestamp", 0, [seconds |-> x, nanos |-> y])
  BY DEF ToTimestamp
<1> HIDE DEF x, y, s
<1>6. /\ s.tag = "Timestamp" /\ s.val = 0 /\ s.items = [seconds |-> x, nanos |-> y]
      /\ DOMAIN s.items = {"seconds", "nanos"}
      /\ s.items["seconds"] = x /\ s.items["nanos"] = y
  BY <1>5 DEF Node
<1>7. Within(2, s) /\ Shallow(s)
  <2>1. \A k \in DOMAIN s.items : Within(1, s.items[k])
    BY <1>3, <1>6
  <2>2. 1 + 1 <= Depth
    BY DepthType
  <2> QED BY <2>1, <2>2, OneLevel, WithinBy
<1>8. DataNode(s)
  <2>1. [k \in DOMAIN s.items |-> s.items[k]] = s.items
    BY <1>6
  <2>2. "Timestamp" \in Message /\ "Timestamp" \notin PyType
    BY DescriptorAssumption
  <2>3. s = Node(s.tag, s.val, s.items)
    BY <1>5, <1>6
  <2>4. s = Node(s.tag, s.val, [k \in DOMAIN s.items |-> s.items[k]])
    BY <2>1, <2>3
  <2>5. s.tag = "Timestamp" /\ s.val = 0 /\ 0 \in Int
    BY <1>6, OneLevel
  <2>6. "Timestamp" \notin {"datetime", "zoned_datetime"}
    OBVIOUS
  <2> QED BY <2>2, <2>4, <2>5, <2>6, Zenon DEF DataNode
<1>9. /\ DOMAIN Field["Timestamp"] = {"seconds", "nanos"}
      /\ \A f \in {"seconds", "nanos"} :
           /\ Field["Timestamp"][f].type = "int64"
           /\ Field["Timestamp"][f].label = "singular"
           /\ Field["Timestamp"][f].oneof = NoOneof
  <2> DEFINE int64 == [type |-> "int64", message |-> "none", label |-> "singular", oneof |-> NoOneof]
  <2>1. int64.type = "int64" /\ int64.label = "singular" /\ int64.oneof = NoOneof
    OBVIOUS
  <2>2. /\ DOMAIN Field["Timestamp"] = {"seconds", "nanos"}
        /\ \A f \in {"seconds", "nanos"} : Field["Timestamp"][f] = int64
    BY DescriptorAssumption
  <2> HIDE DEF int64
  <2> QED BY <2>1, <2>2
<1>10. ASSUME NEW f \in DOMAIN s.items
       PROVE  Fits(Field[s.tag][f], s.items[f]) /\ Stored(Field[s.tag][f], s.items[f]) = s.items[f]
  <2>1. s.items[f].tag = "int" /\ s.items[f] = Leaf("int", s.items[f].val)
    BY <1>4, <1>6
  <2>2. Fits(Field[s.tag][f], s.items[f])
    BY <2>1, <1>6, <1>9 DEF Fits, Accepts, Instance
  <2>3. Stored(Field[s.tag][f], s.items[f]) = Leaf("int", s.items[f].val)
    BY <1>6, <1>9 DEF Stored, PyTag, Kept
  <2> QED BY <2>1, <2>2, <2>3
<1>11. OneOfEach(s)
  BY <1>6, <1>9 DEF OneOfEach, Choice
<1>12. MessageNode(s)
  BY <1>6, <1>8, <1>9, <1>10, <1>11 DEF MessageNode
<1>13. \A z \in Items(s) : IsMessage(z)
  BY <1>3, <1>6 DEF Items
<1>14. IsMessage(s)
  BY <1>7, <1>12, <1>13, NodeByNode
<1> QED BY <1>6, <1>7, <1>14 DEF s

\* Python's type of a scalar field.
LEMMA ScalarPyTag ==
  ASSUME NEW type \in ScalarType
  PROVE  PyTag(type) \in {"int", "bool", "float", "str", "bytes"} /\ PyTag(type) \in PyType
BY DEF ScalarType, PyTag, PyType

\* What the runtime keeps of values it takes for a scalar field, it takes again
\* and keeps as it is.
LEMMA StoredScalar ==
  ASSUME NEW field, field.type \in ScalarType, field.label \in {"singular", "repeated", "map"},
         NEW v, IsData(v), Shallow(v), Fits(field, v),
         NEW n \in Nat, Within(n, v), 2 \in 1..Depth
  PROVE  LET w == Stored(field, v) IN
         /\ Fits(field, w)
         /\ Stored(field, w) = w
         /\ w.tag \notin Message
         /\ IsMessage(w)
         /\ Within(2, w)
         /\ Shallow(w)
<1> DEFINE L(x) == Leaf(PyTag(field.type), Kept(field.type, x.val))
           w == Stored(field, v)
<1>1. /\ field.type # "message" /\ PyTag(field.type) \in PyType
      /\ PyTag(field.type) \notin {"datetime", "zoned_datetime"}
  BY ScalarPyTag DEF ScalarType
<1>2. \A x : Accepts(field, L(x)) /\ L(x).tag = PyTag(field.type)
  BY DEF ScalarType, PyTag, Accepts, Instance, Leaf, Node
<1>3. DataNode(v) /\ \A x \in Items(v) : IsData(x) /\ Shallow(x)
  BY NodeByNode, NodesUnfold
<1>4. ASSUME NEW x, IsData(x), Shallow(x)
      PROVE  /\ IsMessage(L(x)) /\ Within(1, L(x)) /\ Within(2, L(x)) /\ Shallow(L(x))
             /\ L(L(x)) = L(x)
  <2>1. x.val \in Int
    BY <1>4, NodeByNode DEF DataNode
  <2>2. 1 \in 1..Depth /\ 2 \in 1..Depth
    BY DepthType
  <2>3. /\ Kept(field.type, x.val) \in Int
        /\ Kept(field.type, Kept(field.type, x.val)) = Kept(field.type, x.val)
    BY <2>1, KeptIs
  <2>4. L(x).val = Kept(field.type, x.val)
    BY DEF Leaf, Node
  <2>5. L(L(x)) = L(x)
    BY <2>3, <2>4
  <2> QED BY <2>2, <2>3, <2>5, <1>1, LeafIsMessage
<1>5. CASE field.label = "singular"
  <2>1. w = L(v)
    BY <1>1, <1>5 DEF Stored
  <2> HIDE DEF w
  <2>2. Stored(field, w) = w
    <3>1. L(w) = w
      BY <1>4, <2>1
    <3> QED BY <1>1, <1>5, <3>1 DEF Stored
  <2>3. Fits(field, w)
    BY <1>2, <1>5, <2>1 DEF Fits
  <2>4. w.tag \notin Message
    BY <1>1, <1>2, <2>1, DescriptorAssumption
  <2> QED BY <1>4, <2>1, <2>2, <2>3, <2>4 DEF w
<1>6. CASE field.label # "singular"
  <2>1. w = [v EXCEPT !.items = [k \in DOMAIN v.items |-> L(v.items[k])]]
    BY <1>1, <1>6 DEF Stored
  <2>2. v = [tag |-> v.tag, val |-> v.val, items |-> [k \in DOMAIN v.items |-> v.items[k]]]
    BY <1>3 DEF DataNode, Node
  <2>3. /\ w = Node(v.tag, v.val, [k \in DOMAIN v.items |-> L(v.items[k])])
        /\ w.tag = v.tag /\ w.val = v.val /\ DOMAIN w.items = DOMAIN v.items
        /\ \A k \in DOMAIN v.items : w.items[k] = L(v.items[k])
    <3> HIDE DEF L, w
    <3> QED BY <2>1, <2>2 DEF Node
  <2> HIDE DEF w
  <2>4. v.tag \in Collection
    BY <1>6 DEF Fits, Collection
  <2>5. Fits(field, w)
    BY <1>2, <1>6, <2>3 DEF Fits
  <2>6. \A k \in DOMAIN v.items : L(w.items[k]) = w.items[k]
    <3> HIDE DEF L
    <3> QED BY <1>3, <1>4, <2>3 DEF Items
  <2>7. Stored(field, w) = w
    <3>1. Stored(field, w) = [w EXCEPT !.items = [k \in DOMAIN w.items |-> L(w.items[k])]]
      BY <1>1, <1>6 DEF Stored
    <3>2. [k \in DOMAIN w.items |-> L(w.items[k])] = [k \in DOMAIN v.items |-> L(v.items[k])]
      BY <2>3, <2>6
    <3> HIDE DEF L
    <3> QED BY <3>1, <3>2, <2>3 DEF Node
  <2>8. w.tag \notin Message
    BY <2>3, <2>4, MessageTags
  <2>9. \A k \in DOMAIN v.items : IsMessage(w.items[k]) /\ Within(1, w.items[k])
    BY <1>3, <1>4, <2>3 DEF Items
  <2>10. Within(2, w) /\ Shallow(w)
    <3> QED BY <2>3, <2>9, OneLevel, WithinBy
  <2>11. DataNode(w)
    <3>1. [k \in DOMAIN w.items |-> w.items[k]] = [k \in DOMAIN v.items |-> L(v.items[k])]
      BY <2>3
    <3>2. w.tag \notin PyType
      BY <2>3, <2>4 DEF Collection, PyType
    <3> HIDE DEF L
    <3> QED BY <1>3, <2>3, <2>4, <3>1, <3>2, DateTags DEF DataNode
  <2>12. \A z \in Items(w) : IsMessage(z)
    BY <2>3, <2>9 DEF Items
  <2>13. IsMessage(w)
    BY <2>8, <2>10, <2>11, <2>12, NodeByNode DEF MessageNode
  <2> QED BY <2>5, <2>7, <2>8, <2>10, <2>13 DEF w
<1> QED BY <1>5, <1>6

\* The runtime takes no exception.
LEMMA RaiseDoesNotFit ==
  ASSUME NEW c \in Message, NEW f \in DOMAIN Field[c]
  PROVE  ~Fits(Field[c][f], Raise)
<1>1. Raise.tag = "exception"
  BY DEF Raise, Leaf, Node
<1>2. "exception" \notin Message
  BY DescriptorAssumption DEF PyType
<1> HIDE DEF Raise
<1>3. CASE Field[c][f].label = "singular"
  <2>1. ~Accepts(Field[c][f], Raise)
    BY <1>1, <1>2, FieldType DEF Accepts, Instance, ScalarType
  <2> QED BY <2>1, <1>3 DEF Fits
<1>4. CASE Field[c][f].label # "singular"
  BY <1>1, <1>4 DEF Fits
<1> QED BY <1>3, <1>4

\* Messages and models are data.
LEMMA MessageIsData == \A v : (IsMessage(v) => IsData(v)) /\ (IsModel(v) => IsData(v))
BY DEF IsMessage, IsModel

\* An exception is a leaf of its own tag.
LEMMA RaiseShape == Raise.tag = "exception" /\ Raise.val = 0 /\ Raise.items = <<>>
BY DEF Raise, Leaf, Node

\* What a field keeps of a value of a model.
LEMMA FieldIsMessage ==
  ASSUME NEW n \in Nat, n + 1 <= Depth, NEW c \in Message, NEW f \in DOMAIN Field[c]
  PROVE  \A a, v, message :
           /\ IsModel(v) /\ Within(n, v)
           /\ message # Raise => IsMessage(message) /\ Within(n + 1, message)
           /\ Fits(Field[c][f], FieldValue(Field[c][f], a, v, message))
           => LET s == Stored(Field[c][f], FieldValue(Field[c][f], a, v, message)) IN
              /\ Fits(Field[c][f], s)
              /\ Stored(Field[c][f], s) = s
              /\ IsMessage(s)
              /\ Within(n + 1, s)
<1> SUFFICES ASSUME NEW a, NEW v, IsModel(v), Within(n, v),
                    NEW message, message # Raise => IsMessage(message) /\ Within(n + 1, message),
                    Fits(Field[c][f], FieldValue(Field[c][f], a, v, message))
             PROVE  LET s == Stored(Field[c][f], FieldValue(Field[c][f], a, v, message)) IN
                    /\ Fits(Field[c][f], s)
                    /\ Stored(Field[c][f], s) = s
                    /\ IsMessage(s)
                    /\ Within(n + 1, s)
  OBVIOUS
<1> DEFINE field == Field[c][f]
           w == FieldValue(field, a, v, message)
           s == Stored(field, w)
<1>1. n # 0 /\ 2 \in 1..Depth /\ n + 1 \in Nat /\ 2 <= n + 1 /\ n <= Depth /\ n + 1 \in 1..Depth /\ 2 \in Nat
  BY WithinSome, DepthType
<1>2. Shallow(v) /\ IsData(v) /\ v.val \in Int
  <2>1. Shallow(v)
    BY <1>1, WithinMore, DepthType DEF Shallow
  <2>2. IsData(v)
    BY MessageIsData
  <2>3. v.val \in Int
    BY <2>1, <2>2, NodeByNode DEF DataNode
  <2> QED BY <2>1, <2>2, <2>3
<1>3. CASE field.type # "message"
  <2>1. field.type \in ScalarType /\ field.message = "none" /\ field.label \in {"singular", "repeated", "map"}
    BY <1>3, FieldType
  <2>2. w = v \/ w = Leaf("int", v.val)
    <3> HIDE DEF field
    <3> QED BY <1>3, <2>1 DEF FieldValue
  <2>3. IsData(w) /\ Shallow(w)
    <3>1. "int" \in PyType
      BY DEF PyType
    <3>2. IsMessage(Leaf("int", v.val)) /\ Shallow(Leaf("int", v.val))
      BY <1>2, <3>1, LeafIsMessage
    <3> HIDE DEF w
    <3> QED BY <1>2, <2>2, <3>2, MessageIsData
  <2>4. Fits(field, w)
    OBVIOUS
  <2> HIDE DEF w, field
  <2>5. Fits(field, s) /\ Stored(field, s) = s /\ IsMessage(s) /\ Within(2, s)
    BY <1>1, <2>1, <2>3, <2>4, DepthType, StoredScalar DEF Shallow
  <2>6. Within(n + 1, s)
    <3> HIDE DEF s
    <3> QED BY <1>1, <2>5, WithinMore
  <2> QED BY <2>5, <2>6 DEF field, w
<1>4. CASE field.type = "message"
  <2>1. s = w /\ Stored(field, s) = s
    BY <1>4 DEF Stored
  <2>2. Fits(field, s)
    BY <2>1
  <2>3. w # Raise
    BY <2>1, <2>2, RaiseDoesNotFit
  <2>4. w = message \/ (w = ToTimestamp(v) /\ v.tag \in {"datetime", "zoned_datetime"})
    <3>1. w \in {message, Raise, ToTimestamp(v)}
      <4> HIDE DEF field
      <4> QED BY <1>4, FieldType DEF FieldValue
    <3>2. v.tag \notin {"datetime", "zoned_datetime"} => ToTimestamp(v) = Raise
      BY DEF ToTimestamp
    <3> HIDE DEF w
    <3> QED BY <2>3, <3>1, <3>2
  <2>5. IsMessage(w) /\ Within(n + 1, w)
    <3>1. CASE w = message
      <4> HIDE DEF w
      <4> QED BY <2>3, <3>1
    <3>2. CASE w = ToTimestamp(v) /\ v.tag \in {"datetime", "zoned_datetime"}
      <4>1. IsMessage(ToTimestamp(v)) /\ Within(2, ToTimestamp(v))
        <5> HIDE DEF w
        <5>1. v.tag \in {"datetime", "zoned_datetime"}
          BY <3>2
        <5>2. 2 \in 1..Depth /\ v.val \in Int
          BY <1>1, <1>2
        <5> QED BY <5>1, <5>2, StampIsMessage
      <4> HIDE DEF w
      <4> QED BY <1>1, <3>2, <4>1, WithinMore
    <3> HIDE DEF w
    <3> QED BY <2>4, <3>1, <3>2
  <2> HIDE DEF w
  <2>6. IsMessage(s) /\ Within(n + 1, s)
    BY <2>1, <2>5
  <2> QED BY <2>1, <2>2, <2>6 DEF w
<1> QED BY <1>3, <1>4

\* model_to_raw makes one of a model's own nodes a message of its type.
LEMMA NodeBecomesMessage ==
  ASSUME NEW n \in Nat, (n + 1) + 1 <= Depth, NEW u, u.tag \in Message, ModelNode(u),
         \A x \in Items(u) : IsModel(x) /\ Within(n, x),
         NEW done,
         \A k \in DOMAIN u.items :
           done[k] # Raise => IsMessage(done[k]) /\ Within(n + 1, done[k]),
         DictToProto(u, done) # Raise
  PROVE  IsMessage(DictToProto(u, done)) /\ Within((n + 1) + 1, DictToProto(u, done))
<1> DEFINE p == DictToProto(u, done)
           c == u.tag
<1>1. /\ p = Node(c, 0, [f \in DOMAIN p.items |-> p.items[f]])
      /\ \A f \in DOMAIN p.items :
           /\ f \in DOMAIN Field[c]
           /\ \E a \in DOMAIN u.items :
                /\ FieldOf(c, a, u.items[a]) = f
                /\ Fits(Field[c][f], ValueFor(u, done, a))
                /\ p.items[f] = Stored(Field[c][f], ValueFor(u, done, a))
  BY Converted
<1> HIDE DEF p
<1>2. n + 1 <= Depth /\ n + 1 \in Nat
  BY DepthType
<1>3. ASSUME NEW f \in DOMAIN p.items
      PROVE  /\ Fits(Field[c][f], p.items[f])
             /\ Stored(Field[c][f], p.items[f]) = p.items[f]
             /\ IsMessage(p.items[f])
             /\ Within(n + 1, p.items[f])
  <2>1. PICK a \in DOMAIN u.items :
          /\ FieldOf(c, a, u.items[a]) = f
          /\ Fits(Field[c][f], ValueFor(u, done, a))
          /\ p.items[f] = Stored(Field[c][f], ValueFor(u, done, a))
    BY <1>1
  <2>2. u.items[a] \in Items(u)
    BY DEF Items
  <2>3. IsModel(u.items[a]) /\ Within(n, u.items[a])
    BY <2>2
  <2>4. ValueFor(u, done, a) = FieldValue(Field[c][f], a, u.items[a], done[a])
    BY <2>1 DEF ValueFor
  <2>5. f \in DOMAIN Field[c]
    BY <1>1
  <2>6. Fits(Field[c][f], FieldValue(Field[c][f], a, u.items[a], done[a]))
    BY <2>1, <2>4
  <2>7. p.items[f] = Stored(Field[c][f], FieldValue(Field[c][f], a, u.items[a], done[a]))
    BY <2>1, <2>4
  <2>8. done[a] # Raise => IsMessage(done[a]) /\ Within(n + 1, done[a])
    OBVIOUS
  <2> DEFINE x == FieldValue(Field[c][f], a, u.items[a], done[a])
             s == Stored(Field[c][f], x)
  <2>9. Fits(Field[c][f], s) /\ Stored(Field[c][f], s) = s /\ IsMessage(s) /\ Within(n + 1, s)
    <3>1. c \in Message
      OBVIOUS
    <3>2. n + 1 <= Depth
      BY <1>2
    <3> HIDE DEF c
    <3>3. \A b, v, message :
           /\ IsModel(v) /\ Within(n, v)
           /\ message # Raise => IsMessage(message) /\ Within(n + 1, message)
           /\ Fits(Field[c][f], FieldValue(Field[c][f], b, v, message))
           => LET r == Stored(Field[c][f], FieldValue(Field[c][f], b, v, message)) IN
              Fits(Field[c][f], r) /\ Stored(Field[c][f], r) = r /\ IsMessage(r) /\ Within(n + 1, r)
      BY <3>1, <3>2, <2>5, FieldIsMessage
    <3> QED BY <3>3, <2>3, <2>6, <2>8
  <2>10. p.items[f] = s
    BY <2>7
  <2> HIDE DEF x, s, c
  <2> QED BY <2>9, <2>10
<1>4. p.tag = c /\ p.val = 0
  BY <1>1 DEF Node
<1>5. DataNode(p)
  <2>1. c \notin PyType
    BY MessageTags
  <2>2. p = Node(p.tag, p.val, [f \in DOMAIN p.items |-> p.items[f]])
    BY <1>1, <1>4
  <2>3. p.val \in Int
    BY <1>4, OneLevel
  <2> QED BY <1>4, <2>1, <2>2, <2>3, DateTags, Zenon DEF DataNode
<1>6. OneOfEach(p)
  <2> SUFFICES ASSUME NEW f \in DOMAIN p.items, NEW g \in DOMAIN p.items,
                      Choice(c, f) = Choice(c, g), Choice(c, f) # NoOneof
               PROVE  f = g
    BY <1>4 DEF OneOfEach
  <2>1. f \in DOMAIN Field[c] /\ g \in DOMAIN Field[c]
    BY <1>1
  <2>2. PICK a \in DOMAIN u.items : FieldOf(c, a, u.items[a]) = f
    BY <1>1
  <2>3. PICK b \in DOMAIN u.items : FieldOf(c, b, u.items[b]) = g
    BY <1>1
  <2>4. Choice(c, a) = Field[c][f].oneof /\ Choice(c, b) = Field[c][g].oneof
    BY <2>1, <2>2, <2>3, NameIsChoice
  <2>5. Choice(c, f) = Field[c][f].oneof /\ Choice(c, g) = Field[c][g].oneof
    BY <2>1 DEF Choice
  <2>6. OneOfEach(u)
    BY DEF ModelNode
  <2>7. a = b
    BY <2>4, <2>5, <2>6 DEF OneOfEach
  <2> QED BY <2>2, <2>3, <2>7
<1>7. MessageNode(p)
  <2>1. DOMAIN p.items \subseteq DOMAIN Field[c]
    BY <1>1
  <2> QED BY <1>3, <1>4, <1>5, <1>6, <2>1 DEF MessageNode
<1>8. Within((n + 1) + 1, p) /\ Shallow(p)
  BY <1>2, <1>3, WithinBy
<1>9. IsMessage(p)
  BY <1>3, <1>7, <1>8, NodeByNode DEF Items
<1> QED BY <1>8, <1>9 DEF p

\* The list or dictionary of what is made of the items of a node.
LEMMA WholeIs ==
  ASSUME NEW node
  PROVE  /\ Whole(node) \in {node, Raise}
         /\ node # Raise => (Whole(node) = Raise <=> \E k \in DOMAIN node.items : node.items[k] = Raise)
         /\ Whole(node) # Raise => Whole(node) = node /\ \A k \in DOMAIN node.items : node.items[k] # Raise
BY RaiseShape DEF Whole

\* EXCEPT on a node.
LEMMA WithItems ==
  ASSUME NEW u, DataNode(u), NEW done
  PROVE  /\ [u EXCEPT !.items = done] = Node(u.tag, u.val, done)
         /\ Node(u.tag, u.val, done).tag = u.tag
         /\ Node(u.tag, u.val, done).val = u.val
         /\ Node(u.tag, u.val, done).items = done
<1>1. u = [tag |-> u.tag, val |-> u.val, items |-> [k \in DOMAIN u.items |-> u.items[k]]]
  BY DEF DataNode, Node
<1> DEFINE i == [k \in DOMAIN u.items |-> u.items[k]]
<1> HIDE DEF i
<1>2. u = [tag |-> u.tag, val |-> u.val, items |-> i]
  BY <1>1 DEF i
<1>3. [u EXCEPT !.items = done] = [tag |-> u.tag, val |-> u.val, items |-> done]
  BY <1>2
<1> QED BY <1>3 DEF Node

\* What model_to_raw makes of a model is a message, one level deeper at most.
LEMMA ToProtoIsMessage ==
  ASSUME NEW n \in Nat, n + 1 <= Depth, NEW v, IsModel(v), Within(n, v), ToProto(v) # Raise
  PROVE  IsMessage(ToProto(v)) /\ Within(n + 1, ToProto(v)) /\ Shallow(ToProto(v))
<1> DEFINE Good == {i \in Nat : i + 1 <= Depth =>
                      \A u : IsModel(u) /\ Within(i, u) /\ ToProto(u) # Raise
                               => IsMessage(ToProto(u)) /\ Within(i + 1, ToProto(u))}
<1>1. 0 \in Good
  BY WithinSome
<1>2. ASSUME NEW i \in Nat, i \in Good PROVE i + 1 \in Good
  <2>1. ASSUME (i + 1) + 1 <= Depth, NEW u, IsModel(u), Within(i + 1, u), ToProto(u) # Raise
        PROVE  IsMessage(ToProto(u)) /\ Within((i + 1) + 1, ToProto(u))
    <3> DEFINE done == [k \in DOMAIN u.items |-> ToProto(u.items[k])]
    <3>1. i + 1 <= Depth /\ i + 1 \in Nat
      BY <2>1, DepthType
    <3>2. Shallow(u)
      BY <2>1, <3>1, WithinMore, DepthType DEF Shallow
    <3>3. ToProto(u) = ProtoOf(u, done)
      BY <3>2, ToProtoUnfold
    <3>4. \A x \in Items(u) : IsModel(x) /\ Within(i, x)
      BY <2>1, <3>1, <3>2, NodeByNode, WithinItems
    <3>5. ModelNode(u) /\ DataNode(u)
      BY <2>1, <3>2, NodeByNode DEF ModelNode
    <3>6. ASSUME NEW k \in DOMAIN u.items, done[k] # Raise
          PROVE  IsMessage(done[k]) /\ Within(i + 1, done[k])
      <4>1. u.items[k] \in Items(u) /\ done[k] = ToProto(u.items[k])
        BY DEF Items
      <4>2. IsModel(u.items[k]) /\ Within(i, u.items[k]) /\ ToProto(u.items[k]) # Raise
        BY <3>4, <3>6, <4>1
      <4> QED BY <3>1, <4>1, <4>2, <1>2
    <3>7. CASE u.tag \in Collection
      <4> DEFINE w == Node(u.tag, u.val, done)
      <4>1. ToProto(u) = Whole(w)
        BY <3>3, <3>5, <3>7, WithItems DEF ProtoOf
      <4>2. w.tag = u.tag /\ w.val = u.val /\ w.items = done /\ DOMAIN done = DOMAIN u.items
        BY <3>5, WithItems
      <4> HIDE DEF w, done
      <4>3. ToProto(u) = w /\ \A k \in DOMAIN u.items : done[k] # Raise
        BY <2>1, <4>1, <4>2, WholeIs
      <4>4. \A k \in DOMAIN w.items : IsMessage(w.items[k]) /\ Within(i + 1, w.items[k])
        BY <3>6, <4>2, <4>3
      <4>5. Within((i + 1) + 1, w) /\ Shallow(w)
        BY <2>1, <3>1, <4>4, WithinBy
      <4>6. DataNode(w)
        <5>1. w.tag \notin PyType /\ w.tag \notin Message
          BY <3>7, <4>2, MessageTags DEF Collection, PyType
        <5>2. done = [k \in DOMAIN u.items |-> done[k]]
          BY DEF done
        <5>3. w = Node(w.tag, w.val, [k \in DOMAIN w.items |-> w.items[k]])
          BY <4>2, <5>2 DEF w
        <5>4. w.val \in Int
          BY <3>5, <4>2 DEF DataNode
        <5> QED BY <3>7, <4>2, <5>1, <5>3, <5>4, DateTags DEF DataNode
      <4>7. w.tag \notin Message
        BY <3>7, <4>2, MessageTags
      <4>8. IsMessage(w)
        BY <4>4, <4>5, <4>6, <4>7, NodeByNode DEF Items, MessageNode
      <4> QED BY <4>3, <4>5, <4>8
    <3>8. CASE u.tag \notin Collection
      <4>1. ToProto(u) = DictToProto(u, done)
        BY <3>3, <3>8 DEF ProtoOf
      <4>2. u.tag \in Message
        <5>1. u.tag \in Protos
          BY <2>1, <4>1 DEF DictToProto
        <5> QED BY <5>1, DescriptorAssumption
      <4> HIDE DEF done
      <4> QED BY <2>1, <3>4, <3>5, <3>6, <4>1, <4>2, NodeBecomesMessage
    <3> QED BY <3>7, <3>8
  <2> QED BY <2>1
<1>3. Nat \subseteq Good
  <2> HIDE DEF Good
  <2> QED BY <1>1, <1>2, Induction
<1>4. IsMessage(ToProto(v)) /\ Within(n + 1, ToProto(v))
  BY <1>3
<1>5. n + 1 \in Nat
  OBVIOUS
<1> QED BY <1>4, <1>5, WithinMore, DepthType DEF Shallow

\* The fields raw_to_model reads of a message, their keys and their values.
IsRead(m, f) ==
  f \in DOMAIN Field[m.tag] /\ (HasPresence(Field[m.tag][f]) => f \in DOMAIN m.items)

KeyOf(c, f) == IF Field[c][f].oneof = NoOneof THEN f ELSE Field[c][f].oneof

ValueOf(m, done, f) ==
  IF f \in DOMAIN m.items
  THEN ReadValue(Field[m.tag][f], m.items[f], done[f])
  ELSE Default(Field[m.tag][f])

\* No two of them have one key: one field of a oneof at most is set.
LEMMA ReadKeys ==
  ASSUME NEW m, m.tag \in Message, OneOfEach(m),
         NEW f, IsRead(m, f), NEW g, IsRead(m, g), KeyOf(m.tag, f) = KeyOf(m.tag, g)
  PROVE  f = g
<1> DEFINE c == m.tag
<1>1. f \in DOMAIN Field[c] /\ g \in DOMAIN Field[c]
  BY DEF IsRead
<1>2. Field[c][f].oneof \notin DOMAIN Field[c] /\ Field[c][g].oneof \notin DOMAIN Field[c]
  BY <1>1, FieldType
<1>3. CASE Field[c][f].oneof = NoOneof \/ Field[c][g].oneof = NoOneof
  BY <1>1, <1>2, <1>3 DEF KeyOf
<1>4. CASE Field[c][f].oneof # NoOneof /\ Field[c][g].oneof # NoOneof
  <2>1. Field[c][f].oneof = Field[c][g].oneof
    BY <1>4 DEF KeyOf
  <2>2. Field[c][f].label = "singular" /\ Field[c][g].label = "singular"
    BY <1>1, <1>4, FieldType
  <2>3. f \in DOMAIN m.items /\ g \in DOMAIN m.items
    BY <1>4, <2>2 DEF IsRead, HasPresence
  <2>4. Choice(c, f) = Field[c][f].oneof /\ Choice(c, g) = Field[c][g].oneof
    BY <1>1 DEF Choice
  <2> QED BY <1>4, <2>1, <2>3, <2>4 DEF OneOfEach
<1> QED BY <1>3, <1>4

\* The dictionary has the value of each field that is read.
LEMMA ReadDict ==
  ASSUME NEW m, m.tag \in Message, OneOfEach(m), NEW done
  PROVE  LET d == ProtoToDict(m, done) IN
         /\ d = Raise <=> \E f : IsRead(m, f) /\ ValueOf(m, done, f) = Raise
         /\ d # Raise =>
              /\ d = Node("dict", 0, [k \in DOMAIN d.items |-> d.items[k]])
              /\ \A k : k \in DOMAIN d.items <=> \E f : IsRead(m, f) /\ k = KeyOf(m.tag, f)
              /\ \A f : IsRead(m, f) => d.items[KeyOf(m.tag, f)] = ValueOf(m, done, f)
<1> DEFINE fields == Field[m.tag]
           read == {f \in DOMAIN fields : HasPresence(fields[f]) => f \in DOMAIN m.items}
           Key(f) == IF fields[f].oneof = NoOneof THEN f ELSE fields[f].oneof
           Value(f) == IF f \in DOMAIN m.items
                       THEN ReadValue(fields[f], m.items[f], done[f])
                       ELSE Default(fields[f])
           items == [k \in {Key(f) : f \in read} |-> Value(CHOOSE f \in read : Key(f) = k)]
           node == Node("dict", 0, items)
           d == ProtoToDict(m, done)
<1>1. d = Whole(node)
  BY DEF ProtoToDict
<1>2. \A f : f \in read <=> IsRead(m, f)
  BY DEF IsRead
<1>3. \A f : Key(f) = KeyOf(m.tag, f) /\ Value(f) = ValueOf(m, done, f)
  BY DEF KeyOf, ValueOf
<1> HIDE DEF d, Value, Key, read, fields
<1>4. \A k : k \in DOMAIN items <=> \E f : IsRead(m, f) /\ k = KeyOf(m.tag, f)
  BY <1>2, <1>3
<1>5. ASSUME NEW f, IsRead(m, f) PROVE items[KeyOf(m.tag, f)] = ValueOf(m, done, f)
  <2>1. f \in read /\ Key(f) = KeyOf(m.tag, f)
    BY <1>2, <1>3, <1>5
  <2>2. \A g \in read : Key(g) = Key(f) => g = f
    BY <1>2, <1>3, <1>5, ReadKeys
  <2>3. (CHOOSE g \in read : Key(g) = Key(f)) = f
    BY <2>1, <2>2
  <2>4. items[Key(f)] = Value(CHOOSE g \in read : Key(g) = Key(f))
    BY <2>1
  <2> HIDE DEF items
  <2> QED BY <2>1, <2>3, <2>4, <1>3
<1>6. items = [k \in DOMAIN items |-> items[k]]
  OBVIOUS
<1> HIDE DEF items
<1>7. node.tag = "dict" /\ node.items = items /\ node # Raise
  BY RaiseShape DEF Node
<1>8. node = Node("dict", 0, [k \in DOMAIN node.items |-> node.items[k]])
  <2>1. [k \in DOMAIN node.items |-> node.items[k]] = items
    BY <1>6, <1>7
  <2> QED BY <2>1
<1> HIDE DEF node
<1>9. d = Raise <=> \E k \in DOMAIN items : items[k] = Raise
  BY <1>1, <1>7, WholeIs
<1>10. d # Raise => d = node
  BY <1>1, WholeIs
<1>11. d = Raise <=> \E f : IsRead(m, f) /\ ValueOf(m, done, f) = Raise
  BY <1>4, <1>5, <1>9
<1>12. d # Raise =>
         /\ d = Node("dict", 0, [k \in DOMAIN d.items |-> d.items[k]])
         /\ \A k : k \in DOMAIN d.items <=> \E f : IsRead(m, f) /\ k = KeyOf(m.tag, f)
         /\ \A f : IsRead(m, f) => d.items[KeyOf(m.tag, f)] = ValueOf(m, done, f)
  BY <1>4, <1>5, <1>7, <1>8, <1>10
<1> QED BY <1>11, <1>12 DEF d

\* What raw_to_model refuses of a field: a map of bytes with an entry, and a
\* Timestamp of no year of a datetime.
Refused(field, v) ==
  \/ field.label = "map" /\ field.type = "bytes" /\ DOMAIN v.items # {}
  \/ IsDatetime(field) /\ Ticks(v) \notin FirstTick..LastTick

UnreadableIn(u) ==
  u.tag \in Message /\ \E f \in DOMAIN u.items : Refused(Field[u.tag][f], u.items[f])

Unreadable(v) == HasBytesMap(v) \/ HasFarTimestamp(v)

\* It is in a value when it is at its node or in an item.
LEMMA UnreadableUnfold ==
  ASSUME NEW v, Shallow(v)
  PROVE  Unreadable(v) <=> UnreadableIn(v) \/ \E x \in Items(v) : Unreadable(x)
<1>1. \A u : Unreadable(u) <=> \E y \in Nodes(u) : UnreadableIn(y)
  BY DEF Unreadable, HasBytesMap, HasFarTimestamp, UnreadableIn, Refused
<1>2. \A y : y \in Nodes(v) <=> y = v \/ \E x \in Items(v) : y \in Nodes(x)
  BY NodesUnfold
<1> QED BY <1>1, <1>2

\* Scalars and lists and maps of them have none.
LEMMA ScalarsAreReadable ==
  ASSUME NEW v, Shallow(v), v.tag \notin Message,
         \A x \in Items(v) : x.tag \notin Message /\ Items(x) = {}
  PROVE  ~Unreadable(v)
<1>1. ASSUME NEW x \in Items(v) PROVE ~Unreadable(x)
  <2>1. Shallow(x)
    BY NodesUnfold
  <2> QED BY <2>1, UnreadableUnfold DEF UnreadableIn
<1> QED BY <1>1, UnreadableUnfold DEF UnreadableIn

\* What a scalar field holds.
LEMMA ScalarShape ==
  ASSUME NEW field, field.type \in ScalarType, NEW v, DataNode(v), Fits(field, v), Stored(field, v) = v
  PROVE  /\ field.label = "singular" => v = Leaf(PyTag(field.type), v.val) /\ v.tag = PyTag(field.type)
         /\ field.label # "singular" =>
              \A k \in DOMAIN v.items :
                /\ v.items[k] = Leaf(PyTag(field.type), v.items[k].val)
                /\ v.items[k].tag = PyTag(field.type)
<1>1. field.type # "message"
  BY DEF ScalarType
<1>2. \A x, y : x = Leaf(PyTag(field.type), y) => x.tag = PyTag(field.type) /\ x.val = y
  BY DEF Leaf, Node
<1>3. CASE field.label = "singular"
  <2>1. v = Leaf(PyTag(field.type), Kept(field.type, v.val))
    BY <1>1, <1>3 DEF Stored
  <2>2. v.val = Kept(field.type, v.val) /\ v.tag = PyTag(field.type)
    BY <1>2, <2>1
  <2> QED BY <1>3, <2>1, <2>2
<1>4. CASE field.label # "singular"
  <2> DEFINE L(x) == Leaf(PyTag(field.type), Kept(field.type, x.val))
             i == [k \in DOMAIN v.items |-> L(v.items[k])]
  <2>1. v = [v EXCEPT !.items = i]
    BY <1>1, <1>4 DEF Stored
  <2>2. v.items = i
    <3> HIDE DEF i
    <3> QED BY <2>1, WithItems
  <2>3. \A k \in DOMAIN v.items : v.items[k] = L(v.items[k])
    <3>1. \A k \in DOMAIN v.items : i[k] = L(v.items[k])
      OBVIOUS
    <3> HIDE DEF i, L
    <3> QED BY <2>2, <3>1
  <2>4. ASSUME NEW k \in DOMAIN v.items
        PROVE  v.items[k].val = Kept(field.type, v.items[k].val) /\ v.items[k].tag = PyTag(field.type)
    BY <1>2, <2>3
  <2> QED BY <1>4, <2>3, <2>4
<1> QED BY <1>3, <1>4

\* A leaf of a python type has nothing in it and is no message.
LEMMA ScalarItems ==
  ASSUME NEW tag \in PyType, NEW x
  PROVE  Items(Leaf(tag, x)) = {} /\ Leaf(tag, x).tag \notin Message
<1>1. Leaf(tag, x).tag = tag /\ DOMAIN Leaf(tag, x).items = {}
  BY DEF Leaf, Node
<1>2. tag \notin Message
  BY DescriptorAssumption
<1> QED BY <1>1, <1>2 DEF Items

\* What is read of a scalar.
LEMMA ScalarIsRead ==
  ASSUME NEW v, Shallow(v), DataNode(v), v.tag \in PyType
  PROVE  ToDict(v) = PyValue(v)
<1>1. v.tag \notin Message /\ v.tag \notin Collection
  BY DescriptorAssumption DEF Collection, PyType
<1> QED BY <1>1, ToDictUnfold DEF DictOf

\* raw_to_model reads what a field holds, but for what it refuses.
LEMMA FieldCanBeRead ==
  ASSUME NEW c \in Message, NEW f \in DOMAIN Field[c], NEW v, IsMessage(v), Shallow(v),
         Fits(Field[c][f], v), Stored(Field[c][f], v) = v,
         v.tag \in Message \/ (v.tag \in Collection /\ \A x \in Items(v) : x.tag \in Message)
           => (ToDict(v) = Raise <=> Unreadable(v))
  PROVE  ReadValue(Field[c][f], v, ToDict(v)) = Raise
           <=> Refused(Field[c][f], v) \/ Unreadable(v)
<1> DEFINE field == Field[c][f]
<1>1. /\ field.type \in ScalarType \cup {"message"}
      /\ field.type = "message" => field.message \in Message
      /\ field.type # "message" => field.message = "none"
      /\ field.label \in {"singular", "repeated", "map"}
  BY FieldType
<1>2. Fits(field, v) /\ Stored(field, v) = v
  OBVIOUS
<1>3. v # Raise
  BY RaiseDoesNotFit
<1>4. MessageNode(v) /\ DataNode(v) /\ \A x \in Items(v) : IsMessage(x) /\ Shallow(x)
  BY NodeByNode, NodesUnfold DEF MessageNode
<1> HIDE DEF field
<1>5. CASE field.type = "message"
  <2>1. ~(field.type = "bytes")
    BY <1>5
  <2>2. CASE IsDatetime(field)
    <3>1. ReadValue(field, v, ToDict(v)) = Raise <=> Refused(field, v)
      <4>1. ReadValue(field, v, ToDict(v)) = FromTimestamp(v)
        BY <1>5, <2>2 DEF ReadValue
      <4>2. \A t : Leaf("datetime", t) # Raise
        BY RaiseShape DEF Leaf, Node
      <4>3. Refused(field, v) <=> Ticks(v) \notin FirstTick..LastTick
        BY <2>1, <2>2 DEF Refused
      <4> QED BY <4>1, <4>2, <4>3 DEF FromTimestamp
    <3>2. v.tag = "Timestamp" /\ v.tag \in Message
      BY <1>1, <1>2, <1>5, <2>2 DEF Fits, Accepts, IsDatetime
    <3>3. ASSUME NEW k \in DOMAIN v.items
          PROVE  /\ Field[v.tag][k].label = "singular" /\ Field[v.tag][k].message = "none"
                 /\ v.items[k].tag \notin Message /\ Items(v.items[k]) = {}
      <4> DEFINE int64 == [type |-> "int64", message |-> "none", label |-> "singular", oneof |-> NoOneof]
      <4>1. /\ int64.type = "int64" /\ int64.label = "singular" /\ int64.message = "none"
            /\ "int64" \in ScalarType
        BY DEF ScalarType
      <4>2. Field[v.tag][k] = int64
        BY <1>4, <3>2, DescriptorAssumption DEF MessageNode
      <4>3. /\ Field[v.tag][k].type \in ScalarType /\ Field[v.tag][k].label = "singular"
            /\ Field[v.tag][k].message = "none"
        <5> HIDE DEF int64
        <5> QED BY <4>1, <4>2
      <4>4. /\ Fits(Field[v.tag][k], v.items[k])
            /\ Stored(Field[v.tag][k], v.items[k]) = v.items[k]
        BY <1>4, <3>2 DEF MessageNode
      <4>5. DataNode(v.items[k])
        BY <1>4, MessageIsData, NodeByNode DEF Items
      <4>6. v.items[k] = Leaf(PyTag(Field[v.tag][k].type), v.items[k].val)
        BY <4>3, <4>4, <4>5, ScalarShape
      <4> QED BY <4>3, <4>6, ScalarPyTag, ScalarItems
    <3>4. ~UnreadableIn(v)
      BY <3>3 DEF UnreadableIn, Refused, IsDatetime
    <3>5. \A x \in Items(v) : ~Unreadable(x)
      BY <1>4, <3>3, ScalarsAreReadable DEF Items
    <3> QED BY <3>1, <3>4, <3>5, UnreadableUnfold DEF field
  <2>3. CASE ~IsDatetime(field)
    <3>1. ReadValue(field, v, ToDict(v)) = ToDict(v)
      BY <1>5, <2>3 DEF ReadValue
    <3>2. v.tag \in Message \/ (v.tag \in Collection /\ \A x \in Items(v) : x.tag \in Message)
      <4>1. CASE field.label = "singular"
        BY <1>1, <1>2, <1>5, <4>1 DEF Fits, Accepts
      <4>2. CASE field.label # "singular"
        BY <1>1, <1>2, <1>5, <4>2 DEF Fits, Accepts, Items, Collection
      <4> QED BY <4>1, <4>2
    <3>3. ~Refused(field, v)
      BY <2>1, <2>3 DEF Refused
    <3> QED BY <3>1, <3>2, <3>3 DEF field
  <2> QED BY <2>2, <2>3
<1>6. CASE field.type # "message"
  <2>1. field.type \in ScalarType /\ ~IsDatetime(field)
    BY <1>1, <1>6 DEF IsDatetime
  <2>2. PyTag(field.type) \in PyType
    BY <2>1, ScalarPyTag
  <2>3. /\ field.label = "singular" => v = Leaf(PyTag(field.type), v.val) /\ v.tag = PyTag(field.type)
        /\ field.label # "singular" =>
             \A k \in DOMAIN v.items :
               /\ v.items[k] = Leaf(PyTag(field.type), v.items[k].val)
               /\ v.items[k].tag = PyTag(field.type)
    BY <1>2, <1>4, <2>1, ScalarShape
  <2>4. field.label # "singular" => v.tag \in Collection /\ (field.label = "map" => v.tag = "dict")
    BY <1>1, <1>2 DEF Fits, Collection
  <2>5. ~Unreadable(v)
    <3>1. CASE field.label = "singular"
      BY <2>2, <2>3, <3>1, ScalarItems, ScalarsAreReadable
    <3>2. CASE field.label # "singular"
      <4>1. v.tag \notin Message
        BY <2>4, <3>2, MessageTags
      <4>2. \A x \in Items(v) : x.tag \notin Message /\ Items(x) = {}
        <5>1. \A z : LET x == Leaf(PyTag(field.type), z) IN Items(x) = {} /\ x.tag \notin Message
          BY <2>2, ScalarItems
        <5>2. \A k \in DOMAIN v.items : v.items[k] = Leaf(PyTag(field.type), v.items[k].val)
          BY <2>3, <3>2
        <5>3. \A x \in Items(v) : \E z : x = Leaf(PyTag(field.type), z)
          BY <5>2 DEF Items
        <5> QED BY <5>1, <5>3
      <4> QED BY <4>1, <4>2, ScalarsAreReadable
    <3> QED BY <3>1, <3>2
  <2>6. CASE field.label # "map"
    <3>1. ReadValue(field, v, ToDict(v)) = v
      BY <1>6, <2>1, <2>6 DEF ReadValue
    <3> QED BY <1>3, <2>1, <2>5, <2>6, <3>1 DEF field, Refused
  <2>7. CASE field.label = "map"
    <3>1. ReadValue(field, v, ToDict(v)) = ToDict(v)
      BY <2>1, <2>7 DEF ReadValue
    <3> DEFINE done == [k \in DOMAIN v.items |-> ToDict(v.items[k])]
               w == Node(v.tag, v.val, done)
    <3>2. v.tag \in Collection /\ v.tag \notin Message
      BY <2>4, <2>7, MessageTags
    <3>3. ToDict(v) = Whole(w)
      BY <1>4, <3>2, ToDictUnfold, WithItems DEF DictOf
    <3>4. w # Raise /\ w.items = done /\ DOMAIN done = DOMAIN v.items
      <4>1. w.tag = v.tag /\ w.items = done
        BY <1>4, WithItems
      <4>2. v.tag # "exception"
        BY <3>2 DEF Collection
      <4> HIDE DEF w
      <4> QED BY <4>1, <4>2, RaiseShape
    <3>5. ASSUME NEW k \in DOMAIN v.items PROVE done[k] = Raise <=> field.type = "bytes"
      <4>1. v.items[k].tag = PyTag(field.type)
        BY <2>3, <2>7
      <4>2. DataNode(v.items[k]) /\ Shallow(v.items[k])
        BY <1>4, MessageIsData, NodeByNode DEF Items
      <4>3. done[k] = PyValue(v.items[k])
        BY <2>2, <4>1, <4>2, ScalarIsRead
      <4>4. PyTag(field.type) = "bytes" <=> field.type = "bytes"
        BY <2>1 DEF PyTag, ScalarType
      <4>5. PyTag(field.type) \in {"int", "bool", "float", "str", "bytes"}
        BY <2>1, ScalarPyTag
      <4>6. v.items[k] # Raise
        BY <4>1, <4>5, RaiseShape
      <4> HIDE DEF done
      <4> QED BY <4>1, <4>3, <4>4, <4>5, <4>6 DEF PyValue
    <3> HIDE DEF w, done
    <3>6. ToDict(v) = Raise <=> \E k \in DOMAIN v.items : done[k] = Raise
      BY <3>3, <3>4, WholeIs
    <3> QED BY <2>1, <2>5, <2>7, <3>1, <3>5, <3>6 DEF field, Refused
  <2> QED BY <2>6, <2>7
<1> QED BY <1>5, <1>6

\* A field that is read though it is not set has a value.
LEMMA DefaultIsValue ==
  ASSUME NEW m, m.tag \in Message, NEW f, IsRead(m, f), f \notin DOMAIN m.items
  PROVE  Default(Field[m.tag][f]) # Raise
<1> DEFINE field == Field[m.tag][f]
<1> SUFFICES Default(field) # Raise
  OBVIOUS
<1>1. ~HasPresence(field) /\ f \in DOMAIN Field[m.tag]
  BY DEF IsRead
<1>2. /\ field.type \in ScalarType \cup {"message"}
      /\ field.label \in {"singular", "repeated", "map"}
      /\ field.oneof # NoOneof => field.label = "singular"
  BY <1>1, FieldType
<1> HIDE DEF field
<1>3. \A tag, x : Leaf(tag, x).tag = tag
  BY DEF Leaf, Node
<1>4. CASE field.label \in {"map", "repeated"}
  BY <1>3, <1>4, RaiseShape DEF Default
<1>5. CASE field.label = "singular"
  <2>1. field.type \in ScalarType
    BY <1>1, <1>2, <1>5 DEF HasPresence
  <2>2. Default(field) = Leaf(PyTag(field.type), 0)
    BY <1>5 DEF Default
  <2>3. PyTag(field.type) # "exception"
    BY <2>1, ScalarPyTag
  <2> QED BY <1>3, <2>2, <2>3, RaiseShape
<1> QED BY <1>2, <1>4, <1>5

\* Messages, and lists and maps of messages.
Readable(u) ==
  u.tag \in Message \/ (u.tag \in Collection /\ \A x \in Items(u) : x.tag \in Message)

\* raw_to_model reads a message when it can read what is in it.
LEMMA NodeCanBeRead ==
  ASSUME NEW u, u.tag \in Message, IsMessage(u), Shallow(u),
         \A x \in Items(u) : Readable(x) => (ToDict(x) = Raise <=> Unreadable(x))
  PROVE  ToDict(u) = Raise <=> Unreadable(u)
<1> DEFINE done == [k \in DOMAIN u.items |-> ToDict(u.items[k])]
           c == u.tag
           Bad(f) == Refused(Field[c][f], u.items[f]) \/ Unreadable(u.items[f])
<1>1. ToDict(u) = ProtoToDict(u, done)
  BY ToDictUnfold, MessageTags DEF DictOf
<1>2. MessageNode(u) /\ OneOfEach(u) /\ \A x \in Items(u) : IsMessage(x) /\ Shallow(x)
  BY NodeByNode, NodesUnfold DEF MessageNode
<1>3. ToDict(u) = Raise <=> \E f : IsRead(u, f) /\ ValueOf(u, done, f) = Raise
  BY <1>1, <1>2, ReadDict
<1>4. ASSUME NEW f \in DOMAIN u.items PROVE IsRead(u, f) /\ (ValueOf(u, done, f) = Raise <=> Bad(f))
  <2> DEFINE v == u.items[f]
  <2>1. f \in DOMAIN Field[c] /\ Fits(Field[c][f], v) /\ Stored(Field[c][f], v) = v
    BY <1>2 DEF MessageNode
  <2>2. v \in Items(u)
    BY DEF Items
  <2>3. IsMessage(v) /\ Shallow(v) /\ (Readable(v) => (ToDict(v) = Raise <=> Unreadable(v)))
    BY <2>2, <1>2
  <2>4. c \in Message
    OBVIOUS
  <2>5. ReadValue(Field[c][f], v, ToDict(v)) = Raise
          <=> Refused(Field[c][f], v) \/ Unreadable(v)
    <3> HIDE DEF v, c
    <3> QED BY <2>1, <2>3, <2>4, FieldCanBeRead DEF Readable
  <2>6. ValueOf(u, done, f) = ReadValue(Field[c][f], v, ToDict(v))
    BY DEF ValueOf
  <2>7. IsRead(u, f)
    BY <2>1 DEF IsRead
  <2> HIDE DEF done
  <2> QED BY <2>5, <2>6, <2>7
<1>5. ASSUME NEW f, IsRead(u, f), f \notin DOMAIN u.items PROVE ValueOf(u, done, f) # Raise
  BY <1>5, DefaultIsValue DEF ValueOf
<1>6. ToDict(u) = Raise <=> \E f \in DOMAIN u.items : Bad(f)
  <2> HIDE DEF done, Bad
  <2> QED BY <1>3, <1>4, <1>5
<1>7. Unreadable(u) <=> \E f \in DOMAIN u.items : Bad(f)
  BY UnreadableUnfold DEF UnreadableIn, Items
<1> QED BY <1>6, <1>7

\* What raw_to_model makes of a message.
LEMMA CanBeRead ==
  ASSUME NEW v, v.tag \in Message, IsMessage(v), Shallow(v)
  PROVE  ToDict(v) = Raise <=> Unreadable(v)
<1> DEFINE Good == {i \in Nat : i <= Depth =>
                      \A u : IsMessage(u) /\ Within(i, u) /\ Readable(u)
                               => (ToDict(u) = Raise <=> Unreadable(u))}
<1>1. 0 \in Good
  BY WithinSome
<1>2. ASSUME NEW i \in Nat, i \in Good PROVE i + 1 \in Good
  <2>1. ASSUME i + 1 <= Depth, NEW u, IsMessage(u), Within(i + 1, u), Readable(u)
        PROVE  ToDict(u) = Raise <=> Unreadable(u)
    <3>1. i <= Depth /\ i + 1 \in Nat
      BY <2>1, DepthType
    <3>2. Shallow(u)
      BY <2>1, <3>1, WithinMore, DepthType DEF Shallow
    <3>3. DataNode(u) /\ \A x \in Items(u) : IsMessage(x) /\ Within(i, x) /\ Shallow(x)
      BY <2>1, <3>1, <3>2, NodeByNode, WithinItems, NodesUnfold DEF MessageNode
    <3>4. \A x \in Items(u) : Readable(x) => (ToDict(x) = Raise <=> Unreadable(x))
      BY <1>2, <3>1, <3>3
    <3>5. CASE u.tag \in Message
      BY <2>1, <3>2, <3>4, <3>5, NodeCanBeRead
    <3>6. CASE u.tag \in Collection /\ \A x \in Items(u) : x.tag \in Message
      <4> DEFINE done == [k \in DOMAIN u.items |-> ToDict(u.items[k])]
                 w == Node(u.tag, u.val, done)
      <4>1. u.tag \notin Message
        BY <3>6, MessageTags
      <4>2. ToDict(u) = Whole(w)
        BY <3>2, <3>3, <3>6, <4>1, ToDictUnfold, WithItems DEF DictOf
      <4>3. w.tag = u.tag /\ w.items = done /\ DOMAIN done = DOMAIN u.items
        BY <3>3, WithItems
      <4>4. \A k \in DOMAIN u.items : done[k] = ToDict(u.items[k])
        OBVIOUS
      <4> HIDE DEF w, done
      <4>5. w # Raise
        <5>1. u.tag # "exception"
          BY <3>6 DEF Collection
        <5> QED BY <4>3, <5>1, RaiseShape
      <4>6. ToDict(u) = Raise <=> \E k \in DOMAIN u.items : ToDict(u.items[k]) = Raise
        BY <4>2, <4>3, <4>4, <4>5, WholeIs
      <4>7. \A x \in Items(u) : ToDict(x) = Raise <=> Unreadable(x)
        BY <3>4, <3>6 DEF Readable
      <4>8. Unreadable(u) <=> \E x \in Items(u) : Unreadable(x)
        BY <3>2, <4>1, UnreadableUnfold DEF UnreadableIn
      <4> QED BY <4>6, <4>7, <4>8 DEF Items
    <3> QED BY <2>1, <3>5, <3>6 DEF Readable
  <2> QED BY <2>1
<1>3. Depth \in Good
  <2> HIDE DEF Good
  <2> QED BY <1>1, <1>2, Induction, DepthType
<1> QED BY <1>3, DepthType DEF Shallow, Readable

-----------------------------------------------------------------------------
\* What was sent and what was received is what the conversions make of the
\* model, or of the message of a peer.
Inv ==
  /\ model \in Instances \cup {Nothing}
  /\ \/ proto = Nothing
     \/ model # Nothing /\ proto = ToProto(model)
     \/ model = Nothing /\ proto \in PeerMessages
  /\ \/ received = Nothing
     \/ /\ proto \notin {Nothing, Raise}
        /\ received = IF proto.tag \in Protos THEN ToDict(proto) ELSE Raise

\* Both are functions of what was sent.
LEMMA Invariance == Spec => []Inv
<1>1. Init => Inv
  BY DEF Init, Inv
<1>2. Inv /\ [Next]_vars => Inv'
  <2> SUFFICES ASSUME Inv, [Next]_vars PROVE Inv'
    OBVIOUS
  <2>1. CASE ModelToRaw
    BY <2>1 DEF ModelToRaw, Inv
  <2>2. ASSUME NEW message \in PeerMessages, PeerSends(message) PROVE Inv'
    BY <2>2 DEF PeerSends, Inv
  <2>3. CASE RawToModel
    BY <2>3 DEF RawToModel, Inv
  <2>4. CASE UNCHANGED vars
    BY <2>4 DEF vars, Inv
  <2> QED BY <2>1, <2>2, <2>3, <2>4 DEF Next
<1> QED BY <1>1, <1>2, PTL DEF Spec

\* What is sent is a message, or nothing at all.
LEMMA SentIsMessage ==
  ASSUME Inv, proto \notin {Nothing, Raise}
  PROVE  IsMessage(proto) /\ Shallow(proto)
<1>1. CASE model # Nothing /\ proto = ToProto(model)
  <2>1. IsModel(model) /\ Within(Depth - 1, model)
    BY <1>1, DataAssumption DEF Inv, Within
  <2>2. Depth - 1 \in Nat /\ (Depth - 1) + 1 <= Depth
    BY DepthType
  <2> QED BY <1>1, <2>1, <2>2, ToProtoIsMessage
<1>2. CASE model = Nothing /\ proto \in PeerMessages
  BY <1>2, DataAssumption DEF Shallow, Within
<1> QED BY <1>1, <1>2 DEF Inv

\* Whatever is sent, by model_to_raw or by a program without modapp, is read but
\* for an entry in a map of bytes and a Timestamp of no year of a datetime.
THEOREM EveryMessageIsRead == Spec => []MessagesCanBeRead
<1>1. Inv => MessagesCanBeRead
  <2> SUFFICES ASSUME Inv, received # Nothing, proto.tag \in Protos
               PROVE  received = Raise <=> Unreadable(proto)
    BY DEF MessagesCanBeRead, Unreadable
  <2>1. proto \notin {Nothing, Raise} /\ received = ToDict(proto)
    BY DEF Inv
  <2>2. proto.tag \in Message
    BY DescriptorAssumption
  <2> QED BY <2>1, <2>2, SentIsMessage, CanBeRead
<1> QED BY <1>1, Invariance, PTL

\* What is read of a Timestamp made of a datetime.
LEMMA StampReadBack ==
  ASSUME NEW v, v.tag \in {"datetime", "zoned_datetime"}, v.val \in Int,
         v.val \in FirstTick..LastTick
  PROVE  LET d == FromTimestamp(ToTimestamp(v)) IN
         /\ d = Leaf("datetime", d.val)
         /\ v.val >= 0 \/ v.val % Second = 0 => d.val = v.val
         /\ ~(v.val >= 0 \/ v.val % Second = 0) => d.val = v.val + Second
<1> DEFINE s == ToTimestamp(v)
           x == Leaf("int", Truncate(v.val))
           y == Leaf("int", v.val % Second)
<1>1. s = Node("Timestamp", 0, [seconds |-> x, nanos |-> y])
  BY DEF ToTimestamp
<1>2. x.val = Truncate(v.val) /\ y.val = v.val % Second
  BY DEF Leaf, Node
<1> HIDE DEF s, x, y
<1>3. Number(s, "seconds") = x.val /\ Number(s, "nanos") = y.val
  <2>1. /\ DOMAIN s.items = {"seconds", "nanos"}
        /\ s.items["seconds"] = x /\ s.items["nanos"] = y
    BY <1>1 DEF Node
  <2> QED BY <2>1 DEF Number
<1> DEFINE d == FromTimestamp(s)
           t == v.val
<1>4. d = Leaf("datetime", x.val * Second + y.val)
  <2>1. Ticks(s) = Truncate(t) * Second + (t % Second)
    BY <1>2, <1>3 DEF Ticks
  <2>2. t \in Int /\ t \in FirstTick..LastTick
    OBVIOUS
  <2>3. /\ Second \in Nat \ {0} /\ FirstTick \in Int /\ LastTick \in Int
        /\ FirstTick <= 0 /\ Second <= LastTick
    BY DataAssumption
  <2> HIDE DEF t
  <2>4. Ticks(s) = t \/ (t < 0 /\ Ticks(s) = t + Second)
    BY <2>1, <2>2, SplitInstant
  <2>5. Ticks(s) \in FirstTick..LastTick
    BY <2>2, <2>3, <2>4
  <2> QED BY <1>2, <1>3, <2>5 DEF FromTimestamp, Ticks
<1>5. d.val = x.val * Second + y.val
  BY <1>4 DEF Leaf, Node
<1>6. d = Leaf("datetime", d.val)
  <2> HIDE DEF d
  <2> QED BY <1>4, <1>5
<1> HIDE DEF d
<1>7. d.val = Truncate(t) * Second + (t % Second)
  BY <1>2, <1>5
<1>8. t \in Int
  OBVIOUS
<1> HIDE DEF t
<1>9. /\ t >= 0 \/ t % Second = 0 => d.val = t
      /\ ~(t >= 0 \/ t % Second = 0) => d.val = t + Second
  BY <1>7, <1>8, SplitInstant
<1> QED BY <1>6, <1>9 DEF d, s, t

\* It is the instant of the datetime for those that can be represented.
LEMMA StampKeepsInstant ==
  ASSUME NEW v, v.tag \in {"datetime", "zoned_datetime"}, v.val \in Int,
         v.val \in FirstTick..LastTick
  PROVE  FromTimestamp(ToTimestamp(v)).val = Instant(v) <=> Representable(v)
<1> DEFINE d == FromTimestamp(ToTimestamp(v)).val
           t == v.val
           whole == t >= 0 \/ t % Second = 0
<1>1. (whole => d = t) /\ (~whole => d = t + Second)
  BY StampReadBack
<1>2. Second \in Nat \ {0} /\ ZoneOffset \in Nat \ {0} /\ t \in Int
  BY DataAssumption
<1>3. Representable(v) <=> v.tag = "datetime" /\ whole
  BY DEF Representable
<1>4. Instant(v) = IF v.tag = "zoned_datetime" THEN t - ZoneOffset ELSE t
  BY DEF Instant
<1> HIDE DEF d, t, whole
<1>5. CASE v.tag = "datetime"
  <2>1. Instant(v) = t
    BY <1>4, <1>5
  <2>2. t + Second # t
    BY <1>2
  <2>3. d = t <=> whole
    BY <1>1, <2>2
  <2> QED BY <1>3, <1>5, <2>1, <2>3 DEF d
<1>6. CASE v.tag = "zoned_datetime"
  <2>1. Instant(v) = t - ZoneOffset
    BY <1>4, <1>6
  <2>2. t - ZoneOffset # t /\ t - ZoneOffset # t + Second
    BY <1>2
  <2>3. d # Instant(v)
    BY <1>1, <2>1, <2>2
  <2> QED BY <1>3, <1>6, <2>3 DEF d
<1> QED BY <1>5, <1>6

\* What was received of a model is read from the message made of it.
LEMMA SentModelIsRead ==
  ASSUME Inv, model # Nothing, received \notin {Nothing, Raise}
  PROVE  /\ model.tag \in Message /\ IsModel(model) /\ Shallow(model) /\ ModelNode(model)
         /\ proto = ToProto(model) /\ proto # Raise
         /\ proto.tag \in Protos
         /\ received = ToDict(proto)
         /\ IsMessage(proto) /\ Shallow(proto) /\ MessageNode(proto)
<1>1. proto # Raise /\ proto = ToProto(model) /\ received = ToDict(proto) /\ proto.tag \in Protos
  BY DEF Inv
<1>2. model.tag \in Message /\ IsModel(model) /\ Within(Depth - 1, model)
  BY DataAssumption DEF Inv, Within
<1>3. Depth - 1 \in Nat /\ Depth \in Nat /\ Depth - 1 <= Depth
  BY DepthType
<1>4. Shallow(model)
  BY <1>2, <1>3, WithinMore DEF Shallow
<1>5. IsMessage(proto) /\ Shallow(proto)
  BY <1>1, SentIsMessage DEF Inv
<1> QED BY <1>1, <1>2, <1>4, <1>5, NodeByNode

\* Field f of the message made of m is the value of attribute a.
MadeFrom(m, done, f, a) ==
  /\ a \in DOMAIN m.items
  /\ FieldOf(m.tag, a, m.items[a]) = f
  /\ Fits(Field[m.tag][f], ValueFor(m, done, a))
  /\ DictToProto(m, done).items[f] = Stored(Field[m.tag][f], ValueFor(m, done, a))

\* Each field of a message is made from an attribute of the model.
LEMMA FieldsAreMade ==
  ASSUME NEW m, m.tag \in Message, NEW done, DictToProto(m, done) # Raise
  PROVE  \A f \in DOMAIN DictToProto(m, done).items : \E a : MadeFrom(m, done, f, a)
BY Converted DEF MadeFrom

\* An attribute whose value is not None is in the message, when no other is for
\* its field.
LEMMA FieldIsSet ==
  ASSUME NEW m, m.tag \in Message, NEW done, DictToProto(m, done) # Raise,
         NEW a \in DOMAIN m.items, NEW f \in DOMAIN Field[m.tag],
         FieldOf(m.tag, a, m.items[a]) = f,
         \A b \in DOMAIN m.items : FieldOf(m.tag, b, m.items[b]) = f => b = a,
         ValueFor(m, done, a).tag # "none"
  PROVE  f \in DOMAIN DictToProto(m, done).items
<1>1. \A g \in DOMAIN Field[m.tag] \ DOMAIN DictToProto(m, done).items, e \in DOMAIN m.items :
        FieldOf(m.tag, e, m.items[e]) = g =>
          \E b \in DOMAIN m.items :
            FieldOf(m.tag, b, m.items[b]) = g /\ ValueFor(m, done, b).tag = "none"
  BY Converted
<1> QED BY <1>1

\* A datetime comes back at its instant exactly when it is in UTC and not a
\* fraction of a second before 1970.
THEOREM InstantsOfUtc == Spec => []TimestampsKeepInstant
<1>1. Inv => TimestampsKeepInstant
  <2> SUFFICES ASSUME Inv, model # Nothing, received \notin {Nothing, Raise},
                      NEW a \in DOMAIN model.items \cap DOMAIN Field[model.tag],
                      IsDatetime(Field[model.tag][a])
               PROVE  received.items[a].val = Instant(model.items[a])
                        <=> Representable(model.items[a])
    BY DEF TimestampsKeepInstant
  <2> DEFINE c == model.tag
             field == Field[c][a]
             v == model.items[a]
             done == [k \in DOMAIN model.items |-> ToProto(model.items[k])]
             back == [k \in DOMAIN proto.items |-> ToDict(proto.items[k])]
  <2>1. /\ c \in Message /\ Shallow(model) /\ ModelNode(model)
        /\ proto = ToProto(model) /\ proto # Raise /\ received = ToDict(proto)
        /\ Shallow(proto) /\ MessageNode(proto) /\ IsModel(model)
    BY SentModelIsRead
  <2>2. c \notin Collection
    BY <2>1, MessageTags
  <2>3. proto = DictToProto(model, done)
    BY <2>1, <2>2, ToProtoUnfold DEF ProtoOf
  <2>4. /\ v \in Items(model) /\ IsModel(v) /\ v.val \in Int
        /\ v.tag \in {"datetime", "zoned_datetime"} => v.val \in FirstTick..LastTick
    <3>1. v \in Items(model)
      BY DEF Items
    <3>2. IsModel(v) /\ Shallow(v)
      BY <2>1, <3>1, NodeByNode, NodesUnfold
    <3>3. DataNode(v)
      BY <3>2, NodeByNode DEF ModelNode
    <3> QED BY <3>1, <3>2, <3>3 DEF DataNode
  <2>5. /\ field.type = "message" /\ field.message = "Timestamp" /\ a \in DOMAIN Field[c]
        /\ field.label = "singular" /\ field.oneof = NoOneof
    BY <2>1, FieldType DEF IsDatetime
  <2>6. ValueFor(model, done, a) = ToTimestamp(v)
    <3>1. FieldOf(c, a, v) = a
      BY <2>1, <2>5, NameOfField
    <3> HIDE DEF field, done
    <3>2. ValueFor(model, done, a) = FieldValue(field, a, v, done[a])
      BY <3>1 DEF ValueFor, field
    <3> QED BY <2>5, <3>2 DEF FieldValue, field
  <2>7. \A b \in DOMAIN model.items : FieldOf(c, b, model.items[b]) = a => b = a
    BY <2>1, <2>5, NameIsChoice
  <2> HIDE DEF done
  <2>8. DictToProto(model, done) # Raise
    BY <2>1, <2>3
  <2>9. proto.tag = c
    <3>1. proto = Node(c, 0, [f \in DOMAIN proto.items |-> proto.items[f]])
      BY <2>1, <2>3, Converted
    <3> QED BY <3>1 DEF Node
  <2>10. a \in DOMAIN proto.items
    <3>1. ToTimestamp(v).tag # "none"
      BY RaiseShape DEF ToTimestamp, Node
    <3>2. FieldOf(c, a, v) = a
      BY <2>1, <2>5, NameOfField
    <3>3. a \in DOMAIN DictToProto(model, done).items
      BY <2>1, <2>5, <2>6, <2>7, <2>8, <3>1, <3>2, FieldIsSet
    <3> QED BY <2>3, <3>3
  <2>11. Fits(field, ToTimestamp(v)) /\ proto.items[a] = Stored(field, ToTimestamp(v))
    <3>1. PICK b : MadeFrom(model, done, a, b)
      BY <2>1, <2>3, <2>8, <2>10, FieldsAreMade
    <3>2. b = a
      BY <2>7, <3>1 DEF MadeFrom
    <3> QED BY <2>3, <2>6, <3>1, <3>2 DEF MadeFrom
  <2>12. v.tag \in {"datetime", "zoned_datetime"}
    <3>1. ToTimestamp(v) # Raise
      BY <2>1, <2>5, <2>11, RaiseDoesNotFit
    <3> QED BY <3>1 DEF ToTimestamp
  <2>13. proto.items[a] = ToTimestamp(v)
    BY <2>5, <2>11 DEF Stored
  <2>14. IsRead(proto, a) /\ KeyOf(c, a) = a
    BY <2>5, <2>9, <2>10 DEF IsRead, KeyOf
  <2>15. ValueOf(proto, back, a) = FromTimestamp(ToTimestamp(v))
    <3>1. ValueOf(proto, back, a) = ReadValue(field, ToTimestamp(v), back[a])
      BY <2>9, <2>10, <2>13 DEF ValueOf
    <3> HIDE DEF back, v
    <3> QED BY <2>5, <3>1 DEF ReadValue, IsDatetime
  <2>16. received = ProtoToDict(proto, back)
    BY <2>1, <2>9, ToDictUnfold, MessageTags DEF DictOf
  <2> HIDE DEF back
  <2>17. received.items[a] = FromTimestamp(ToTimestamp(v))
    <3>1. OneOfEach(proto) /\ proto.tag \in Message
      BY <2>1, <2>9 DEF MessageNode
    <3>2. received.items[KeyOf(proto.tag, a)] = ValueOf(proto, back, a)
      BY <2>14, <2>16, <3>1, ReadDict
    <3> QED BY <2>9, <2>14, <2>15, <3>2
  <2> HIDE DEF v
  <2>18. FromTimestamp(ToTimestamp(v)).val = Instant(v) <=> Representable(v)
    BY <2>4, <2>12, StampKeepsInstant
  <2> QED BY <2>17, <2>18 DEF v
<1> QED BY <1>1, Invariance, PTL

\* A model is plain node by node.
PlainNode(u) ==
  u.tag \in Message =>
    /\ u.tag \in Protos
    /\ \A f \in DOMAIN Field[u.tag] : f \in DOMAIN u.items \/ HasPresence(Field[u.tag][f])
    /\ \A a \in DOMAIN u.items : PlainAttribute(u.tag, a, u.items[a])

\* A value is plain when its node is and its items are.
LEMMA PlainNodeByNode ==
  ASSUME NEW v, Shallow(v)
  PROVE  Plain(v) <=> PlainNode(v) /\ \A x \in Items(v) : Plain(x)
<1>1. \A u : Plain(u) <=> \A y \in Nodes(u) : PlainNode(y)
  BY DEF Plain, PlainNode
<1>2. \A y : y \in Nodes(v) <=> y = v \/ \E x \in Items(v) : y \in Nodes(x)
  BY NodesUnfold
<1> QED BY <1>1, <1>2

\* The value of a plain attribute for a field.
PlainField(field, v) ==
  IF field.label = "singular" THEN PlainValue(field, v) ELSE PlainCollection(field, v)

\* Of the fields of a oneof, a plain value is for one of its own type.
LEMMA PlainChoiceIsChosen ==
  ASSUME NEW c \in Message, NEW o, NEW v, PlainChoice(c, o, v)
  PROVE  LET f == ChosenField(c, o, v) IN
         /\ OneofFields(c, o) # {}
         /\ f \in DOMAIN Field[c]
         /\ Field[c][f].oneof = o
         /\ ~IsTimestamp(Field[c][f])
         /\ Field[c][f].type # "enum"
         /\ PlainValue(Field[c][f], v)
<1> DEFINE F(i) == Field[c][FieldNames[c][i]]
           Fine(i) == ~IsTimestamp(F(i)) /\ F(i).type # "enum" /\ PlainValue(F(i), v)
           tried == {i \in OneofFields(c, o) : Matches(v, F(i)) # "no"}
           j == First(tried)
<1>1. PICK i \in OneofFields(c, o) :
        /\ Fine(i)
        /\ \A k \in OneofFields(c, o) :
             k < i =>
               /\ F(k).type # "enum"
               /\ F(k).type = "message" => v.tag \in Message
               /\ F(k).type \in Instance(v.tag) => PlainValue(F(k), v)
  BY DEF PlainChoice
<1>2. \A k \in OneofFields(c, o) :
        /\ FieldNames[c][k] \in DOMAIN Field[c]
        /\ k \in Nat
        /\ F(k).type \in ScalarType \cup {"message"}
        /\ F(k).type = "message" => F(k).message \in Message
        /\ F(k).type # "message" => F(k).message = "none"
        /\ F(k).oneof = o
  BY OneofPositions, FieldType
<1> HIDE DEF F
<1>3. ASSUME NEW k \in OneofFields(c, o), Fine(k) PROVE Matches(v, F(k)) = "yes"
  <2>1. CASE F(k).type = "message"
    <3>1. v.tag = F(k).message /\ v.tag \in Message
      BY <1>2, <1>3, <2>1 DEF PlainValue
    <3> QED BY <2>1, <3>1 DEF Matches
  <2>2. CASE F(k).type # "message"
    <3>1. F(k).type \in ScalarType \ {"enum"} /\ ~IsTimestamp(F(k))
      BY <1>2, <1>3, <2>2
    <3>2. v.tag = PyTag(F(k).type)
      BY <1>3, <2>2, <3>1 DEF PlainValue
    <3>3. F(k).type \in Instance(v.tag)
      BY <3>1, <3>2 DEF PyTag, Instance, ScalarType
    <3> QED BY <2>2, <3>1, <3>3 DEF Matches
  <2> QED BY <2>1, <2>2
<1>4. i \in tried
  BY <1>1, <1>3
<1>5. tried \subseteq OneofFields(c, o) /\ tried \subseteq Nat
  BY <1>2
<1>6. j \in tried /\ j <= i
  <2> HIDE DEF tried
  <2> QED BY <1>4, <1>5, FirstIsLeast
<1>7. Fine(j)
  <2>1. CASE j = i
    <3> HIDE DEF j, Fine
    <3> QED BY <1>1, <2>1
  <2>2. CASE j # i
    <3> HIDE DEF j
    <3>1. j \in OneofFields(c, o) /\ Matches(v, F(j)) # "no" /\ j < i
      BY <1>2, <1>5, <1>6, <2>2
    <3>2. /\ F(j).type # "enum"
          /\ F(j).type = "message" => v.tag \in Message
          /\ F(j).type \in Instance(v.tag) => PlainValue(F(j), v)
      BY <1>1, <3>1
    <3>3. CASE F(j).type = "message"
      <4>1. v.tag \in Message /\ v.tag = F(j).message
        BY <3>1, <3>2, <3>3 DEF Matches
      <4>2. F(i).type = "message"
        <5>1. F(i).type # "message" => v.tag = PyTag(F(i).type)
          BY <1>1, <1>2 DEF PlainValue
        <5>2. F(i).type # "message" => PyTag(F(i).type) \in PyType
          BY <1>2, ScalarPyTag
        <5> QED BY <4>1, <5>1, <5>2, MessageTags
      <4>3. v.tag = F(i).message
        BY <1>1, <4>2 DEF PlainValue
      <4> QED BY <1>1, <3>2, <3>3, <4>1, <4>3 DEF PlainValue, IsTimestamp
    <3>4. CASE F(j).type # "message"
      <4>1. F(j).type \in ScalarType \ {"enum"} /\ ~IsTimestamp(F(j))
        BY <1>2, <3>1, <3>2, <3>4 DEF IsTimestamp
      <4>2. F(j).type \in Instance(v.tag)
        BY <3>1, <3>4, <4>1 DEF Matches
      <4> QED BY <3>2, <4>1, <4>2
    <3> QED BY <3>3, <3>4
  <2> QED BY <2>1, <2>2
<1>8. ChosenField(c, o, v) = FieldNames[c][j]
  <2>1. Matches(v, F(j)) = "yes"
    <3> HIDE DEF Fine, j
    <3> QED BY <1>3, <1>5, <1>6, <1>7
  <2>2. tried # {}
    BY <1>4
  <2> QED BY <2>1, <2>2 DEF ChosenField, F
<1> HIDE DEF tried, j
<1>9. OneofFields(c, o) # {} /\ FieldNames[c][j] \in DOMAIN Field[c] /\ F(j).oneof = o
  BY <1>2, <1>5, <1>6
<1> QED BY <1>7, <1>8, <1>9 DEF F

\* So a plain attribute is for a field of the type of its value, and is its key.
LEMMA PlainAttributeField ==
  ASSUME NEW c \in Message, NEW a, NEW v, PlainAttribute(c, a, v)
  PROVE  LET f == FieldOf(c, a, v) IN
         /\ f \in DOMAIN Field[c]
         /\ KeyOf(c, f) = a
         /\ Field[c][f].oneof \in {NoOneof, a}
         /\ Field[c][f].oneof # NoOneof => ~IsTimestamp(Field[c][f]) /\ Field[c][f].type # "enum"
         /\ PlainField(Field[c][f], v)
<1>1. CASE a \in DOMAIN Field[c]
  <2>1. FieldOf(c, a, v) = a
    BY <1>1, NameOfField
  <2> QED BY <1>1, <2>1 DEF PlainAttribute, KeyOf, PlainField
<1>2. CASE a \notin DOMAIN Field[c]
  <2>1. a # NoOneof /\ PlainChoice(c, a, v)
    BY <1>2 DEF PlainAttribute
  <2> DEFINE f == ChosenField(c, a, v)
  <2>2. /\ OneofFields(c, a) # {}
        /\ f \in DOMAIN Field[c]
        /\ Field[c][f].oneof = a
        /\ ~IsTimestamp(Field[c][f])
        /\ Field[c][f].type # "enum"
        /\ PlainValue(Field[c][f], v)
    BY <2>1, PlainChoiceIsChosen
  <2>3. FieldOf(c, a, v) = f
    BY <2>1, <2>2 DEF FieldOf
  <2> HIDE DEF f
  <2>4. Field[c][f].label = "singular"
    BY <2>1, <2>2, FieldType
  <2> QED BY <2>1, <2>2, <2>3, <2>4 DEF KeyOf, PlainField
<1> QED BY <1>1, <1>2

-----------------------------------------------------------------------------
\* Scalars are their own dictionaries, but for enums.
LEMMA LeafAsDict ==
  ASSUME NEW v, Shallow(v), DataNode(v), v.tag \in PyType
  PROVE  /\ v = Leaf(v.tag, v.val)
         /\ v.tag # "enum" => AsDict(v) = v
         /\ v.tag = "enum" => AsDict(v) = Leaf("int", v.val)
<1> DEFINE done == [k \in DOMAIN v.items |-> AsDict(v.items[k])]
           i == [k \in DOMAIN v.items |-> v.items[k]]
<1>1. v.items = <<>>
  BY DEF DataNode
<1>2. DOMAIN v.items = {}
  BY <1>1
<1>3. done = i
  BY <1>2
<1>4. v = Node(v.tag, v.val, i)
  BY DEF DataNode
<1> HIDE DEF done, i
<1>5. AsDict(v) = DataOf(v, done)
  BY AsDictUnfold DEF done
<1>6. v.tag \notin Message
  BY DescriptorAssumption
<1>7. v.tag # "enum" => AsDict(v) = v
  BY <1>3, <1>4, <1>5, <1>6, WithItems DEF DataOf
<1>8. v.tag = "enum" => AsDict(v) = Leaf("int", v.val)
  BY <1>5, <1>6 DEF DataOf
<1>9. i = v.items
  <2>1. Node(v.tag, v.val, i).items = i
    BY DEF Node
  <2> QED BY <1>4, <2>1
<1>10. v = Leaf(v.tag, v.val)
  BY <1>1, <1>4, <1>9 DEF Leaf
<1> QED BY <1>7, <1>8, <1>10

\* The same holds for lists and maps of scalars.
LEMMA ScalarsAsDict ==
  ASSUME NEW v, Shallow(v), DataNode(v), v.tag \in Collection,
         \A x \in Items(v) : DataNode(x) /\ x.tag \in PyType \ {"enum"}
  PROVE  AsDict(v) = v
<1> DEFINE done == [k \in DOMAIN v.items |-> AsDict(v.items[k])]
           i == [k \in DOMAIN v.items |-> v.items[k]]
<1>1. \A k \in DOMAIN v.items : AsDict(v.items[k]) = v.items[k]
  BY LeafAsDict, NodesUnfold DEF Items
<1>2. done = i
  BY <1>1
<1>3. v = Node(v.tag, v.val, i)
  BY DEF DataNode
<1> HIDE DEF done, i
<1>4. AsDict(v) = DataOf(v, done)
  BY AsDictUnfold DEF done
<1>5. v.tag \notin Message /\ v.tag # "enum"
  BY MessageTags DEF Collection
<1> QED BY <1>2, <1>3, <1>4, <1>5, WithItems DEF DataOf

\* A model, list or map goes to the other end as it is.
RoundTrips(v) ==
  /\ ToProto(v).tag = v.tag
  /\ v.tag \in Collection =>
       /\ DOMAIN ToProto(v).items = DOMAIN v.items
       /\ \A k \in DOMAIN v.items : ToProto(v).items[k].tag = v.items[k].tag
  /\ ToDict(ToProto(v)) = AsDict(v)
  /\ AsDict(v) # Raise

\* What the receiver gets for a field, of what is put in it.
Delivered(field, w) == ReadValue(field, Stored(field, w), ToDict(Stored(field, w)))

\* A singular scalar arrives.
LEMMA ScalarRoundTrips ==
  ASSUME NEW field, field.type \in ScalarType, field.message = "none", field.label = "singular",
         NEW a, NEW v, DataNode(v), Shallow(v), PlainValue(field, v), NEW message
  PROVE  LET w == FieldValue(field, a, v, message) IN
         /\ w.tag # "none"
         /\ Fits(field, w)
         /\ Delivered(field, w) = AsDict(v)
         /\ AsDict(v) # Raise
<1> DEFINE w == FieldValue(field, a, v, message)
<1>1. field.type # "message" /\ ~IsTimestamp(field)
  BY DEF ScalarType, IsTimestamp
<1>2. \A tag, x : Leaf(tag, x).tag = tag /\ Leaf(tag, x).val = x
  BY DEF Leaf, Node
<1>3. \A x : Delivered(field, x) = Leaf(PyTag(field.type), Kept(field.type, x.val))
  BY <1>1 DEF Delivered, ReadValue, Stored, IsTimestamp, IsDatetime
<1>4. CASE field.type = "enum"
  <2>1. v.tag = "enum" /\ v.tag \in PyType
    BY <1>1, <1>4 DEF PlainValue, PyType
  <2>2. w = Leaf("int", v.val)
    BY <1>1, <1>4, <2>1 DEF FieldValue, IsTimestamp
  <2>3. AsDict(v) = Leaf("int", v.val)
    BY <2>1, LeafAsDict
  <2> HIDE DEF w
  <2>4. w.tag = "int" /\ w.val = v.val
    BY <1>2, <2>2
  <2>5. Fits(field, w)
    BY <1>4, <2>4 DEF Fits, Accepts
  <2>6. Delivered(field, w) = AsDict(v)
    BY <1>3, <1>4, <2>3, <2>4 DEF PyTag, Kept
  <2>7. AsDict(v) # Raise
    BY <1>2, <2>3, RaiseShape
  <2> QED BY <2>4, <2>5, <2>6, <2>7 DEF w
<1>5. CASE field.type # "enum"
  <2>1. v.tag = PyTag(field.type) /\ Kept(field.type, v.val) = v.val
    BY <1>1, <1>5 DEF PlainValue
  <2>2. v.tag \in {"int", "bool", "float", "str", "bytes"} /\ v.tag \in PyType
    BY <2>1, ScalarPyTag
  <2>3. w = v
    BY <1>1, <1>5 DEF FieldValue, IsTimestamp
  <2>4. AsDict(v) = v /\ v = Leaf(v.tag, v.val)
    BY <2>2, LeafAsDict
  <2> HIDE DEF w
  <2>5. Fits(field, w)
    BY <1>5, <2>1, <2>3 DEF Fits, Accepts, PyTag, Instance, ScalarType
  <2>6. Delivered(field, w) = AsDict(v)
    BY <1>3, <2>1, <2>3, <2>4
  <2>7. AsDict(v) # Raise
    BY <2>2, <2>4, RaiseShape
  <2> QED BY <2>2, <2>3, <2>5, <2>6, <2>7 DEF w
<1> QED BY <1>4, <1>5

\* A list or map of scalars arrives.
LEMMA ScalarsRoundTrip ==
  ASSUME NEW field, field.type \in ScalarType, field.message = "none", field.label \in {"repeated", "map"},
         NEW a, NEW v, IsData(v), Shallow(v), PlainCollection(field, v), NEW message
  PROVE  LET w == FieldValue(field, a, v, message) IN
         /\ w.tag # "none"
         /\ Fits(field, w)
         /\ Delivered(field, w) = AsDict(v)
         /\ AsDict(v) # Raise
<1> DEFINE L(x) == Leaf(PyTag(field.type), Kept(field.type, x.val))
           i == [k \in DOMAIN v.items |-> v.items[k]]
<1>1. field.type # "message" /\ ~IsTimestamp(field) /\ field.type # "enum"
  BY DEF ScalarType, IsTimestamp, PlainCollection
<1>2. /\ v.tag = (IF field.label = "map" THEN "dict" ELSE "list")
      /\ field.label = "map" => field.type # "bytes"
      /\ \A k \in DOMAIN v.items :
           /\ v.items[k].tag = PyTag(field.type)
           /\ Kept(field.type, v.items[k].val) = v.items[k].val
  BY <1>1 DEF PlainCollection, PlainValue
<1>3. v.tag \in Collection /\ v.tag \notin Message
  BY <1>2, MessageTags DEF Collection
<1>4. DataNode(v) /\ \A x \in Items(v) : DataNode(x) /\ Shallow(x)
  BY NodeByNode, NodesUnfold
<1>5. PyTag(field.type) \in {"int", "bool", "float", "str", "bytes"} /\ PyTag(field.type) \in PyType
  BY ScalarPyTag
<1>6. AsDict(v) = v
  <2>1. \A x \in Items(v) : DataNode(x) /\ x.tag \in PyType \ {"enum"}
    BY <1>2, <1>4, <1>5 DEF Items
  <2> QED BY <1>3, <1>4, <2>1, ScalarsAsDict
<1>7. FieldValue(field, a, v, message) = v
  BY <1>1 DEF FieldValue, IsTimestamp
<1>8. Fits(field, v)
  <2>1. \A k \in DOMAIN v.items : Accepts(field, v.items[k])
    BY <1>1, <1>2 DEF Accepts, PyTag, Instance, ScalarType
  <2> QED BY <1>2, <2>1 DEF Fits
<1>9. Stored(field, v) = v
  <2>1. \A k \in DOMAIN v.items : L(v.items[k]) = v.items[k]
    BY <1>2, <1>4, <1>5, LeafAsDict DEF Items
  <2>2. [k \in DOMAIN v.items |-> L(v.items[k])] = i
    BY <2>1
  <2>3. Stored(field, v) = [v EXCEPT !.items = [k \in DOMAIN v.items |-> L(v.items[k])]]
    BY <1>1 DEF Stored
  <2>4. v = Node(v.tag, v.val, i)
    BY <1>4 DEF DataNode
  <2> HIDE DEF L, i
  <2>5. [v EXCEPT !.items = i] = v
    BY <1>4, <2>4, WithItems
  <2> QED BY <2>2, <2>3, <2>5
<1>10. v # Raise /\ v.tag # "none"
  BY <1>2, RaiseShape
<1>11. Delivered(field, v) = v
  <2>1. CASE field.label = "repeated"
    BY <1>1, <1>9, <2>1 DEF Delivered, ReadValue, IsTimestamp, IsDatetime
  <2>2. CASE field.label = "map"
    <3> DEFINE done == [k \in DOMAIN v.items |-> ToDict(v.items[k])]
    <3>1. Delivered(field, v) = ToDict(v)
      BY <1>9, <2>2 DEF Delivered, ReadValue, IsDatetime
    <3>2. ASSUME NEW k \in DOMAIN v.items PROVE ToDict(v.items[k]) = v.items[k]
      <4>1. v.items[k] \in Items(v)
        BY DEF Items
      <4>2. v.items[k].tag = PyTag(field.type) /\ PyTag(field.type) # "bytes"
        BY <1>1, <1>2, <2>2 DEF PyTag, ScalarType
      <4>3. ToDict(v.items[k]) = PyValue(v.items[k])
        BY <1>4, <1>5, <4>1, <4>2, ScalarIsRead
      <4> QED BY <1>5, <4>2, <4>3 DEF PyValue
    <3>3. done = i
      BY <3>2
    <3>4. v = Node(v.tag, v.val, i)
      BY <1>4 DEF DataNode
    <3>5. \A k \in DOMAIN v.items : v.items[k] # Raise
      BY <1>2, <1>5, RaiseShape
    <3> HIDE DEF done, i
    <3>6. ToDict(v) = Whole([v EXCEPT !.items = done])
      BY <1>3, ToDictUnfold DEF DictOf, done
    <3>7. ToDict(v) = Whole(v)
      BY <1>4, <3>3, <3>4, <3>6, WithItems
    <3>8. Whole(v) = v
      BY <3>5 DEF Whole
    <3> QED BY <3>1, <3>7, <3>8
  <2> QED BY <2>1, <2>2
<1> QED BY <1>6, <1>7, <1>8, <1>10, <1>11

\* A model, a list or a map of models, and a datetime arrive.
LEMMA MessageRoundTrips ==
  ASSUME NEW c \in Message, NEW f \in DOMAIN Field[c], Field[c][f].type = "message",
         NEW a, Field[c][f].oneof \in {NoOneof, a},
         Field[c][f].oneof # NoOneof => ~IsTimestamp(Field[c][f]),
         NEW v, IsData(v), Shallow(v), PlainField(Field[c][f], v), Readable(v) => RoundTrips(v)
  PROVE  LET w == FieldValue(Field[c][f], a, v, ToProto(v)) IN
         /\ w.tag # "none"
         /\ Fits(Field[c][f], w)
         /\ Delivered(Field[c][f], w) = AsDict(v)
         /\ AsDict(v) # Raise
<1> DEFINE field == Field[c][f]
           w == FieldValue(field, a, v, ToProto(v))
<1>1. field.message \in Message /\ field.label \in {"singular", "repeated", "map"}
  BY FieldType
<1>2. field.type = "message" /\ field.oneof \in {NoOneof, a} /\ PlainField(field, v)
      /\ (field.oneof # NoOneof => ~IsTimestamp(field))
  OBVIOUS
<1> SUFFICES w.tag # "none" /\ Fits(field, w) /\ Delivered(field, w) = AsDict(v) /\ AsDict(v) # Raise
  OBVIOUS
<1> HIDE DEF field
<1>3. \A x : Stored(field, x) = x
  BY <1>2 DEF Stored
<1>4. DataNode(v) /\ v.val \in Int
  BY NodeByNode DEF DataNode
<1>5. CASE IsTimestamp(field)
  <2>1. field.label = "singular" /\ Representable(v)
    BY <1>2, <1>5 DEF PlainField, PlainCollection, PlainValue
  <2>2. v.tag = "datetime" /\ (v.val >= 0 \/ v.val % Second = 0)
    BY <2>1 DEF Representable
  <2>3. w = ToTimestamp(v)
    BY <1>2, <1>5, <2>1 DEF FieldValue, IsTimestamp
  <2> HIDE DEF w
  <2>4. w.tag = "Timestamp"
    BY <2>2, <2>3 DEF ToTimestamp, Node
  <2>5. Fits(field, w)
    BY <1>2, <1>5, <2>1, <2>4 DEF Fits, Accepts, IsTimestamp
  <2>6. Delivered(field, w) = FromTimestamp(w)
    BY <1>2, <1>3, <1>5, <2>1 DEF Delivered, ReadValue, IsTimestamp, IsDatetime
  <2>7. FromTimestamp(w) = Leaf("datetime", v.val)
    <3> DEFINE d == FromTimestamp(ToTimestamp(v))
    <3>1. d = Leaf("datetime", d.val) /\ d.val = v.val
      BY <1>4, <2>2, StampReadBack DEF DataNode
    <3> HIDE DEF d
    <3> QED BY <2>3, <3>1 DEF d
  <2>8. AsDict(v) = v /\ v = Leaf("datetime", v.val)
    <3>1. v.tag \in PyType /\ v.tag # "enum"
      BY <2>2 DEF PyType
    <3> QED BY <1>4, <2>2, <3>1, LeafAsDict
  <2>9. v # Raise
    BY <2>2, RaiseShape
  <2> QED BY <2>4, <2>5, <2>6, <2>7, <2>8, <2>9
<1>6. CASE ~IsTimestamp(field)
  <2>1. w = ToProto(v)
    BY <1>2, <1>6 DEF FieldValue, IsTimestamp
  <2> HIDE DEF w
  <2>2. Delivered(field, w) = ToDict(w)
    BY <1>2, <1>3, <1>6 DEF Delivered, ReadValue, IsTimestamp, IsDatetime
  <2>3. CASE field.label = "singular"
    <3>1. v.tag = field.message
      BY <1>2, <1>6, <2>3 DEF PlainField, PlainValue
    <3>2. RoundTrips(v)
      BY <1>1, <3>1 DEF Readable
    <3>3. w.tag = field.message /\ w.tag # "none"
      BY <1>1, <2>1, <3>1, <3>2, MessageTags DEF RoundTrips, PyType
    <3>4. Fits(field, w)
      BY <1>2, <2>3, <3>3 DEF Fits, Accepts
    <3> QED BY <2>1, <2>2, <3>2, <3>3, <3>4 DEF RoundTrips
  <2>4. CASE field.label # "singular"
    <3>1. /\ v.tag = (IF field.label = "map" THEN "dict" ELSE "list")
          /\ \A k \in DOMAIN v.items : v.items[k].tag = field.message
      BY <1>2, <1>6, <2>4 DEF PlainField, PlainCollection, PlainValue
    <3>2. v.tag \in Collection
      BY <3>1 DEF Collection
    <3>3. RoundTrips(v)
      BY <1>1, <3>1, <3>2 DEF Readable, Items
    <3>4. /\ w.tag = v.tag /\ DOMAIN w.items = DOMAIN v.items
          /\ \A k \in DOMAIN w.items : w.items[k].tag = field.message
      BY <2>1, <3>1, <3>2, <3>3 DEF RoundTrips
    <3>5. Fits(field, w)
      BY <1>2, <2>4, <3>1, <3>4 DEF Fits, Accepts
    <3>6. w.tag # "none"
      BY <3>1, <3>4
    <3> QED BY <2>1, <2>2, <3>3, <3>5, <3>6 DEF RoundTrips
  <2> QED BY <2>3, <2>4
<1> QED BY <1>5, <1>6

\* Each attribute of a plain model arrives.
LEMMA AttributeArrives ==
  ASSUME NEW c \in Message, NEW a, NEW v, PlainAttribute(c, a, v), IsData(v), Shallow(v),
         Readable(v) => RoundTrips(v)
  PROVE  LET field == Field[c][FieldOf(c, a, v)]
             w == FieldValue(field, a, v, ToProto(v))
         IN
         /\ w.tag # "none"
         /\ Fits(field, w)
         /\ Delivered(field, w) = AsDict(v)
         /\ AsDict(v) # Raise
<1> DEFINE f == FieldOf(c, a, v)
           field == Field[c][f]
<1>1. /\ f \in DOMAIN Field[c]
      /\ field.oneof \in {NoOneof, a}
      /\ field.oneof # NoOneof => ~IsTimestamp(field) /\ field.type # "enum"
      /\ PlainField(field, v)
  BY PlainAttributeField
<1>2. /\ field.type \in ScalarType \cup {"message"}
      /\ field.type # "message" => field.message = "none"
      /\ field.label \in {"singular", "repeated", "map"}
  BY <1>1, FieldType
<1>3. DataNode(v)
  BY NodeByNode
<1> DEFINE w == FieldValue(field, a, v, ToProto(v))
<1> SUFFICES w.tag # "none" /\ Fits(field, w) /\ Delivered(field, w) = AsDict(v) /\ AsDict(v) # Raise
  OBVIOUS
<1>4. CASE field.type = "message"
  <2> HIDE DEF f
  <2> QED BY <1>1, <1>4, MessageRoundTrips
<1>5. CASE field.type # "message" /\ field.label = "singular"
  <2> HIDE DEF field
  <2> QED BY <1>1, <1>2, <1>3, <1>5, ScalarRoundTrips DEF PlainField
<1>6. CASE field.type # "message" /\ field.label # "singular"
  <2> HIDE DEF field
  <2> QED BY <1>1, <1>2, <1>6, ScalarsRoundTrip DEF PlainField
<1> HIDE DEF field, f, w
<1> QED BY <1>4, <1>5, <1>6

\* A plain model arrives when what is in it does.
LEMMA NodeRoundTrips ==
  ASSUME NEW u, u.tag \in Message, IsData(u), Shallow(u), PlainNode(u),
         \A x \in Items(u) : Readable(x) => RoundTrips(x),
         ToProto(u) # Raise => IsMessage(ToProto(u)) /\ Shallow(ToProto(u))
  PROVE  RoundTrips(u)
<1> DEFINE c == u.tag
           done == [k \in DOMAIN u.items |-> ToProto(u.items[k])]
           data == [k \in DOMAIN u.items |-> AsDict(u.items[k])]
           F(a) == FieldOf(c, a, u.items[a])
           p == ToProto(u)
           back == [k \in DOMAIN p.items |-> ToDict(p.items[k])]
           d == ToDict(p)
<1>1. c \notin Collection /\ c \notin PyType /\ c \in Message
  BY MessageTags
<1>2. p = DictToProto(u, done)
  BY <1>1, ToProtoUnfold DEF ProtoOf
<1>3. \A x \in Items(u) : IsData(x) /\ Shallow(x)
  BY NodeByNode, NodesUnfold
<1>4. /\ c \in Protos
      /\ \A f \in DOMAIN Field[c] : f \in DOMAIN u.items \/ HasPresence(Field[c][f])
      /\ \A a \in DOMAIN u.items : PlainAttribute(c, a, u.items[a])
  BY DEF PlainNode
<1>5. ASSUME NEW a \in DOMAIN u.items
      PROVE  /\ F(a) \in DOMAIN Field[c]
             /\ KeyOf(c, F(a)) = a
             /\ ValueFor(u, done, a).tag # "none"
             /\ Fits(Field[c][F(a)], ValueFor(u, done, a))
             /\ Delivered(Field[c][F(a)], ValueFor(u, done, a)) = data[a]
             /\ data[a] # Raise
  <2> DEFINE v == u.items[a]
             field == Field[c][F(a)]
             w == FieldValue(field, a, v, ToProto(v))
  <2>1. v \in Items(u)
    BY DEF Items
  <2>2. PlainAttribute(c, a, v) /\ IsData(v) /\ Shallow(v) /\ (Readable(v) => RoundTrips(v))
    BY <1>3, <1>4, <2>1
  <2>3. F(a) \in DOMAIN Field[c] /\ KeyOf(c, F(a)) = a
    BY <1>1, <2>2, PlainAttributeField
  <2>4. w.tag # "none" /\ Fits(field, w) /\ Delivered(field, w) = AsDict(v) /\ AsDict(v) # Raise
    BY <1>1, <2>2, AttributeArrives
  <2>5. ValueFor(u, done, a) = w
    BY DEF ValueFor
  <2>6. data[a] = AsDict(v)
    OBVIOUS
  <2> HIDE DEF w, data, done
  <2> QED BY <2>3, <2>4, <2>5, <2>6
<1>6. \A a, b \in DOMAIN u.items : F(a) = F(b) => a = b
  <2> HIDE DEF F
  <2> QED BY <1>5
<1>7. /\ p.tag = c
      /\ DOMAIN p.items = {F(a) : a \in DOMAIN u.items}
      /\ \A a \in DOMAIN u.items :
           p.items[F(a)] = Stored(Field[c][F(a)], ValueFor(u, done, a))
  <2>1. \A a \in DOMAIN u.items :
          LET f == FieldOf(u.tag, a, u.items[a]) IN
          /\ f \in DOMAIN Field[u.tag]
          /\ ValueFor(u, done, a).tag # "none"
          /\ Fits(Field[u.tag][f], ValueFor(u, done, a))
          /\ \A b \in DOMAIN u.items : FieldOf(u.tag, b, u.items[b]) = f => a = b
    <3> HIDE DEF done, data, p
    <3> QED BY <1>5, <1>6
  <2> HIDE DEF done
  <2> DEFINE q == DictToProto(u, done)
  <2>2. /\ q.tag = u.tag
        /\ DOMAIN q.items = {FieldOf(u.tag, a, u.items[a]) : a \in DOMAIN u.items}
        /\ \A a \in DOMAIN u.items :
             q.items[FieldOf(u.tag, a, u.items[a])]
               = Stored(Field[u.tag][FieldOf(u.tag, a, u.items[a])], ValueFor(u, done, a))
    BY <1>4, <2>1, ConvertedAll
  <2> HIDE DEF q, p
  <2>3. p = q
    BY <1>2 DEF q
  <2> QED BY <2>2, <2>3
<1> HIDE DEF F, done
<1>8. p # Raise
  BY <1>1, <1>7, RaiseShape DEF PyType
<1>9. IsMessage(p) /\ Shallow(p) /\ OneOfEach(p)
  <2>1. IsMessage(p) /\ Shallow(p)
    BY <1>8
  <2>2. MessageNode(p)
    BY <2>1, NodeByNode
  <2> QED BY <1>1, <1>7, <2>1, <2>2 DEF MessageNode
<1>10. d = ProtoToDict(p, back)
  BY <1>1, <1>7, <1>9, ToDictUnfold DEF DictOf
<1>11. \A f : IsRead(p, f) <=> f \in DOMAIN p.items
  <2>1. ASSUME NEW f \in DOMAIN p.items PROVE IsRead(p, f)
    BY <1>5, <1>7 DEF IsRead
  <2>2. ASSUME NEW f, IsRead(p, f) PROVE f \in DOMAIN p.items
    <3>1. f \in DOMAIN Field[c] /\ (HasPresence(Field[c][f]) => f \in DOMAIN p.items)
      BY <1>7, <2>2 DEF IsRead
    <3>2. f \in DOMAIN u.items => F(f) = f
      BY <1>1, <3>1, NameOfField DEF F
    <3> QED BY <1>4, <1>7, <3>1, <3>2
  <2> QED BY <2>1, <2>2
<1>12. ASSUME NEW a \in DOMAIN u.items
       PROVE  IsRead(p, F(a)) /\ KeyOf(c, F(a)) = a /\ ValueOf(p, back, F(a)) = data[a]
  <2>1. F(a) \in DOMAIN p.items
    BY <1>7
  <2>2. back[F(a)] = ToDict(p.items[F(a)])
    BY <2>1
  <2>3. ValueOf(p, back, F(a)) = Delivered(Field[c][F(a)], ValueFor(u, done, a))
    <3> HIDE DEF back, p
    <3> QED BY <1>7, <2>1, <2>2 DEF ValueOf, Delivered
  <2> HIDE DEF back, data
  <2> QED BY <1>5, <1>11, <2>1, <2>3
<1>13. \A f : IsRead(p, f) => \E a \in DOMAIN u.items : f = F(a)
  BY <1>7, <1>11
<1> HIDE DEF p, back, data
<1>14. d # Raise
  <2>1. d = Raise <=> \E f : IsRead(p, f) /\ ValueOf(p, back, f) = Raise
    BY <1>1, <1>7, <1>9, <1>10, ReadDict
  <2> HIDE DEF d
  <2> QED BY <1>5, <1>12, <1>13, <2>1
<1>15. /\ d = Node("dict", 0, [k \in DOMAIN d.items |-> d.items[k]])
       /\ \A k : k \in DOMAIN d.items <=> \E f : IsRead(p, f) /\ k = KeyOf(p.tag, f)
       /\ \A f : IsRead(p, f) => d.items[KeyOf(p.tag, f)] = ValueOf(p, back, f)
  BY <1>1, <1>7, <1>9, <1>10, <1>14, ReadDict
<1> HIDE DEF d
<1>16. \A k : k \in DOMAIN d.items <=> k \in DOMAIN u.items
  BY <1>7, <1>12, <1>13, <1>15
<1>17. \A a \in DOMAIN u.items : d.items[a] = data[a]
  BY <1>7, <1>12, <1>15
<1>18. d = Node("dict", 0, data)
  <2>1. [k \in DOMAIN d.items |-> d.items[k]] = data
    BY <1>16, <1>17 DEF data
  <2> QED BY <1>15, <2>1
<1>19. AsDict(u) = Node("dict", 0, data)
  <2>1. AsDict(u) = DataOf(u, data)
    BY AsDictUnfold DEF data
  <2> QED BY <1>1, <2>1 DEF DataOf, PyType
<1>20. RoundTrips(u)
  BY <1>1, <1>7, <1>14, <1>18, <1>19 DEF RoundTrips, d, p
<1> QED BY <1>20

\* A list or map arrives when what is in it does.
LEMMA CollectionRoundTrips ==
  ASSUME NEW u, u.tag \in Collection, IsData(u), Shallow(u),
         \A x \in Items(u) : x.tag \in Message /\ RoundTrips(x),
         ToProto(u) # Raise => IsMessage(ToProto(u)) /\ Shallow(ToProto(u))
  PROVE  RoundTrips(u)
<1> DEFINE done == [k \in DOMAIN u.items |-> ToProto(u.items[k])]
           data == [k \in DOMAIN u.items |-> AsDict(u.items[k])]
           p == Node(u.tag, u.val, done)
           back == [k \in DOMAIN p.items |-> ToDict(p.items[k])]
           d == Node(u.tag, u.val, data)
<1>1. u.tag \notin Message /\ u.tag # "exception" /\ u.tag # "enum"
  BY MessageTags DEF Collection
<1>2. DataNode(u)
  BY NodeByNode
<1>3. ToProto(u) = Whole([u EXCEPT !.items = done])
  BY ToProtoUnfold DEF ProtoOf
<1>4. ASSUME NEW k \in DOMAIN u.items
      PROVE  /\ done[k].tag = u.items[k].tag /\ done[k] # Raise
             /\ ToDict(done[k]) = data[k] /\ data[k] # Raise
  <2>1. u.items[k] \in Items(u)
    BY DEF Items
  <2>2. u.items[k].tag \in Message /\ RoundTrips(u.items[k])
    BY <2>1
  <2>3. u.items[k].tag # "exception"
    BY <2>2, MessageTags DEF PyType
  <2>4. done[k] = ToProto(u.items[k]) /\ data[k] = AsDict(u.items[k])
    OBVIOUS
  <2> HIDE DEF done, data
  <2> QED BY <2>2, <2>3, <2>4, RaiseShape DEF RoundTrips
<1>5. DOMAIN done = DOMAIN u.items /\ DOMAIN data = DOMAIN u.items
  OBVIOUS
<1>6. p.tag = u.tag /\ p.val = u.val /\ p.items = done
  BY <1>2, WithItems
<1>7. d.tag = u.tag /\ d.val = u.val /\ d.items = data
  BY <1>2, WithItems
<1>8. back = data
  <2> HIDE DEF p, done
  <2> QED BY <1>4, <1>5, <1>6
<1> HIDE DEF done, data, back
<1>9. ToProto(u) = p
  <2>1. ToProto(u) = Whole(p)
    BY <1>2, <1>3, WithItems
  <2> HIDE DEF p
  <2> QED BY <1>4, <1>5, <1>6, <2>1 DEF Whole
<1> HIDE DEF p, d
<1>10. p # Raise
  BY <1>1, <1>6, RaiseShape
<1>11. IsMessage(p) /\ Shallow(p) /\ DataNode(p)
  BY <1>9, <1>10, NodeByNode DEF MessageNode
<1>12. ToDict(p) = Whole([p EXCEPT !.items = back])
  BY <1>1, <1>6, <1>11, ToDictUnfold DEF DictOf, back
<1>13. [p EXCEPT !.items = back] = d
  BY <1>6, <1>8, <1>11, WithItems DEF d
<1>14. ToDict(p) = d
  BY <1>4, <1>5, <1>7, <1>12, <1>13 DEF Whole
<1>15. AsDict(u) = d
  <2>1. AsDict(u) = DataOf(u, data)
    BY AsDictUnfold DEF data
  <2> QED BY <1>1, <1>2, <2>1, WithItems DEF DataOf, d
<1>16. d # Raise
  BY <1>1, <1>7, RaiseShape
<1> QED BY <1>4, <1>5, <1>6, <1>9, <1>14, <1>15, <1>16 DEF RoundTrips

\* Plain models arrive, however deep.
LEMMA PlainRoundTrips ==
  ASSUME NEW v, v.tag \in Message, IsModel(v), Within(Depth - 1, v), Plain(v)
  PROVE  RoundTrips(v)
<1> DEFINE Good == {i \in Nat : i + 1 <= Depth =>
                      \A u : IsModel(u) /\ Within(i, u) /\ Plain(u) /\ Readable(u) => RoundTrips(u)}
<1>1. 0 \in Good
  BY WithinSome
<1>2. ASSUME NEW i \in Nat, i \in Good PROVE i + 1 \in Good
  <2>1. ASSUME (i + 1) + 1 <= Depth, NEW u, IsModel(u), Within(i + 1, u), Plain(u), Readable(u)
        PROVE  RoundTrips(u)
    <3>1. i + 1 <= Depth /\ i + 1 \in Nat
      BY <2>1, DepthType
    <3>2. Shallow(u)
      BY <2>1, <3>1, WithinMore, DepthType DEF Shallow
    <3>3. IsData(u) /\ PlainNode(u)
      BY <2>1, <3>2, MessageIsData, PlainNodeByNode
    <3>4. \A x \in Items(u) : IsModel(x) /\ Within(i, x) /\ Plain(x)
      BY <2>1, <3>1, <3>2, NodeByNode, WithinItems, PlainNodeByNode
    <3>5. \A x \in Items(u) : Readable(x) => RoundTrips(x)
      BY <1>2, <3>1, <3>4
    <3>6. ToProto(u) # Raise => IsMessage(ToProto(u)) /\ Shallow(ToProto(u))
      BY <2>1, <3>1, ToProtoIsMessage
    <3>7. CASE u.tag \in Message
      BY <3>2, <3>3, <3>5, <3>6, <3>7, NodeRoundTrips
    <3>8. CASE u.tag \in Collection /\ \A x \in Items(u) : x.tag \in Message
      <4>1. \A x \in Items(u) : x.tag \in Message /\ RoundTrips(x)
        BY <3>5, <3>8 DEF Readable
      <4> QED BY <3>2, <3>3, <3>6, <3>8, <4>1, CollectionRoundTrips
    <3> QED BY <2>1, <3>7, <3>8 DEF Readable
  <2> QED BY <2>1
<1>3. Nat \subseteq Good
  <2> HIDE DEF Good
  <2> QED BY <1>1, <1>2, Induction
<1>4. Depth - 1 \in Good /\ (Depth - 1) + 1 <= Depth
  <2> HIDE DEF Good
  <2> QED BY <1>3, DepthType
<1> QED BY <1>4 DEF Readable

\* The receiver of a plain model gets its attributes, exactly, at every depth.
THEOREM PlainModelsArrive == Spec => []PlainModelsRoundTrip
<1>1. Inv => PlainModelsRoundTrip
  <2> SUFFICES ASSUME Inv, model # Nothing, Plain(model)
               PROVE  proto # Raise /\ received \in {Nothing, AsDict(model)}
    BY DEF PlainModelsRoundTrip
  <2>1. model.tag \in Message /\ IsModel(model) /\ Within(Depth - 1, model)
    BY DataAssumption DEF Inv, Within
  <2>2. RoundTrips(model)
    BY <2>1, PlainRoundTrips
  <2>3. model.tag \in Protos
    <3>1. Shallow(model)
      BY <2>1, DepthType, WithinMore DEF Shallow
    <3> QED BY <2>1, <3>1, PlainNodeByNode DEF PlainNode
  <2>4. ToProto(model) # Raise
    BY <2>1, <2>2, MessageTags, RaiseShape DEF RoundTrips, PyType
  <2>5. Nothing # Raise
    BY RaiseShape DEF Nothing, Leaf, Node
  <2>6. proto # Raise
    BY <2>4, <2>5 DEF Inv
  <2>7. received \in {Nothing, AsDict(model)}
    BY <2>2, <2>3 DEF Inv, RoundTrips
  <2> QED BY <2>6, <2>7
<1> QED BY <1>1, Invariance, PTL

-----------------------------------------------------------------------------
\* What raw keys are read as, for each class.
ReadAs(d) == Keys!Walk(Keys!DecamelizedAs, d)

\* The equation of asdict.
LEMMA KeysAsDictUnfold ==
  ASSUME NEW v, Shallow(v)
  PROVE  Keys!AsDict(v) = Keys!Dictionary(v, [k \in DOMAIN v.items |-> Keys!AsDict(v.items[k])])
<1> DEFINE R(u) == CHOOSE D : D = [x \in Nodes(u) |-> Keys!Dictionary(x, [k \in DOMAIN x.items |-> D[x.items[k]]])]
<1>1. \A u : Keys!AsDict(u) = R(u)[u]
  BY DEF Keys!AsDict, Keys!Walk, Keys!Nodes, Keys!Level, Nodes, Level
<1>2. ASSUME NEW u, Shallow(u) PROVE IsRun("asdict", u, R(u))
  <2>1. PICK g : IsRun("asdict", u, g)
    BY <1>2, RunExists
  <2>2. \A x, d : Step("asdict", x, d) = Keys!Dictionary(x, d)
    BY DEF Step
  <2>3. g = [x \in Nodes(u) |-> Keys!Dictionary(x, [k \in DOMAIN x.items |-> g[x.items[k]]])]
    BY <2>1, <2>2 DEF IsRun
  <2>4. R(u) = [x \in Nodes(u) |-> Keys!Dictionary(x, [k \in DOMAIN x.items |-> R(u)[x.items[k]]])]
    BY <2>3
  <2> HIDE DEF R
  <2> QED BY <2>2, <2>4 DEF IsRun
<1> HIDE DEF R
<1> DEFINE r == [k \in DOMAIN v.items |-> Keys!AsDict(v.items[k])]
<1>3. ASSUME NEW k \in DOMAIN v.items
      PROVE  \E h : IsRun("asdict", v.items[k], h) /\ r[k] = h[v.items[k]]
  <2>1. Shallow(v.items[k])
    BY NodesUnfold DEF Items
  <2> QED BY <2>1, <1>1, <1>2
<1>4. r = [k \in DOMAIN v.items |-> r[k]]
  OBVIOUS
<1> HIDE DEF r
<1>5. R(v)[v] = Step("asdict", v, r)
  BY <1>2, <1>3, <1>4, RunUnfold
<1> QED BY <1>1, <1>5 DEF Step, r

\* The equation of _camelize_model_dict.
LEMMA CamelizeUnfold ==
  ASSUME NEW v, Shallow(v)
  PROVE  Keys!Camelize(v) = Keys!CamelizedValue(v, [k \in DOMAIN v.items |-> Keys!Camelize(v.items[k])])
<1> DEFINE R(u) == CHOOSE D : D = [x \in Nodes(u) |-> Keys!CamelizedValue(x, [k \in DOMAIN x.items |-> D[x.items[k]]])]
<1>1. \A u : Keys!Camelize(u) = R(u)[u]
  BY DEF Keys!Camelize, Keys!Walk, Keys!Nodes, Keys!Level, Nodes, Level
<1>2. ASSUME NEW u, Shallow(u) PROVE IsRun("camel", u, R(u))
  <2>1. PICK g : IsRun("camel", u, g)
    BY <1>2, RunExists
  <2>2. \A x, d : Step("camel", x, d) = Keys!CamelizedValue(x, d)
    BY DEF Step
  <2>3. g = [x \in Nodes(u) |-> Keys!CamelizedValue(x, [k \in DOMAIN x.items |-> g[x.items[k]]])]
    BY <2>1, <2>2 DEF IsRun
  <2>4. R(u) = [x \in Nodes(u) |-> Keys!CamelizedValue(x, [k \in DOMAIN x.items |-> R(u)[x.items[k]]])]
    BY <2>3
  <2> HIDE DEF R
  <2> QED BY <2>2, <2>4 DEF IsRun
<1> HIDE DEF R
<1> DEFINE r == [k \in DOMAIN v.items |-> Keys!Camelize(v.items[k])]
<1>3. ASSUME NEW k \in DOMAIN v.items
      PROVE  \E h : IsRun("camel", v.items[k], h) /\ r[k] = h[v.items[k]]
  <2>1. Shallow(v.items[k])
    BY NodesUnfold DEF Items
  <2> QED BY <2>1, <1>1, <1>2
<1>4. r = [k \in DOMAIN v.items |-> r[k]]
  OBVIOUS
<1> HIDE DEF r
<1>5. R(v)[v] = Step("camel", v, r)
  BY <1>2, <1>3, <1>4, RunUnfold
<1> QED BY <1>1, <1>5 DEF Step, r

\* The equation of Renamed.
LEMMA RenamedUnfold ==
  ASSUME NEW v, Shallow(v)
  PROVE  Renamed(v) = RenamedValue(v, [k \in DOMAIN v.items |-> Renamed(v.items[k])])
<1> DEFINE R(u) == CHOOSE D : D = [x \in Nodes(u) |-> RenamedValue(x, [k \in DOMAIN x.items |-> D[x.items[k]]])]
<1>1. \A u : Renamed(u) = R(u)[u]
  BY DEF Renamed, Walk
<1>2. ASSUME NEW u, Shallow(u) PROVE IsRun("renamed", u, R(u))
  <2>1. PICK g : IsRun("renamed", u, g)
    BY <1>2, RunExists
  <2>2. \A x, d : Step("renamed", x, d) = RenamedValue(x, d)
    BY DEF Step
  <2>3. g = [x \in Nodes(u) |-> RenamedValue(x, [k \in DOMAIN x.items |-> g[x.items[k]]])]
    BY <2>1, <2>2 DEF IsRun
  <2>4. R(u) = [x \in Nodes(u) |-> RenamedValue(x, [k \in DOMAIN x.items |-> R(u)[x.items[k]]])]
    BY <2>3
  <2> HIDE DEF R
  <2> QED BY <2>2, <2>4 DEF IsRun
<1> HIDE DEF R
<1> DEFINE r == [k \in DOMAIN v.items |-> Renamed(v.items[k])]
<1>3. ASSUME NEW k \in DOMAIN v.items
      PROVE  \E h : IsRun("renamed", v.items[k], h) /\ r[k] = h[v.items[k]]
  <2>1. Shallow(v.items[k])
    BY NodesUnfold DEF Items
  <2> QED BY <2>1, <1>1, <1>2
<1>4. r = [k \in DOMAIN v.items |-> r[k]]
  OBVIOUS
<1> HIDE DEF r
<1>5. R(v)[v] = Step("renamed", v, r)
  BY <1>2, <1>3, <1>4, RunUnfold
<1> QED BY <1>1, <1>5 DEF Step, r

\* The equation of _decamelize_model_dict.
LEMMA ReadAsUnfold ==
  ASSUME NEW v, Shallow(v)
  PROVE  ReadAs(v) = Keys!DecamelizedAs(v, [k \in DOMAIN v.items |-> ReadAs(v.items[k])])
<1> DEFINE R(u) == CHOOSE D : D = [x \in Nodes(u) |-> Keys!DecamelizedAs(x, [k \in DOMAIN x.items |-> D[x.items[k]]])]
<1>1. \A u : ReadAs(u) = R(u)[u]
  BY DEF ReadAs, Keys!Walk, Keys!Nodes, Keys!Level, Nodes, Level
<1>2. ASSUME NEW u, Shallow(u) PROVE IsRun("decamel", u, R(u))
  <2>1. PICK g : IsRun("decamel", u, g)
    BY <1>2, RunExists
  <2>2. \A x, d : Step("decamel", x, d) = Keys!DecamelizedAs(x, d)
    BY DEF Step
  <2>3. g = [x \in Nodes(u) |-> Keys!DecamelizedAs(x, [k \in DOMAIN x.items |-> g[x.items[k]]])]
    BY <2>1, <2>2 DEF IsRun
  <2>4. R(u) = [x \in Nodes(u) |-> Keys!DecamelizedAs(x, [k \in DOMAIN x.items |-> R(u)[x.items[k]]])]
    BY <2>3
  <2> HIDE DEF R
  <2> QED BY <2>2, <2>4 DEF IsRun
<1> HIDE DEF R
<1> DEFINE r == [k \in DOMAIN v.items |-> ReadAs(v.items[k])]
<1>3. ASSUME NEW k \in DOMAIN v.items
      PROVE  \E h : IsRun("decamel", v.items[k], h) /\ r[k] = h[v.items[k]]
  <2>1. Shallow(v.items[k])
    BY NodesUnfold DEF Items
  <2> QED BY <2>1, <1>1, <1>2
<1>4. r = [k \in DOMAIN v.items |-> r[k]]
  OBVIOUS
<1> HIDE DEF r
<1>5. R(v)[v] = Step("decamel", v, r)
  BY <1>2, <1>3, <1>4, RunUnfold
<1> QED BY <1>1, <1>5 DEF Step, r

-----------------------------------------------------------------------------
\* A list of any things.
IsList(s) == Len(s) \in Nat /\ s = [i \in 1..Len(s) |-> s[i]]

\* A function on 1..n is a list of length n.
LEMMA ListIs ==
  ASSUME NEW n \in Nat, NEW s, s = [i \in 1..n |-> s[i]]
  PROVE  Len(s) = n /\ IsList(s) /\ DOMAIN s = 1..n
<1> DEFINE S == {s[i] : i \in 1..n}
<1>1. s \in [1..n -> S]
  <2>1. DOMAIN s = 1..n /\ \A i \in 1..n : s[i] \in S
    OBVIOUS
  <2> QED BY <2>1
<1>2. s \in Seq(S)
  <2> HIDE DEF S
  <2> QED BY <1>1
<1>3. Len(s) = n
  <2> HIDE DEF S
  <2> QED BY <1>1, <1>2
<1> QED BY <1>3 DEF IsList

\* A sequence is a list.
LEMMA SeqIsList ==
  ASSUME NEW S, NEW t \in Seq(S)
  PROVE  IsList(t)
<1>1. Len(t) \in Nat /\ DOMAIN t = 1..Len(t)
  OBVIOUS
<1>2. t \in [1..Len(t) -> S]
  OBVIOUS
<1>3. t = [i \in 1..Len(t) |-> t[i]]
  BY <1>2
<1> QED BY <1>1, <1>3 DEF IsList

\* Append to any list.
LEMMA AppendIs ==
  ASSUME NEW s, IsList(s), NEW e
  PROVE  /\ IsList(Append(s, e)) /\ Len(Append(s, e)) = Len(s) + 1
         /\ \A i \in 1..Len(s) : Append(s, e)[i] = s[i]
         /\ Append(s, e)[Len(s) + 1] = e
<1> DEFINE S == {s[i] : i \in 1..Len(s)} \cup {e}
<1>1. s \in Seq(S) /\ e \in S
  <2>1. s \in [1..Len(s) -> S] /\ Len(s) \in Nat
    <3>1. DOMAIN s = 1..Len(s) /\ Len(s) \in Nat /\ s = [i \in 1..Len(s) |-> s[i]]
      BY DEF IsList
    <3>2. \A i \in 1..Len(s) : s[i] \in S
      OBVIOUS
    <3> HIDE DEF S
    <3> QED BY <3>1, <3>2
  <2> HIDE DEF S
  <2>2. s \in Seq(S)
    BY <2>1
  <2> QED BY <2>2 DEF S
<1> HIDE DEF S
<1>2. /\ Append(s, e) \in Seq(S)
      /\ Len(Append(s, e)) = Len(s) + 1
      /\ \A i \in 1..Len(s) : Append(s, e)[i] = s[i]
      /\ Append(s, e)[Len(s) + 1] = e
  BY <1>1
<1>3. IsList(Append(s, e))
  BY <1>2, SeqIsList
<1> QED BY <1>2, <1>3

\* Written obeys the recursion it is defined by.
LEMMA WrittenSteps ==
  ASSUME NEW keys, IsList(keys), NEW values
  PROVE  \E D : /\ D[0] = Keys!EmptyDict
                /\ \A i \in 1..Len(keys) :
                     D[i] = IF keys[i] = NoKey THEN D[i - 1]
                            ELSE Keys!Put(D[i - 1], keys[i], values[i])
                /\ Keys!Written(keys, values) = D[Len(keys)]
<1> DEFINE N == Len(keys)
           Body(g, n) == IF n = 0 THEN Keys!EmptyDict
                         ELSE IF keys[n] = NoKey THEN g[n - 1]
                         ELSE Keys!Put(g[n - 1], keys[n], values[n])
           Known == {n \in Nat : \E g : g = [i \in 0..n |-> Body(g, i)]}
           D == CHOOSE g : g = [i \in 0..N |-> Body(g, i)]
<1>0. N \in Nat
  BY DEF IsList
<1>1. 0 \in Known
  <2> DEFINE g == [i \in 0..0 |-> Keys!EmptyDict]
  <2>1. \A i \in 0..0 : g[i] = Body(g, i)
    OBVIOUS
  <2>2. g = [i \in 0..0 |-> Body(g, i)]
    BY <2>1
  <2> QED BY <2>2
<1>2. ASSUME NEW n \in Nat, n \in Known PROVE n + 1 \in Known
  <2>1. PICK g : g = [i \in 0..n |-> Body(g, i)]
    BY <1>2
  <2> DEFINE h == [i \in 0..(n + 1) |-> IF i <= n THEN g[i] ELSE Body(g, n + 1)]
  <2>2. ASSUME NEW i \in 0..(n + 1) PROVE h[i] = Body(h, i)
    <3>1. i # 0 => h[i - 1] = g[i - 1]
      OBVIOUS
    <3>2. Body(h, i) = Body(g, i)
      <4> HIDE DEF h
      <4> QED BY <3>1
    <3>3. h[i] = Body(g, i)
      <4> HIDE DEF Body
      <4>1. CASE i <= n
        <5>1. i \in 0..n /\ h[i] = g[i]
          BY <4>1
        <5> HIDE DEF h
        <5> QED BY <5>1, <2>1
      <4>2. CASE i = n + 1
        BY <4>2
      <4> QED BY <4>1, <4>2
    <3> HIDE DEF Body, h
    <3> QED BY <3>2, <3>3
  <2>3. h = [i \in 0..(n + 1) |-> Body(h, i)]
    <3> HIDE DEF Body
    <3> QED BY <2>2
  <2> HIDE DEF h, Body
  <2> QED BY <2>3
<1>3. N \in Known
  <2> HIDE DEF Known, N
  <2> QED BY <1>0, <1>1, <1>2, Induction
<1>4. D = [i \in 0..N |-> Body(D, i)]
  <2> HIDE DEF Body, N
  <2> QED BY <1>3
<1>5. Keys!Written(keys, values) = D[N]
  BY DEF Keys!Written
<1> HIDE DEF D, Known
<1>6. \A i \in 0..N : D[i] = Body(D, i)
  <2> HIDE DEF Body, N
  <2> QED BY <1>4
<1>7. /\ D[0] = Keys!EmptyDict
      /\ \A i \in 1..N : D[i] = IF keys[i] = NoKey THEN D[i - 1]
                                ELSE Keys!Put(D[i - 1], keys[i], values[i])
  <2>1. 0 \in 0..N /\ \A i \in 1..N : i \in 0..N /\ i # 0
    BY <1>0
  <2> QED BY <1>6, <2>1
<1> QED BY <1>5, <1>7

-----------------------------------------------------------------------------
\* A dictionary with its keys in order.
IsMap(d) ==
  /\ d = Keys!Node("dict", d.keys, d.items)
  /\ IsList(d.keys)
  /\ IsList(d.items)
  /\ Len(d.items) = Len(d.keys)

\* An assignment to a key that is there.
LEMMA PutOver ==
  ASSUME NEW d, IsMap(d), NEW k, NEW v, \E i \in 1..Len(d.keys) : d.keys[i] = k
  PROVE  Keys!Put(d, k, v) =
           Keys!Node("dict", d.keys, [i \in 1..Len(d.keys) |-> IF d.keys[i] = k THEN v ELSE d.items[i]])
<1>1. DOMAIN d.items = 1..Len(d.keys)
  BY DEF IsMap, IsList
<1>2. d = [tag |-> "dict", keys |-> d.keys, items |-> d.items]
  BY DEF IsMap, Keys!Node
<1>3. Keys!Contains(d.keys, k)
  BY DEF Keys!Contains
<1>4. Keys!Put(d, k, v) =
        [d EXCEPT !.items = [i \in DOMAIN d.items |-> IF d.keys[i] = k THEN v ELSE d.items[i]]]
  BY <1>3 DEF Keys!Put
<1> DEFINE t == [i \in 1..Len(d.keys) |-> IF d.keys[i] = k THEN v ELSE d.items[i]]
<1>5. Keys!Put(d, k, v) = [d EXCEPT !.items = t]
  BY <1>1, <1>4
<1> HIDE DEF t
<1>6. Keys!Put(d, k, v) = Keys!Node("dict", d.keys, t)
  BY <1>2, <1>5 DEF Keys!Node
<1> QED BY <1>6 DEF t

\* An assignment to a new key.
LEMMA PutNew ==
  ASSUME NEW d, IsMap(d), NEW k, NEW v, \A i \in 1..Len(d.keys) : d.keys[i] # k
  PROVE  Keys!Put(d, k, v) = Keys!Node("dict", Append(d.keys, k), Append(d.items, v))
<1>1. d = [tag |-> "dict", keys |-> d.keys, items |-> d.items]
  BY DEF IsMap, Keys!Node
<1>2. ~Keys!Contains(d.keys, k)
  BY DEF Keys!Contains
<1>3. Keys!Put(d, k, v) = [d EXCEPT !.keys = Append(d.keys, k), !.items = Append(d.items, v)]
  BY <1>2 DEF Keys!Put
<1> DEFINE s == Append(d.keys, k)
           t == Append(d.items, v)
           q == [d EXCEPT !.keys = s, !.items = t]
<1> HIDE DEF s, t
<1>4. DOMAIN q = {"tag", "keys", "items"}
  BY <1>1
<1>5. q.keys = s /\ q.items = t /\ q.tag = "dict"
  BY <1>1
<1>6. q = [x \in {"tag", "keys", "items"} |-> q[x]]
  BY <1>4
<1> HIDE DEF q
<1>7. q = [tag |-> "dict", keys |-> s, items |-> t]
  BY <1>5, <1>6
<1> QED BY <1>3, <1>7 DEF Keys!Node, q, s, t

\* A dictionary is one after an assignment, and has nothing new in it but the
\* key and the value.
LEMMA PutIs ==
  ASSUME NEW d, IsMap(d), NEW k, NEW v
  PROVE  /\ IsMap(Keys!Put(d, k, v))
         /\ \A i \in 1..Len(Keys!Put(d, k, v).keys) :
              /\ Keys!Put(d, k, v).items[i] = v
                 \/ \E j \in 1..Len(d.keys) : Keys!Put(d, k, v).items[i] = d.items[j]
              /\ Keys!Put(d, k, v).keys[i] = k
                 \/ \E j \in 1..Len(d.keys) : Keys!Put(d, k, v).keys[i] = d.keys[j]
         /\ \E i \in 1..Len(Keys!Put(d, k, v).keys) : Keys!Put(d, k, v).keys[i] = k
         /\ \A i \in 1..Len(d.keys) :
              /\ i \in 1..Len(Keys!Put(d, k, v).keys)
              /\ Keys!Put(d, k, v).keys[i] = d.keys[i]
<1> DEFINE p == Keys!Put(d, k, v)
<1>1. IsList(d.keys) /\ IsList(d.items) /\ Len(d.items) = Len(d.keys) /\ Len(d.keys) \in Nat
  BY DEF IsMap, IsList
<1>2. CASE \E i \in 1..Len(d.keys) : d.keys[i] = k
  <2> DEFINE t == [i \in 1..Len(d.keys) |-> IF d.keys[i] = k THEN v ELSE d.items[i]]
  <2>1. p = Keys!Node("dict", d.keys, t)
    BY <1>2, PutOver
  <2>2. p.keys = d.keys /\ p.items = t
    <3> HIDE DEF p, t
    <3> QED BY <2>1 DEF Keys!Node
  <2>3. t = [i \in 1..Len(d.keys) |-> t[i]]
    OBVIOUS
  <2>4. \A i \in 1..Len(d.keys) : t[i] = v \/ t[i] = d.items[i]
    OBVIOUS
  <2> HIDE DEF p, t
  <2>5. IsList(t) /\ Len(t) = Len(d.keys)
    BY <1>1, <2>3, ListIs
  <2>6. IsMap(p)
    BY <1>1, <2>1, <2>2, <2>5 DEF IsMap
  <2>7. /\ IsMap(p)
        /\ \A i \in 1..Len(p.keys) :
              /\ p.items[i] = v \/ \E j \in 1..Len(d.keys) : p.items[i] = d.items[j]
              /\ p.keys[i] = k \/ \E j \in 1..Len(d.keys) : p.keys[i] = d.keys[j]
        /\ \E i \in 1..Len(p.keys) : p.keys[i] = k
        /\ \A i \in 1..Len(d.keys) : i \in 1..Len(p.keys) /\ p.keys[i] = d.keys[i]
    BY <1>2, <2>2, <2>4, <2>6
  <2> QED BY <2>7 DEF p
<1>3. CASE \A i \in 1..Len(d.keys) : d.keys[i] # k
  <2> DEFINE s == Append(d.keys, k)
             t == Append(d.items, v)
  <2>1. p = Keys!Node("dict", s, t)
    BY <1>3, PutNew, Zenon
  <2>2. /\ IsList(s) /\ IsList(t) /\ Len(s) = Len(d.keys) + 1 /\ Len(t) = Len(s)
        /\ \A i \in 1..Len(d.keys) : s[i] = d.keys[i] /\ t[i] = d.items[i]
        /\ s[Len(d.keys) + 1] = k /\ t[Len(d.keys) + 1] = v
    <3>1. /\ IsList(s) /\ Len(s) = Len(d.keys) + 1
          /\ \A i \in 1..Len(d.keys) : s[i] = d.keys[i]
          /\ s[Len(d.keys) + 1] = k
      BY <1>1, AppendIs
    <3>2. /\ IsList(t) /\ Len(t) = Len(d.items) + 1
          /\ \A i \in 1..Len(d.items) : t[i] = d.items[i]
          /\ t[Len(d.items) + 1] = v
      BY <1>1, AppendIs
    <3> HIDE DEF s, t
    <3> QED BY <1>1, <3>1, <3>2
  <2> HIDE DEF p, s, t
  <2>3. p.keys = s /\ p.items = t
    BY <2>1 DEF Keys!Node
  <2>4. IsMap(p)
    BY <2>1, <2>2, <2>3 DEF IsMap
  <2>5. \A i \in 1..Len(p.keys) : i \in 1..Len(d.keys) \/ i = Len(d.keys) + 1
    BY <1>1, <2>2, <2>3
  <2>6. Len(d.keys) + 1 \in 1..Len(p.keys) /\ \A i \in 1..Len(d.keys) : i \in 1..Len(p.keys)
    BY <1>1, <2>2, <2>3
  <2>7. /\ IsMap(p)
        /\ \A i \in 1..Len(p.keys) :
              /\ p.items[i] = v \/ \E j \in 1..Len(d.keys) : p.items[i] = d.items[j]
              /\ p.keys[i] = k \/ \E j \in 1..Len(d.keys) : p.keys[i] = d.keys[j]
        /\ \E i \in 1..Len(p.keys) : p.keys[i] = k
        /\ \A i \in 1..Len(d.keys) : i \in 1..Len(p.keys) /\ p.keys[i] = d.keys[i]
    BY <2>2, <2>3, <2>4, <2>5, <2>6
  <2> QED BY <2>7 DEF p
<1> QED BY <1>2, <1>3

\* A dictionary is written, of the keys and values given.
LEMMA WrittenIs ==
  ASSUME NEW keys, IsList(keys), NEW values
  PROVE  /\ IsMap(Keys!Written(keys, values))
         /\ \A i \in 1..Len(Keys!Written(keys, values).keys) :
              /\ \E j \in 1..Len(keys) : keys[j] # NoKey /\ Keys!Written(keys, values).items[i] = values[j]
              /\ \E j \in 1..Len(keys) : keys[j] # NoKey /\ Keys!Written(keys, values).keys[i] = keys[j]
<1>1. PICK D : /\ D[0] = Keys!EmptyDict
               /\ \A i \in 1..Len(keys) :
                     D[i] = IF keys[i] = NoKey THEN D[i - 1]
                            ELSE Keys!Put(D[i - 1], keys[i], values[i])
               /\ Keys!Written(keys, values) = D[Len(keys)]
  BY WrittenSteps
<1> DEFINE Fine(d) ==
             /\ IsMap(d)
             /\ \A i \in 1..Len(d.keys) :
                  /\ \E j \in 1..Len(keys) : keys[j] # NoKey /\ d.items[i] = values[j]
                  /\ \E j \in 1..Len(keys) : keys[j] # NoKey /\ d.keys[i] = keys[j]
           Good == {n \in Nat : n <= Len(keys) => Fine(D[n])}
<1>2. 0 \in Good
  <2> DEFINE e == Keys!EmptyDict
  <2>1. e.keys = << >> /\ e.items = << >> /\ e = Keys!Node("dict", e.keys, e.items)
    BY DEF Keys!EmptyDict, Keys!Node
  <2> HIDE DEF e
  <2>2. IsList(<< >>) /\ Len(<< >>) = 0
    <3>1. << >> \in Seq({})
      OBVIOUS
    <3> QED BY <3>1, SeqIsList
  <2>3. IsMap(e)
    BY <2>1, <2>2 DEF IsMap
  <2>4. Fine(e)
    BY <2>1, <2>2, <2>3
  <2> HIDE DEF Fine
  <2> QED BY <1>1, <2>4 DEF e
<1>3. ASSUME NEW n \in Nat, n \in Good PROVE n + 1 \in Good
  <2> SUFFICES ASSUME n + 1 <= Len(keys) PROVE Fine(D[n + 1])
    OBVIOUS
  <2>1. n + 1 \in 1..Len(keys) /\ (n + 1) - 1 = n /\ n <= Len(keys)
    BY DEF IsList
  <2>2. Fine(D[n])
    <3> HIDE DEF Fine
    <3> QED BY <1>3, <2>1
  <2>3. D[n + 1] = IF keys[n + 1] = NoKey THEN D[n] ELSE Keys!Put(D[n], keys[n + 1], values[n + 1])
    <3>1. D[n + 1] = IF keys[n + 1] = NoKey THEN D[(n + 1) - 1]
                     ELSE Keys!Put(D[(n + 1) - 1], keys[n + 1], values[n + 1])
      BY <1>1, <2>1
    <3> QED BY <2>1, <3>1
  <2>4. CASE keys[n + 1] = NoKey
    <3> HIDE DEF Fine
    <3> QED BY <2>2, <2>3, <2>4
  <2>5. CASE keys[n + 1] # NoKey
    <3> DEFINE d == D[n]
               p == Keys!Put(d, keys[n + 1], values[n + 1])
    <3>1. Fine(d)
      BY <2>2
    <3>2. IsMap(d)
      BY <3>1
    <3> HIDE DEF d
    <3>3. /\ IsMap(p)
          /\ \A i \in 1..Len(p.keys) :
              /\ p.items[i] = values[n + 1] \/ \E j \in 1..Len(d.keys) : p.items[i] = d.items[j]
              /\ p.keys[i] = keys[n + 1] \/ \E j \in 1..Len(d.keys) : p.keys[i] = d.keys[j]
      BY <3>2, PutIs
    <3> HIDE DEF p
    <3>4. Fine(p)
      <4>1. ASSUME NEW i \in 1..Len(p.keys)
            PROVE  /\ \E j \in 1..Len(keys) : keys[j] # NoKey /\ p.items[i] = values[j]
                   /\ \E j \in 1..Len(keys) : keys[j] # NoKey /\ p.keys[i] = keys[j]
        <5>1. /\ p.items[i] = values[n + 1] \/ \E j \in 1..Len(d.keys) : p.items[i] = d.items[j]
              /\ p.keys[i] = keys[n + 1] \/ \E j \in 1..Len(d.keys) : p.keys[i] = d.keys[j]
          BY <3>3
        <5>2. \A j \in 1..Len(d.keys) :
                 /\ \E m \in 1..Len(keys) : keys[m] # NoKey /\ d.items[j] = values[m]
                 /\ \E m \in 1..Len(keys) : keys[m] # NoKey /\ d.keys[j] = keys[m]
          BY <3>1
        <5>3. \E j \in 1..Len(keys) : keys[j] # NoKey /\ p.items[i] = values[j]
          <6>1. CASE p.items[i] = values[n + 1]
            BY <2>1, <2>5, <6>1
          <6>2. CASE \E j \in 1..Len(d.keys) : p.items[i] = d.items[j]
            BY <5>2, <6>2
          <6> QED BY <5>1, <6>1, <6>2
        <5>4. \E j \in 1..Len(keys) : keys[j] # NoKey /\ p.keys[i] = keys[j]
          <6>1. CASE p.keys[i] = keys[n + 1]
            BY <2>1, <2>5, <6>1
          <6>2. CASE \E j \in 1..Len(d.keys) : p.keys[i] = d.keys[j]
            BY <5>2, <6>2
          <6> QED BY <5>1, <6>1, <6>2
        <5> QED BY <5>3, <5>4
      <4> QED BY <3>3, <4>1
    <3>5. D[n + 1] = p
      BY <2>3, <2>5 DEF p, d
    <3> HIDE DEF Fine
    <3> QED BY <3>4, <3>5
  <2> QED BY <2>4, <2>5
<1>4. Nat \subseteq Good
  <2> HIDE DEF Good
  <2> QED BY <1>2, <1>3, Induction
<1>5. Fine(D[Len(keys)])
  <2>1. Len(keys) \in Nat /\ Len(keys) <= Len(keys)
    BY DEF IsList
  <2> HIDE DEF Fine
  <2> QED BY <1>4, <2>1
<1> QED BY <1>1, <1>5

-----------------------------------------------------------------------------
\* Append makes a list one longer.
LEMMA AppendNext ==
  ASSUME NEW f, NEW n \in Nat
  PROVE  Append([i \in 1..n |-> f[i]], f[n + 1]) = [i \in 1..(n + 1) |-> f[i]]
<1> DEFINE s == [i \in 1..n |-> f[i]]
           t == Append(s, f[n + 1])
<1>1. s = [i \in 1..n |-> s[i]]
  OBVIOUS
<1>2. \A i \in 1..n : s[i] = f[i]
  OBVIOUS
<1> HIDE DEF s
<1>3. Len(s) = n /\ IsList(s)
  BY <1>1, ListIs
<1>4. /\ IsList(t) /\ Len(t) = n + 1 /\ t[n + 1] = f[n + 1]
      /\ \A i \in 1..n : t[i] = f[i]
  BY <1>2, <1>3, AppendIs
<1> HIDE DEF t
<1>5. \A i \in 1..(n + 1) : t[i] = f[i]
  <2>1. \A i \in 1..(n + 1) : i \in 1..n \/ i = n + 1
    OBVIOUS
  <2> QED BY <1>4, <2>1
<1>6. t = [i \in 1..(n + 1) |-> t[i]]
  BY <1>4 DEF IsList
<1>7. t = [i \in 1..(n + 1) |-> f[i]]
  BY <1>5, <1>6
<1> QED BY <1>7 DEF s, t

\* Where no two keys are one, the dictionary has them all.
LEMMA WrittenAll ==
  ASSUME NEW keys, IsList(keys),
         \A i, j \in 1..Len(keys) : keys[i] = keys[j] => i = j,
         \A i \in 1..Len(keys) : keys[i] # NoKey,
         NEW values, values = [i \in 1..Len(keys) |-> values[i]]
  PROVE  Keys!Written(keys, values) = Keys!Node("dict", keys, values)
<1>1. PICK D : /\ D[0] = Keys!EmptyDict
               /\ \A i \in 1..Len(keys) :
                     D[i] = IF keys[i] = NoKey THEN D[i - 1]
                            ELSE Keys!Put(D[i - 1], keys[i], values[i])
               /\ Keys!Written(keys, values) = D[Len(keys)]
  BY WrittenSteps
<1> DEFINE S(f, n) == [i \in 1..n |-> f[i]]
           Good == {n \in Nat : n <= Len(keys) => D[n] = Keys!Node("dict", S(keys, n), S(values, n))}
<1>2. 0 \in Good
  <2>1. S(keys, 0) = << >> /\ S(values, 0) = << >>
    OBVIOUS
  <2> HIDE DEF S
  <2> QED BY <1>1, <2>1 DEF Keys!EmptyDict
<1>3. ASSUME NEW n \in Nat, n \in Good PROVE n + 1 \in Good
  <2> SUFFICES ASSUME n + 1 <= Len(keys)
               PROVE  D[n + 1] = Keys!Node("dict", S(keys, n + 1), S(values, n + 1))
    OBVIOUS
  <2>1. n + 1 \in 1..Len(keys) /\ (n + 1) - 1 = n /\ n <= Len(keys)
    BY DEF IsList
  <2>2. D[n + 1] = Keys!Put(D[n], keys[n + 1], values[n + 1])
    <3>1. D[n + 1] = Keys!Put(D[(n + 1) - 1], keys[n + 1], values[n + 1])
      BY <1>1, <2>1
    <3> QED BY <2>1, <3>1
  <2> DEFINE s == S(keys, n)
             t == S(values, n)
             d == Keys!Node("dict", s, t)
  <2>3. D[n] = d
    BY <1>3, <2>1
  <2>4. /\ s = [i \in 1..n |-> s[i]] /\ t = [i \in 1..n |-> t[i]]
        /\ \A i \in 1..n : s[i] = keys[i]
    OBVIOUS
  <2>5. /\ Append(s, keys[n + 1]) = S(keys, n + 1)
        /\ Append(t, values[n + 1]) = S(values, n + 1)
    BY AppendNext
  <2> HIDE DEF s, t, S
  <2>6. Len(s) = n /\ IsList(s) /\ Len(t) = n /\ IsList(t)
    BY <2>4, ListIs
  <2>7. d.keys = s /\ d.items = t
    BY DEF Keys!Node
  <2>8. IsMap(d)
    BY <2>6, <2>7 DEF IsMap
  <2>9. \A i \in 1..Len(d.keys) : d.keys[i] # keys[n + 1]
    <3>1. ASSUME NEW i \in 1..n PROVE s[i] # keys[n + 1]
      <4>1. i \in 1..Len(keys) /\ i # n + 1
        BY <2>1
      <4> QED BY <2>1, <2>4, <4>1
    <3> QED BY <2>6, <2>7, <3>1
  <2> HIDE DEF d
  <2>10. Keys!Put(d, keys[n + 1], values[n + 1])
           = Keys!Node("dict", Append(d.keys, keys[n + 1]), Append(d.items, values[n + 1]))
    BY <2>8, <2>9, PutNew, Zenon
  <2> QED BY <2>2, <2>3, <2>5, <2>7, <2>10
<1>4. Nat \subseteq Good
  <2> HIDE DEF Good
  <2> QED BY <1>2, <1>3, Induction
<1>5. D[Len(keys)] = Keys!Node("dict", S(keys, Len(keys)), S(values, Len(keys)))
  <2>1. Len(keys) \in Nat /\ Len(keys) <= Len(keys)
    BY DEF IsList
  <2> HIDE DEF S
  <2> QED BY <1>4, <2>1
<1>6. S(keys, Len(keys)) = keys /\ S(values, Len(keys)) = values
  BY DEF IsList
<1> HIDE DEF S
<1> QED BY <1>1, <1>5, <1>6

\* Keys that are skipped, and their values, make no difference.
LEMMA WrittenSame ==
  ASSUME NEW keys, IsList(keys), NEW values, NEW more, IsList(more), NEW others,
         Len(keys) <= Len(more),
         \A i \in 1..Len(keys) : more[i] = keys[i] /\ (keys[i] # NoKey => others[i] = values[i]),
         \A i \in 1..Len(more) : i > Len(keys) => more[i] = NoKey
  PROVE  Keys!Written(more, others) = Keys!Written(keys, values)
<1>1. PICK D : /\ D[0] = Keys!EmptyDict
               /\ \A i \in 1..Len(keys) :
                     D[i] = IF keys[i] = NoKey THEN D[i - 1]
                            ELSE Keys!Put(D[i - 1], keys[i], values[i])
               /\ Keys!Written(keys, values) = D[Len(keys)]
  BY WrittenSteps
<1>2. PICK E : /\ E[0] = Keys!EmptyDict
               /\ \A i \in 1..Len(more) :
                     E[i] = IF more[i] = NoKey THEN E[i - 1]
                            ELSE Keys!Put(E[i - 1], more[i], others[i])
               /\ Keys!Written(more, others) = E[Len(more)]
  BY WrittenSteps
<1>3. Len(keys) \in Nat /\ Len(more) \in Nat
  BY DEF IsList
<1> DEFINE Place(n) == IF n <= Len(keys) THEN n ELSE Len(keys)
           Good == {n \in Nat : n <= Len(more) => E[n] = D[Place(n)]}
<1>4. 0 \in Good
  BY <1>1, <1>2, <1>3
<1>5. ASSUME NEW n \in Nat, n \in Good PROVE n + 1 \in Good
  <2> SUFFICES ASSUME n + 1 <= Len(more) PROVE E[n + 1] = D[Place(n + 1)]
    OBVIOUS
  <2>1. n + 1 \in 1..Len(more) /\ (n + 1) - 1 = n /\ n <= Len(more)
    BY <1>3
  <2>2. E[n] = D[Place(n)]
    BY <1>5, <2>1
  <2>3. E[n + 1] = IF more[n + 1] = NoKey THEN E[n] ELSE Keys!Put(E[n], more[n + 1], others[n + 1])
    <3>1. E[n + 1] = IF more[n + 1] = NoKey THEN E[(n + 1) - 1]
                     ELSE Keys!Put(E[(n + 1) - 1], more[n + 1], others[n + 1])
      BY <1>2, <2>1
    <3> QED BY <2>1, <3>1
  <2>4. CASE n + 1 <= Len(keys)
    <3>1. n + 1 \in 1..Len(keys) /\ Place(n) = n /\ Place(n + 1) = n + 1
      BY <1>3, <2>4
    <3>2. D[n + 1] = IF keys[n + 1] = NoKey THEN D[n] ELSE Keys!Put(D[n], keys[n + 1], values[n + 1])
      <4>1. D[n + 1] = IF keys[n + 1] = NoKey THEN D[(n + 1) - 1]
                       ELSE Keys!Put(D[(n + 1) - 1], keys[n + 1], values[n + 1])
        BY <1>1, <3>1
      <4> QED BY <2>1, <4>1
    <3>3. more[n + 1] = keys[n + 1] /\ (keys[n + 1] # NoKey => others[n + 1] = values[n + 1])
      BY <3>1
    <3> HIDE DEF Place
    <3> QED BY <2>2, <2>3, <3>1, <3>2, <3>3
  <2>5. CASE ~(n + 1 <= Len(keys))
    <3>1. Place(n) = Len(keys) /\ Place(n + 1) = Len(keys) /\ n + 1 > Len(keys)
      BY <1>3, <2>5
    <3>2. more[n + 1] = NoKey
      BY <2>1, <3>1
    <3> HIDE DEF Place
    <3> QED BY <2>2, <2>3, <3>1, <3>2
  <2> QED BY <2>4, <2>5
<1>6. Nat \subseteq Good
  <2> HIDE DEF Good
  <2> QED BY <1>4, <1>5, Induction
<1>7. E[Len(more)] = D[Place(Len(more))]
  <2>1. Len(more) <= Len(more)
    BY <1>3
  <2> HIDE DEF Place
  <2> QED BY <1>3, <1>6, <2>1
<1>8. Place(Len(more)) = Len(keys)
  BY <1>3
<1> HIDE DEF Place
<1> QED BY <1>1, <1>2, <1>7, <1>8

-----------------------------------------------------------------------------
\* A model, or a part of one.
IsTree(v) == Shallow(v) /\ \A u \in Nodes(v) : IsNode(u)

\* What a part of a model is like.
LEMMA PartIs ==
  ASSUME NEW u, IsNode(u)
  PROVE  /\ u = Keys!Node(u.tag, u.keys, u.items)
         /\ u.tag \in Class \cup {"dict", "list", "scalar"}
         /\ IsList(u.keys) /\ DOMAIN u.keys = 1..Len(u.keys)
         /\ \A i \in 1..Len(u.keys) : u.keys[i] \in Name
         /\ \A i, j \in 1..Len(u.keys) : u.keys[i] = u.keys[j] => i = j
         /\ IsList(u.items) /\ DOMAIN u.items = 1..Len(u.items)
         /\ u.tag # "list" => Len(u.items) = Len(u.keys)
         /\ u.tag = "scalar" => Len(u.items) = 0
<1>1. u = Keys!Node(u.tag, u.keys, u.items) /\ u.tag \in Class \cup {"dict", "list", "scalar"}
  BY Zenon DEF IsNode, Keys!Data
<1>2. u.keys \in Seq(Name)
  BY DEF IsNode
<1>3. IsList(u.keys) /\ DOMAIN u.keys = 1..Len(u.keys)
  BY <1>2, SeqIsList
<1>4. \A i \in 1..Len(u.keys) : u.keys[i] \in Name
  BY <1>2
<1>5. \A i, j \in 1..Len(u.keys) : u.keys[i] = u.keys[j] => i = j
  BY <1>3 DEF IsNode
<1>6. Len(u.items) \in Nat /\ u.items = [i \in 1..Len(u.items) |-> u.items[i]]
  BY DEF IsNode
<1>7. IsList(u.items) /\ DOMAIN u.items = 1..Len(u.items)
  BY <1>6 DEF IsList
<1>8. u.tag # "list" => Len(u.items) = Len(u.keys)
  <2> SUFFICES ASSUME u.tag # "list" PROVE Len(u.items) = Len(u.keys)
    OBVIOUS
  <2>1. DOMAIN u.items = DOMAIN u.keys
    BY DEF IsNode
  <2>2. 1..Len(u.items) = 1..Len(u.keys) /\ Len(u.items) \in Nat /\ Len(u.keys) \in Nat
    BY <1>3, <1>7, <2>1 DEF IsList
  <2> QED BY <2>2
<1>9. u.tag = "scalar" => Len(u.items) = 0
  <2> SUFFICES ASSUME u.tag = "scalar" PROVE Len(u.items) = 0
    OBVIOUS
  <2>1. u.keys = << >>
    BY DEF IsNode
  <2> QED BY <1>8, <2>1
<1> QED BY <1>1, <1>3, <1>4, <1>5, <1>7, <1>8, <1>9

\* The parts of a model are like the whole.
LEMMA TreeItems ==
  ASSUME NEW v, IsTree(v)
  PROVE  /\ IsNode(v)
         /\ \A i \in 1..Len(v.items) : v.items[i] \in Items(v)
         /\ \A x \in Items(v) : IsTree(x) /\ Nodes(x) \subseteq Nodes(v)
<1>1. Shallow(v) /\ v \in Nodes(v)
  BY NodesUnfold DEF IsTree
<1>2. IsNode(v)
  BY <1>1 DEF IsTree
<1>3. \A i \in 1..Len(v.items) : v.items[i] \in Items(v)
  BY <1>2, PartIs DEF Items
<1>4. ASSUME NEW x \in Items(v) PROVE IsTree(x) /\ Nodes(x) \subseteq Nodes(v)
  <2>1. Shallow(x) /\ Nodes(x) \subseteq Nodes(v)
    BY <1>1, NodesUnfold
  <2> QED BY <2>1 DEF IsTree
<1> QED BY <1>2, <1>3, <1>4

\* There is a model in a value when it is one or has one in an item.
LEMMA HasModelsUnfold ==
  ASSUME NEW v, Shallow(v)
  PROVE  HasModels(v) <=> v.tag \in Class \/ \E x \in Items(v) : HasModels(x)
<1>1. \A y : HasModels(y) <=> \E u \in Nodes(y) : u.tag \in Class
  BY DEF HasModels
<1> QED BY <1>1, NodesUnfold

\* What holds of all parts of a model holds of those of an item.
LEMMA PartsOfItems ==
  ASSUME NEW v, IsTree(v), NEW x \in Items(v)
  PROVE  /\ ModelsInReach(v) => ModelsInReach(x)
         /\ NamesStayApart(v) => NamesStayApart(x)
         /\ NamesComeBack(v) => NamesComeBack(x)
         /\ AttributesAreOwn(v) => AttributesAreOwn(x)
         /\ ModelsAreAnnotated(v) => ModelsAreAnnotated(x)
         /\ ~HasDictAttribute(v) => ~HasDictAttribute(x)
<1>1. \A u : u \in Nodes(x) => u \in Nodes(v)
  BY TreeItems
<1>2. ModelsInReach(v) => ModelsInReach(x)
  BY <1>1, Zenon DEF ModelsInReach
<1>3. NamesStayApart(v) => NamesStayApart(x)
  BY <1>1, Zenon DEF NamesStayApart
<1>4. NamesComeBack(v) => NamesComeBack(x)
  BY <1>1, Zenon DEF NamesComeBack
<1>5. ModelsAreAnnotated(v) => ModelsAreAnnotated(x)
  BY <1>1, Zenon DEF ModelsAreAnnotated
<1>6. ~HasDictAttribute(v) => ~HasDictAttribute(x)
  BY <1>1, Zenon DEF HasDictAttribute
<1>7. AttributesAreOwn(v) => AttributesAreOwn(x)
  BY <1>1, Zenon DEF AttributesAreOwn
<1> QED BY <1>2, <1>3, <1>4, <1>5, <1>6, <1>7

\* Other items in the same node.
LEMMA WithOtherItems ==
  ASSUME NEW tag, NEW keys, NEW items, NEW done, NEW u, u = Keys!Node(tag, keys, items)
  PROVE  /\ u.tag = tag /\ u.keys = keys /\ u.items = items
         /\ [u EXCEPT !.items = done] = Keys!Node(tag, keys, done)
<1>1. u.tag = tag /\ u.keys = keys /\ u.items = items /\ DOMAIN u = {"tag", "keys", "items"}
  BY DEF Keys!Node
<1> DEFINE q == [u EXCEPT !.items = done]
<1>2. DOMAIN q = {"tag", "keys", "items"} /\ q.tag = tag /\ q.keys = keys /\ q.items = done
  BY <1>1
<1>3. q = [x \in {"tag", "keys", "items"} |-> q[x]]
  BY <1>2
<1> HIDE DEF q
<1>4. q = [tag |-> tag, keys |-> keys, items |-> done]
  BY <1>2, <1>3
<1> QED BY <1>1, <1>4 DEF q, Keys!Node

\* Where there are no models there is nothing to rename.
LEMMA BareSame ==
  ASSUME NEW v, IsTree(v), ~HasModels(v)
  PROVE  Renamed(v) = Keys!AsDict(v)
<1> DEFINE Good == {i \in Nat : i <= Depth =>
                      \A u : IsTree(u) /\ Within(i, u) /\ ~HasModels(u)
                               => Renamed(u) = Keys!AsDict(u)}
<1>1. 0 \in Good
  BY WithinSome
<1>2. ASSUME NEW i \in Nat, i \in Good PROVE i + 1 \in Good
  <2>1. ASSUME i + 1 <= Depth, NEW u, IsTree(u), Within(i + 1, u), ~HasModels(u)
        PROVE  Renamed(u) = Keys!AsDict(u)
    <3> DEFINE r == [k \in DOMAIN u.items |-> Renamed(u.items[k])]
               a == [k \in DOMAIN u.items |-> Keys!AsDict(u.items[k])]
    <3>1. i <= Depth /\ Shallow(u)
      BY <2>1, DepthType DEF IsTree
    <3>2. u.tag \notin Class /\ \A x \in Items(u) : ~HasModels(x)
      BY <2>1, <3>1, HasModelsUnfold
    <3>3. \A x \in Items(u) : IsTree(x) /\ Within(i, x)
      BY <2>1, TreeItems, WithinItems
    <3>4. \A x \in Items(u) : Renamed(x) = Keys!AsDict(x)
      BY <1>2, <3>1, <3>2, <3>3
    <3>5. r = a
      BY <3>4 DEF Items
    <3>6. Renamed(u) = RenamedValue(u, r)
      BY <3>1, RenamedUnfold
    <3>7. Keys!AsDict(u) = Keys!Dictionary(u, a)
      BY <3>1, KeysAsDictUnfold
    <3>8. u = Keys!Node(u.tag, u.keys, u.items)
      BY <2>1, TreeItems, PartIs
    <3> HIDE DEF r, a
    <3>9. Renamed(u) = [u EXCEPT !.items = r]
      BY <3>2, <3>6, Zenon DEF RenamedValue
    <3>10. Keys!AsDict(u) = Keys!Node(u.tag, u.keys, a)
      BY <3>2, <3>7, Zenon DEF Keys!Dictionary
    <3> QED BY <3>5, <3>8, <3>9, <3>10, WithOtherItems
  <2> QED BY <2>1
<1>3. Nat \subseteq Good
  <2> HIDE DEF Good
  <2> QED BY <1>1, <1>2, Induction
<1>4. Depth \in Good /\ Depth <= Depth
  <2> HIDE DEF Good
  <2> QED BY <1>3, DepthType
<1> QED BY <1>4 DEF IsTree, Shallow

-----------------------------------------------------------------------------
\* The tags of data are those of no class.
LEMMA ClassTags ==
  /\ "dict" \notin Class /\ "list" \notin Class /\ "scalar" \notin Class
  /\ "exception" \notin Class /\ "nothing" \notin Class /\ "other" \notin Class
  /\ NoKey \notin Name
  /\ \A k \in Name : Camelized[k] \in Name
  /\ \A k \in Name : Decamelized[k] \in Name
<1>1. Class \cap (Keys!Data \cup {"exception", "nothing", "other"}) = {}
  BY ModelAssumption
<1>2. /\ "dict" \notin Class /\ "list" \notin Class /\ "scalar" \notin Class
      /\ "exception" \notin Class /\ "nothing" \notin Class /\ "other" \notin Class
  BY <1>1 DEF Keys!Data
<1>3. NoKey \notin Name
  BY ModelAssumption
<1>4. Camelized \in [Name -> Name] /\ Decamelized \in [Name -> Name]
  BY ModelAssumption
<1> QED BY <1>2, <1>3, <1>4

\* The dictionary of asdict, item by item.
LEMMA DictionaryIs ==
  ASSUME NEW v, IsTree(v)
  PROVE  /\ Keys!AsDict(v).tag = (IF v.tag \in Class THEN "dict" ELSE v.tag)
         /\ Keys!AsDict(v).keys = v.keys
         /\ Keys!AsDict(v).items = [k \in 1..Len(v.items) |-> Keys!AsDict(v.items[k])]
         /\ Keys!AsDict(v) = Keys!Node(IF v.tag \in Class THEN "dict" ELSE v.tag, v.keys,
                                       [k \in 1..Len(v.items) |-> Keys!AsDict(v.items[k])])
<1> DEFINE a == [k \in DOMAIN v.items |-> Keys!AsDict(v.items[k])]
           t == IF v.tag \in Class THEN "dict" ELSE v.tag
<1>1. Keys!AsDict(v) = Keys!Dictionary(v, a)
  BY KeysAsDictUnfold DEF IsTree
<1>2. DOMAIN v.items = 1..Len(v.items)
  BY TreeItems, PartIs
<1> HIDE DEF a
<1>3. Keys!AsDict(v) = Keys!Node(t, v.keys, a)
  BY <1>1 DEF Keys!Dictionary
<1> HIDE DEF t
<1>4. Keys!AsDict(v).tag = t /\ Keys!AsDict(v).keys = v.keys /\ Keys!AsDict(v).items = a
  BY <1>3 DEF Keys!Node
<1>5. a = [k \in 1..Len(v.items) |-> Keys!AsDict(v.items[k])]
  BY <1>2 DEF a
<1> QED BY <1>3, <1>4, <1>5 DEF t

\* What _camelize_model_dict makes of a list.
LEMMA CamelizedListIs ==
  ASSUME NEW v, IsTree(v), v.tag = "list", "list" \notin Class
  PROVE  Keys!Camelize(v)
           = Keys!Node("list", v.keys, [k \in 1..Len(v.items) |->
               IF v.items[k].tag \in Class THEN Keys!Camelize(v.items[k]) ELSE Keys!AsDict(v.items[k])])
<1> DEFINE done == [k \in DOMAIN v.items |-> Keys!Camelize(v.items[k])]
           a == [k \in 1..Len(v.items) |-> Keys!AsDict(v.items[k])]
           new == [k \in 1..Len(v.items) |->
                     IF v.items[k].tag \in Class THEN Keys!Camelize(v.items[k]) ELSE Keys!AsDict(v.items[k])]
           d == Keys!AsDict(v)
<1>1. Keys!Camelize(v) = Keys!CamelizedValue(v, done)
  BY CamelizeUnfold DEF IsTree
<1>2. DOMAIN v.items = 1..Len(v.items)
  BY TreeItems, PartIs
<1>3. d = Keys!Node("list", v.keys, a) /\ d.items = a
  BY DictionaryIs
<1> DEFINE got == [i \in DOMAIN d.items |-> IF v.items[i].tag \in Class THEN done[i] ELSE d.items[i]]
<1>4. got = new
  <2>1. DOMAIN d.items = 1..Len(v.items)
    BY <1>3
  <2>2. \A i \in 1..Len(v.items) : done[i] = Keys!Camelize(v.items[i])
    BY <1>2
  <2>3. \A i \in 1..Len(v.items) : d.items[i] = Keys!AsDict(v.items[i])
    BY <1>3
  <2> HIDE DEF d, done
  <2> QED BY <2>1, <2>2, <2>3
<1> HIDE DEF done, a, new
<1>5. Keys!CamelizedValue(v, done) = Keys!CamelizedList(v, done)
  BY Zenon DEF Keys!CamelizedValue
<1>6. Keys!CamelizedList(v, done) = [d EXCEPT !.items = got]
  BY Zenon DEF Keys!CamelizedList
<1> HIDE DEF d, got
<1>7. Keys!Camelize(v) = Keys!Node("list", v.keys, got)
  BY <1>1, <1>3, <1>5, <1>6, WithOtherItems
<1> QED BY <1>4, <1>7 DEF new

\* What _camelize_model_dict makes of a model.
LEMMA CamelizedModelIs ==
  ASSUME NEW v, IsTree(v), v.tag \in Class
  PROVE  Keys!Camelize(v)
           = Keys!Written([i \in 1..Len(v.keys) |-> Camelized[Keys!KeyAfter(v.keys[i], v.items[i])]],
                          [i \in 1..Len(v.keys) |-> Keys!Camelize(v.items[i])])
<1> DEFINE done == [k \in DOMAIN v.items |-> Keys!Camelize(v.items[k])]
           ks == [i \in DOMAIN v.keys |-> Camelized[Keys!KeyAfter(v.keys[i], v.items[i])]]
<1>1. Keys!Camelize(v) = Keys!CamelizedValue(v, done)
  BY CamelizeUnfold DEF IsTree
<1>2. Keys!CamelizedValue(v, done) = Keys!Written(ks, done)
  <2>1. v.tag # "list"
    BY ClassTags
  <2> HIDE DEF done
  <2> QED BY <2>1, Zenon DEF Keys!CamelizedValue
<1>3. DOMAIN v.items = 1..Len(v.keys) /\ DOMAIN v.keys = 1..Len(v.keys)
  <2>1. v.tag # "list"
    BY ClassTags
  <2> QED BY <2>1, TreeItems, PartIs
<1>4. /\ done = [i \in 1..Len(v.keys) |-> Keys!Camelize(v.items[i])]
      /\ ks = [i \in 1..Len(v.keys) |-> Camelized[Keys!KeyAfter(v.keys[i], v.items[i])]]
  BY <1>3
<1> HIDE DEF done, ks
<1> QED BY <1>1, <1>2, <1>4

\* All that _camelize_model_dict puts into a value is of the items.
LEMMA CamelizedItems ==
  ASSUME NEW v, IsTree(v), NEW y \in Items(Keys!Camelize(v))
  PROVE  \E x \in Items(v) : y = Keys!Camelize(x) \/ y = Keys!AsDict(x)
<1>1. \A i \in 1..Len(v.items) : v.items[i] \in Items(v)
  BY TreeItems
<1>2. CASE v.tag \in Class
  <2> DEFINE ks == [i \in 1..Len(v.keys) |-> Camelized[Keys!KeyAfter(v.keys[i], v.items[i])]]
             values == [i \in 1..Len(v.keys) |-> Keys!Camelize(v.items[i])]
             d == Keys!Written(ks, values)
  <2>1. Keys!Camelize(v) = d
    BY <1>2, CamelizedModelIs
  <2>2. Len(v.keys) \in Nat /\ Len(v.items) = Len(v.keys)
    <3>1. v.tag # "list"
      BY <1>2, ClassTags
    <3> QED BY <3>1, TreeItems, PartIs DEF IsList
  <2>3. ks = [i \in 1..Len(v.keys) |-> ks[i]]
    OBVIOUS
  <2>4. \A i \in 1..Len(v.keys) : values[i] = Keys!Camelize(v.items[i])
    OBVIOUS
  <2> HIDE DEF ks, values
  <2>5. IsList(ks) /\ Len(ks) = Len(v.keys)
    BY <2>2, <2>3, ListIs
  <2>6. IsMap(d) /\ \A i \in 1..Len(d.keys) : \E j \in 1..Len(ks) : d.items[i] = values[j]
    BY <2>5, WrittenIs
  <2> HIDE DEF d
  <2>7. DOMAIN d.items = 1..Len(d.keys)
    BY <2>6 DEF IsMap, IsList
  <2>8. PICK j \in 1..Len(v.keys) : y = values[j]
    BY <2>1, <2>5, <2>6, <2>7 DEF Items
  <2> QED BY <1>1, <2>2, <2>4, <2>8
<1>3. CASE v.tag = "list"
  <2> DEFINE new == [k \in 1..Len(v.items) |->
                       IF v.items[k].tag \in Class THEN Keys!Camelize(v.items[k]) ELSE Keys!AsDict(v.items[k])]
  <2>1. Keys!Camelize(v) = Keys!Node("list", v.keys, new)
    BY <1>3, ClassTags, CamelizedListIs
  <2>2. \A k \in DOMAIN new : /\ k \in 1..Len(v.items)
                              /\ new[k] = Keys!Camelize(v.items[k]) \/ new[k] = Keys!AsDict(v.items[k])
    OBVIOUS
  <2> HIDE DEF new
  <2>3. Keys!Camelize(v).items = new
    BY <2>1 DEF Keys!Node
  <2>4. PICK k \in DOMAIN new : y = new[k]
    BY <2>3 DEF Items
  <2> QED BY <1>1, <2>2, <2>4
<1>4. CASE v.tag \notin Class /\ v.tag # "list"
  <2> DEFINE done == [k \in DOMAIN v.items |-> Keys!Camelize(v.items[k])]
             a == [k \in 1..Len(v.items) |-> Keys!AsDict(v.items[k])]
  <2>1. Keys!Camelize(v) = Keys!CamelizedValue(v, done)
    BY CamelizeUnfold DEF IsTree
  <2> HIDE DEF done
  <2>2. Keys!Camelize(v) = Keys!AsDict(v)
    BY <1>4, <2>1 DEF Keys!CamelizedValue
  <2>3. Keys!Camelize(v).items = a
    BY <2>2, DictionaryIs
  <2>4. PICK k \in 1..Len(v.items) : y = Keys!AsDict(v.items[k])
    BY <2>3 DEF Items
  <2> QED BY <1>1, <2>4
<1> QED BY <1>2, <1>3, <1>4

\* A dictionary nests as deep as the model.
LEMMA KeepsWithin ==
  ASSUME NEW v, IsTree(v), NEW n \in Nat, n <= Depth, Within(n, v)
  PROVE  Within(n, Keys!AsDict(v)) /\ Within(n, Keys!Camelize(v))
<1> DEFINE Good == {i \in Nat : i <= Depth =>
                      \A u : IsTree(u) /\ Within(i, u)
                               => Within(i, Keys!AsDict(u)) /\ Within(i, Keys!Camelize(u))}
<1>1. 0 \in Good
  BY WithinSome
<1>2. ASSUME NEW i \in Nat, i \in Good PROVE i + 1 \in Good
  <2>1. ASSUME i + 1 <= Depth, NEW u, IsTree(u), Within(i + 1, u)
        PROVE  Within(i + 1, Keys!AsDict(u)) /\ Within(i + 1, Keys!Camelize(u))
    <3>1. i <= Depth
      BY <2>1, DepthType
    <3>2. \A x \in Items(u) : IsTree(x) /\ Within(i, x)
      BY <2>1, TreeItems, WithinItems
    <3>3. \A x \in Items(u) : Within(i, Keys!AsDict(x)) /\ Within(i, Keys!Camelize(x))
      BY <1>2, <3>1, <3>2
    <3>4. ASSUME NEW y \in Items(Keys!AsDict(u)) PROVE Within(i, y)
      <4> DEFINE a == [k \in 1..Len(u.items) |-> Keys!AsDict(u.items[k])]
      <4>1. Keys!AsDict(u).items = a
        BY <2>1, DictionaryIs
      <4>2. PICK k \in 1..Len(u.items) : y = Keys!AsDict(u.items[k])
        BY <4>1 DEF Items
      <4>3. u.items[k] \in Items(u)
        BY <2>1, TreeItems
      <4> QED BY <3>3, <4>2, <4>3
    <3>5. ASSUME NEW y \in Items(Keys!Camelize(u)) PROVE Within(i, y)
      BY <2>1, <3>3, CamelizedItems
    <3> QED BY <2>1, <3>4, <3>5, WithinItems
  <2> QED BY <2>1
<1>3. Nat \subseteq Good
  <2> HIDE DEF Good
  <2> QED BY <1>1, <1>2, Induction
<1>4. n \in Good
  <2> HIDE DEF Good
  <2> QED BY <1>3
<1> QED BY <1>4

-----------------------------------------------------------------------------
\* The reference of to_dict, node by node.
LEMMA RenamedIs ==
  ASSUME NEW v, IsTree(v)
  PROVE  Renamed(v)
           = Keys!Node(IF v.tag \in Class THEN "dict" ELSE v.tag,
                       IF v.tag \in Class THEN [i \in 1..Len(v.keys) |-> Camelized[v.keys[i]]] ELSE v.keys,
                       [k \in 1..Len(v.items) |-> Renamed(v.items[k])])
<1> DEFINE done == [k \in DOMAIN v.items |-> Renamed(v.items[k])]
           ks == [i \in DOMAIN v.keys |-> Camelized[v.keys[i]]]
<1>1. Renamed(v) = RenamedValue(v, done)
  BY RenamedUnfold DEF IsTree
<1>2. /\ DOMAIN v.items = 1..Len(v.items) /\ DOMAIN v.keys = 1..Len(v.keys)
      /\ v = Keys!Node(v.tag, v.keys, v.items)
  BY TreeItems, PartIs
<1>3. /\ done = [k \in 1..Len(v.items) |-> Renamed(v.items[k])]
      /\ ks = [i \in 1..Len(v.keys) |-> Camelized[v.keys[i]]]
  BY <1>2
<1>4. CASE v.tag \in Class
  <2>1. RenamedValue(v, done) = Keys!Node("dict", ks, done)
    BY <1>4 DEF RenamedValue
  <2> HIDE DEF done, ks
  <2> QED BY <1>1, <1>3, <1>4, <2>1
<1>5. CASE v.tag \notin Class
  <2> HIDE DEF done, ks
  <2>1. RenamedValue(v, done) = [v EXCEPT !.items = done]
    BY <1>5 DEF RenamedValue
  <2>2. [v EXCEPT !.items = done] = Keys!Node(v.tag, v.keys, done)
    BY <1>2, WithOtherItems
  <2> QED BY <1>1, <1>3, <1>5, <2>1, <2>2
<1> QED BY <1>4, <1>5

\* The name of an attribute is lost only to a dict with keys.
LEMMA NamesAreKept ==
  ASSUME NEW v, IsTree(v), v.tag \in Class, ~HasDictAttribute(v), v.tag # "list"
  PROVE  \A i \in 1..Len(v.keys) : Keys!KeyAfter(v.keys[i], v.items[i]) = v.keys[i]
<1> SUFFICES ASSUME NEW i \in 1..Len(v.keys)
             PROVE  Keys!KeyAfter(v.keys[i], v.items[i]) = v.keys[i]
  OBVIOUS
<1>1. i \in DOMAIN v.items
  BY TreeItems, PartIs
<1>2. v \in Nodes(v)
  BY NodesUnfold DEF IsTree
<1>3. ~(v.items[i].tag = "dict" /\ v.items[i].keys # << >>)
  BY <1>1, <1>2 DEF HasDictAttribute
<1> QED BY <1>3 DEF Keys!KeyAfter

\* A value with nothing in it that is no model has no models.
LEMMA ScalarIsBare ==
  ASSUME NEW v, IsTree(v), v.tag = "scalar"
  PROVE  ~HasModels(v)
<1>1. Items(v) = {}
  <2>1. DOMAIN v.items = 1..Len(v.items) /\ Len(v.items) = 0
    BY TreeItems, PartIs
  <2> QED BY <2>1 DEF Items
<1>2. v.tag \notin Class
  BY ClassTags
<1> QED BY <1>1, <1>2, HasModelsUnfold DEF IsTree

\* A model is renamed when what is in it is.
LEMMA ModelIsRenamed ==
  ASSUME NEW v, IsTree(v), v.tag \in Class,
         NamesStayApart(v), ~HasDictAttribute(v),
         \A x \in Items(v) : Keys!Camelize(x) = Renamed(x)
  PROVE  Keys!Camelize(v) = Renamed(v)
<1> DEFINE old == [i \in 1..Len(v.keys) |-> Camelized[Keys!KeyAfter(v.keys[i], v.items[i])]]
           ks == [i \in 1..Len(v.keys) |-> Camelized[v.keys[i]]]
           done == [i \in 1..Len(v.keys) |-> Keys!Camelize(v.items[i])]
           r == [i \in 1..Len(v.keys) |-> Renamed(v.items[i])]
<1>1. Keys!Camelize(v) = Keys!Written(old, done)
  BY CamelizedModelIs
<1>2. v.tag # "list"
  BY ClassTags
<1>3. /\ Len(v.keys) \in Nat /\ Len(v.items) = Len(v.keys) /\ DOMAIN v.keys = 1..Len(v.keys)
      /\ \A i \in 1..Len(v.keys) : v.keys[i] \in Name
  BY <1>2, TreeItems, PartIs DEF IsList
<1>4. old = ks
  BY <1>2, NamesAreKept
<1>5. done = r
  BY <1>3, TreeItems
<1>6. \A i, j \in 1..Len(v.keys) : Camelized[v.keys[i]] = Camelized[v.keys[j]] => i = j
  <2>1. v \in Nodes(v)
    BY NodesUnfold DEF IsTree
  <2> QED BY <1>3, <2>1 DEF NamesStayApart
<1>7. /\ ks = [i \in 1..Len(v.keys) |-> ks[i]] /\ r = [i \in 1..Len(v.keys) |-> r[i]]
      /\ \A i \in 1..Len(v.keys) : ks[i] = Camelized[v.keys[i]]
  OBVIOUS
<1>8. Renamed(v) = Keys!Node("dict", ks, r)
  <2>1. Renamed(v)
          = Keys!Node("dict", ks, [k \in 1..Len(v.items) |-> Renamed(v.items[k])])
    BY RenamedIs
  <2> QED BY <1>3, <2>1
<1> HIDE DEF old, ks, done, r
<1>9. IsList(ks) /\ Len(ks) = Len(v.keys)
  BY <1>3, <1>7, ListIs
<1>10. /\ \A i, j \in 1..Len(ks) : ks[i] = ks[j] => i = j
       /\ \A i \in 1..Len(ks) : ks[i] # NoKey
  <2>1. \A i, j \in 1..Len(v.keys) : ks[i] = ks[j] => i = j
    BY <1>6, <1>7
  <2>2. NoKey \notin Name /\ \A k \in Name : Camelized[k] \in Name
    BY ClassTags
  <2>3. \A i \in 1..Len(v.keys) : ks[i] # NoKey
    BY <1>3, <1>7, <2>2
  <2> QED BY <1>9, <2>1, <2>3
<1>11. Keys!Written(ks, r) = Keys!Node("dict", ks, r)
  BY <1>7, <1>9, <1>10, WrittenAll
<1> QED BY <1>1, <1>4, <1>5, <1>8, <1>11

\* A list is renamed when the models in it are.
LEMMA ListIsRenamed ==
  ASSUME NEW v, IsTree(v), v.tag = "list", ModelsInReach(v),
         \A x \in Items(v) : Keys!Camelize(x) = Renamed(x)
  PROVE  Keys!Camelize(v) = Renamed(v)
<1> DEFINE new == [k \in 1..Len(v.items) |->
                     IF v.items[k].tag \in Class THEN Keys!Camelize(v.items[k]) ELSE Keys!AsDict(v.items[k])]
           r == [k \in 1..Len(v.items) |-> Renamed(v.items[k])]
<1>1. Keys!Camelize(v) = Keys!Node("list", v.keys, new)
  BY ClassTags, CamelizedListIs
<1>2. Renamed(v) = Keys!Node("list", v.keys, r)
  BY ClassTags, RenamedIs
<1>3. ASSUME NEW k \in 1..Len(v.items), v.items[k].tag \notin Class
      PROVE  Keys!AsDict(v.items[k]) = Renamed(v.items[k])
  <2> DEFINE x == v.items[k]
  <2>1. x \in Items(v) /\ IsTree(x) /\ DOMAIN v.items = 1..Len(v.items)
    BY TreeItems, PartIs
  <2>2. x.tag \in {"dict", "list", "scalar"}
    BY <1>3, <2>1, TreeItems, PartIs
  <2>3. ~HasModels(x)
    <3>1. CASE x.tag = "scalar"
      BY <2>1, <3>1, ScalarIsBare
    <3>2. CASE x.tag \in {"list", "dict"}
      <4>1. v \in Nodes(v)
        BY NodesUnfold DEF IsTree
      <4> QED BY <2>1, <3>2, <4>1 DEF ModelsInReach
    <3> HIDE DEF x
    <3> QED BY <2>2, <3>1, <3>2
  <2> QED BY <2>1, <2>3, BareSame
<1>4. new = r
  <2>1. \A k \in 1..Len(v.items) : v.items[k].tag \in Class
          => Keys!Camelize(v.items[k]) = Renamed(v.items[k])
    BY TreeItems
  <2> QED BY <1>3, <2>1
<1> HIDE DEF new, r
<1> QED BY <1>1, <1>2, <1>4

\* to_dict renames every attribute, within its limits.
LEMMA CamelizedIsRenamed ==
  ASSUME NEW v, IsTree(v),
         ModelsInReach(v), NamesStayApart(v), ~HasDictAttribute(v)
  PROVE  Keys!Camelize(v) = Renamed(v)
<1> DEFINE Fine(u) == ModelsInReach(u) /\ NamesStayApart(u) /\ ~HasDictAttribute(u)
           Good == {i \in Nat : i <= Depth =>
                      \A u : IsTree(u) /\ Within(i, u) /\ Fine(u) => Keys!Camelize(u) = Renamed(u)}
<1>1. 0 \in Good
  BY WithinSome
<1>2. ASSUME NEW i \in Nat, i \in Good PROVE i + 1 \in Good
  <2>1. ASSUME i + 1 <= Depth, NEW u, IsTree(u), Within(i + 1, u), Fine(u)
        PROVE  Keys!Camelize(u) = Renamed(u)
    <3>1. i <= Depth
      BY <2>1, DepthType
    <3>2. \A x \in Items(u) : IsTree(x) /\ Within(i, x)
      BY <2>1, TreeItems, WithinItems
    <3>3. \A x \in Items(u) : Fine(x)
      BY <2>1, PartsOfItems
    <3> HIDE DEF Fine
    <3>4. \A x \in Items(u) : Keys!Camelize(x) = Renamed(x)
      BY <1>2, <3>1, <3>2, <3>3
    <3>5. CASE u.tag \in Class
      BY <2>1, <3>4, <3>5, ModelIsRenamed DEF Fine
    <3>6. CASE u.tag = "list"
      BY <2>1, <3>4, <3>6, ListIsRenamed DEF Fine
    <3>7. CASE u.tag \notin Class /\ u.tag # "list"
      <4> DEFINE done == [k \in DOMAIN u.items |-> Keys!Camelize(u.items[k])]
      <4>1. Shallow(u)
        BY <2>1 DEF IsTree
      <4>2. Keys!Camelize(u) = Keys!CamelizedValue(u, done)
        BY <4>1, CamelizeUnfold
      <4> HIDE DEF done
      <4>3. Keys!Camelize(u) = Keys!AsDict(u)
        BY <3>7, <4>2 DEF Keys!CamelizedValue
      <4>4. ~HasModels(u)
        <5>1. CASE u.tag = "scalar"
          BY <2>1, <5>1, ScalarIsBare
        <5>2. CASE u.tag = "dict"
          <6>1. u \in Nodes(u)
            BY <4>1, NodesUnfold
          <6>2. \A x \in Items(u) : ~HasModels(x)
            BY <2>1, <5>2, <6>1 DEF Fine, Items, ModelsInReach
          <6> QED BY <3>7, <4>1, <6>2, HasModelsUnfold
        <5>3. u.tag \in Class \cup {"dict", "list", "scalar"}
          BY <2>1, TreeItems, PartIs
        <5> QED BY <3>7, <5>1, <5>2, <5>3
      <4> QED BY <2>1, <4>3, <4>4, BareSame
    <3> QED BY <3>5, <3>6, <3>7
  <2> HIDE DEF Fine
  <2> QED BY <2>1
<1>3. Nat \subseteq Good
  <2> HIDE DEF Good
  <2> QED BY <1>1, <1>2, Induction
<1>4. Depth \in Good /\ Depth <= Depth
  <2> HIDE DEF Good
  <2> QED BY <1>3, DepthType
<1>5. Within(Depth, v) /\ Fine(v)
  BY DEF IsTree, Shallow
<1> HIDE DEF Fine
<1> QED BY <1>4, <1>5

-----------------------------------------------------------------------------
\* Annotated models are attributes of models: other data has none.
LEMMA BareBelow ==
  ASSUME NEW v, IsTree(v), ModelsAreAnnotated(v), v.tag \notin Class
  PROVE  ~HasModels(v)
<1> DEFINE Good == {i \in Nat : i <= Depth =>
                      \A u : IsTree(u) /\ Within(i, u) /\ ModelsAreAnnotated(u) /\ u.tag \notin Class
                               => ~HasModels(u)}
<1>1. 0 \in Good
  BY WithinSome
<1>2. ASSUME NEW i \in Nat, i \in Good PROVE i + 1 \in Good
  <2>1. ASSUME i + 1 <= Depth, NEW u, IsTree(u), Within(i + 1, u),
               ModelsAreAnnotated(u), u.tag \notin Class
        PROVE  ~HasModels(u)
    <3>1. i <= Depth /\ Shallow(u)
      BY <2>1, DepthType DEF IsTree
    <3>2. u \in Nodes(u)
      BY <3>1, NodesUnfold
    <3>3. \A x \in Items(u) : x.tag \notin Class
      <4>1. \A k \in DOMAIN u.items : u.items[k].tag \in Class => "other" = u.items[k].tag
        BY <2>1, <3>2 DEF ModelsAreAnnotated, AnnotationAt
      <4> QED BY <4>1, ClassTags DEF Items
    <3>4. \A x \in Items(u) : IsTree(x) /\ Within(i, x) /\ ModelsAreAnnotated(x)
      BY <2>1, TreeItems, WithinItems, PartsOfItems
    <3>5. \A x \in Items(u) : ~HasModels(x)
      BY <1>2, <3>1, <3>3, <3>4
    <3> QED BY <2>1, <3>1, <3>5, HasModelsUnfold
  <2> QED BY <2>1
<1>3. Nat \subseteq Good
  <2> HIDE DEF Good
  <2> QED BY <1>1, <1>2, Induction
<1>4. Depth \in Good /\ Depth <= Depth
  <2> HIDE DEF Good
  <2> QED BY <1>3, DepthType
<1> QED BY <1>4 DEF IsTree, Shallow

\* Annotated models are where to_dict finds them.
LEMMA AnnotatedInReach ==
  ASSUME NEW v, IsTree(v), ModelsAreAnnotated(v)
  PROVE  ModelsInReach(v)
<1> DEFINE Reach(u) ==
             \A i \in DOMAIN u.items :
               u.tag = "dict" \/ (u.tag = "list" /\ u.items[i].tag \in {"list", "dict"})
                 => ~HasModels(u.items[i])
           Good == {i \in Nat : i <= Depth =>
                      \A u : IsTree(u) /\ Within(i, u) /\ ModelsAreAnnotated(u)
                               => \A y \in Nodes(u) : Reach(y)}
<1>1. 0 \in Good
  BY WithinSome
<1>2. ASSUME NEW i \in Nat, i \in Good PROVE i + 1 \in Good
  <2>1. ASSUME i + 1 <= Depth, NEW u, IsTree(u), Within(i + 1, u), ModelsAreAnnotated(u),
               NEW y \in Nodes(u)
        PROVE  Reach(y)
    <3>1. i <= Depth /\ Shallow(u)
      BY <2>1, DepthType DEF IsTree
    <3>2. CASE y = u
      <4>1. u.tag \notin Class => \A x \in Items(u) : ~HasModels(x)
        BY <2>1, <3>1, BareBelow, HasModelsUnfold
      <4> QED BY <3>2, <4>1, ClassTags DEF Items
    <3>3. ASSUME NEW x \in Items(u), y \in Nodes(x) PROVE Reach(y)
      <4>1. IsTree(x) /\ Within(i, x) /\ ModelsAreAnnotated(x)
        BY <2>1, TreeItems, WithinItems, PartsOfItems
      <4> HIDE DEF Reach
      <4> QED BY <1>2, <3>1, <3>3, <4>1
    <3> HIDE DEF Reach
    <3> QED BY <2>1, <3>1, <3>2, <3>3, NodesUnfold
  <2> HIDE DEF Reach
  <2> QED BY <2>1
<1>3. Nat \subseteq Good
  <2> HIDE DEF Good
  <2> QED BY <1>1, <1>2, Induction
<1>4. Depth \in Good /\ Depth <= Depth
  <2> HIDE DEF Good
  <2> QED BY <1>3, DepthType
<1>5. \A y \in Nodes(v) : Reach(y)
  <2> HIDE DEF Reach
  <2> QED BY <1>4 DEF IsTree, Shallow
<1> QED BY <1>5 DEF ModelsInReach

\* Names that come back are not made one.
LEMMA ComingBackApart ==
  ASSUME NEW v, IsTree(v), NamesComeBack(v)
  PROVE  NamesStayApart(v)
<1> SUFFICES ASSUME NEW u \in Nodes(v), u.tag \in Class,
                    NEW i \in DOMAIN u.keys, NEW j \in DOMAIN u.keys,
                    Camelized[u.keys[i]] = Camelized[u.keys[j]]
             PROVE  i = j
  BY DEF NamesStayApart
<1>1. Decamelized[Camelized[u.keys[i]]] = u.keys[i] /\ Decamelized[Camelized[u.keys[j]]] = u.keys[j]
  BY DEF NamesComeBack
<1>2. IsNode(u)
  BY DEF IsTree
<1> QED BY <1>1, <1>2 DEF IsNode

-----------------------------------------------------------------------------
\* Where the keys of d are attributes of class c, what they are read as, and
\* their values.
KnownAt(d, c) == {i \in 1..Len(d.keys) : Decamelized[d.keys[i]] \in DOMAIN Annotation[c]}

NamesRead(d, c) ==
  [i \in 1..Len(d.keys) |-> IF i \in KnownAt(d, c) THEN Decamelized[d.keys[i]] ELSE NoKey]

ValueRead(d, c, i) ==
  LET annotation == Annotation[c][Decamelized[d.keys[i]]]
  IN IF annotation \in Class THEN ReadAs(d.items[i])[annotation] ELSE d.items[i]

ValuesRead(d, c) == [i \in KnownAt(d, c) |-> ValueRead(d, c, i)]

\* What _decamelize_model_dict makes of a dictionary.
LEMMA ReadIs ==
  ASSUME NEW d, IsMap(d), Shallow(d), NEW c \in Class
  PROVE  ReadAs(d)[c] = IF \E i \in KnownAt(d, c) : ValueRead(d, c, i) = Keys!Raise THEN Keys!Raise
                        ELSE Keys!Written(NamesRead(d, c), ValuesRead(d, c))
<1> DEFINE done == [k \in DOMAIN d.items |-> ReadAs(d.items[k])]
           Key(i) == Decamelized[d.keys[i]]
           known == {i \in DOMAIN d.keys : Key(i) \in DOMAIN Annotation[c]}
           values == [i \in known |-> Keys!DecamelizedValue(d.items[i], done[i], Annotation[c][Key(i)])]
           ks == [i \in DOMAIN d.keys |-> IF i \in known THEN Key(i) ELSE NoKey]
<1>1. ReadAs(d)[c] = IF d.tag # "dict" \/ \E i \in known : values[i] = Keys!Raise THEN Keys!Raise
                     ELSE Keys!Written(ks, values)
  <2>1. ReadAs(d) = Keys!DecamelizedAs(d, done)
    BY ReadAsUnfold
  <2> HIDE DEF done
  <2> QED BY <2>1 DEF Keys!DecamelizedAs
<1>2. d.tag = "dict" /\ DOMAIN d.keys = 1..Len(d.keys) /\ DOMAIN d.items = 1..Len(d.keys)
  <2>1. d.tag = "dict"
    BY DEF IsMap, Keys!Node
  <2> QED BY <2>1 DEF IsMap, IsList
<1>3. known = KnownAt(d, c)
  BY <1>2 DEF KnownAt
<1>4. ks = NamesRead(d, c)
  <2> HIDE DEF known
  <2> QED BY <1>2, <1>3 DEF NamesRead
<1>5. ASSUME NEW i \in known PROVE values[i] = ValueRead(d, c, i)
  <2>1. i \in DOMAIN d.items
    BY <1>2
  <2>2. done[i] = ReadAs(d.items[i])
    BY <2>1
  <2>3. values[i] = Keys!DecamelizedValue(d.items[i], done[i], Annotation[c][Key(i)])
    <3> HIDE DEF done
    <3> QED OBVIOUS
  <2> HIDE DEF done, known, values
  <2> QED BY <2>2, <2>3 DEF Keys!DecamelizedValue, ValueRead
<1>6. values = ValuesRead(d, c)
  <2>1. DOMAIN values = known /\ values = [i \in known |-> values[i]]
    OBVIOUS
  <2> HIDE DEF values, known
  <2> QED BY <1>3, <1>5, <2>1 DEF ValuesRead
<1> HIDE DEF known, values, ks
<1> QED BY <1>1, <1>2, <1>3, <1>4, <1>5, <1>6

-----------------------------------------------------------------------------
\* What both ends need to find the models and the names.
Returns(v) ==
  /\ AttributesAreOwn(v) /\ ModelsAreAnnotated(v)
  /\ NamesComeBack(v) /\ ~HasDictAttribute(v)

\* What returns is renamed on its way.
LEMMA ReturnsRenamed ==
  ASSUME NEW v, IsTree(v), Returns(v)
  PROVE  /\ Keys!Camelize(v) = Renamed(v)
         /\ Shallow(Renamed(v))
         /\ \A x \in Items(v) : Returns(x)
<1>1. Keys!Camelize(v) = Renamed(v)
  BY CamelizedIsRenamed, AnnotatedInReach, ComingBackApart DEF Returns
<1>2. Within(Depth, Keys!Camelize(v))
  <2>1. Depth \in Nat /\ Depth <= Depth /\ Within(Depth, v)
    BY DepthType DEF IsTree, Shallow
  <2> QED BY <2>1, KeepsWithin
<1>3. \A x \in Items(v) : Returns(x)
  BY PartsOfItems DEF Returns
<1> QED BY <1>1, <1>2, <1>3 DEF Shallow

\* The value of an attribute comes back when the models in it do.
LEMMA ValueComesBack ==
  ASSUME NEW v, IsTree(v), v.tag \in Class, Returns(v),
         \A x \in Items(v) : x.tag \in Class => ReadAs(Renamed(x))[x.tag] = Keys!AsDict(x),
         NEW i \in 1..Len(v.keys), i \in 1..Len(v.items),
         NEW w, w.items[i] = Renamed(v.items[i]), Decamelized[w.keys[i]] = v.keys[i]
  PROVE  ValueRead(w, v.tag, i) = Keys!AsDict(v.items[i]) /\ Keys!AsDict(v.items[i]) # Keys!Raise
<1> DEFINE x == v.items[i]
           annotation == Annotation[v.tag][v.keys[i]]
<1>1. x \in Items(v) /\ IsTree(x) /\ DOMAIN v.items = 1..Len(v.items)
  BY TreeItems, PartIs
<1>2. annotation \in Class \/ x.tag \in Class => annotation = x.tag
  <2>1. v \in Nodes(v)
    BY NodesUnfold DEF IsTree
  <2>2. v.keys[i] \in DOMAIN Annotation[v.tag]
    BY <2>1, TreeItems, PartIs DEF Returns, AttributesAreOwn
  <2>3. AnnotationAt(v, i) = annotation
    BY <2>2 DEF AnnotationAt
  <2>4. AnnotationAt(v, i) \in Class \/ x.tag \in Class => AnnotationAt(v, i) = x.tag
    BY <1>1, <2>1 DEF Returns, ModelsAreAnnotated
  <2> QED BY <2>3, <2>4
<1>3. Keys!AsDict(x) # Keys!Raise
  <2>1. x.tag \in Class \cup {"dict", "list", "scalar"}
    BY <1>1, TreeItems, PartIs
  <2>2. Keys!AsDict(x).tag = (IF x.tag \in Class THEN "dict" ELSE x.tag)
    BY <1>1, DictionaryIs
  <2>3. Keys!Raise.tag = "exception"
    BY DEF Keys!Raise, Keys!Node
  <2> QED BY <2>1, <2>2, <2>3
<1>4. CASE annotation \in Class
  <2>1. ValueRead(w, v.tag, i) = ReadAs(Renamed(x))[annotation]
    BY <1>4 DEF ValueRead
  <2> HIDE DEF x, annotation
  <2>2. ReadAs(Renamed(x))[x.tag] = Keys!AsDict(x)
    BY <1>1, <1>2, <1>4
  <2>3. ValueRead(w, v.tag, i) = Keys!AsDict(x)
    BY <1>2, <1>4, <2>1, <2>2
  <2> QED BY <1>3, <2>3 DEF x
<1>5. CASE annotation \notin Class
  <2>1. ValueRead(w, v.tag, i) = Renamed(x)
    BY <1>5 DEF ValueRead
  <2>2. x.tag \notin Class
    BY <1>2, <1>5
  <2>3. ModelsAreAnnotated(x)
    BY <1>1, ReturnsRenamed DEF Returns
  <2>4. Renamed(x) = Keys!AsDict(x)
    BY <1>1, <2>2, <2>3, BareBelow, BareSame
  <2> QED BY <1>3, <2>1, <2>4
<1> QED BY <1>4, <1>5

\* A model comes back when the models in it do.
LEMMA ModelComesBack ==
  ASSUME NEW v, IsTree(v), v.tag \in Class, Returns(v),
         \A x \in Items(v) : x.tag \in Class => ReadAs(Renamed(x))[x.tag] = Keys!AsDict(x)
  PROVE  ReadAs(Renamed(v))[v.tag] = Keys!AsDict(v)
<1> DEFINE c == v.tag
           n == Len(v.keys)
           w == Renamed(v)
           ks == [i \in 1..n |-> Camelized[v.keys[i]]]
           r == [i \in 1..n |-> Renamed(v.items[i])]
           a == [i \in 1..n |-> Keys!AsDict(v.items[i])]
<1>1. c # "list"
  BY ClassTags
<1>2. /\ n \in Nat /\ Len(v.items) = n /\ IsList(v.keys)
      /\ \A i \in 1..n : v.keys[i] \in Name
      /\ \A i, j \in 1..n : v.keys[i] = v.keys[j] => i = j
      /\ \A i \in 1..n : v.keys[i] \in DOMAIN Annotation[c]
  <2>1. v \in Nodes(v) /\ DOMAIN v.keys = 1..n
    BY TreeItems, PartIs, NodesUnfold DEF IsTree
  <2>2. \A i \in 1..n : v.keys[i] \in DOMAIN Annotation[c]
    BY <2>1 DEF Returns, AttributesAreOwn
  <2> QED BY <1>1, <2>2, TreeItems, PartIs DEF IsList
<1>3. w = Keys!Node("dict", ks, r)
  <2>1. w = Keys!Node("dict", ks, [k \in 1..Len(v.items) |-> Renamed(v.items[k])])
    BY RenamedIs
  <2> QED BY <1>2, <2>1
<1>4. Keys!AsDict(v) = Keys!Node("dict", v.keys, a)
  <2>1. Keys!AsDict(v) = Keys!Node("dict", v.keys, [k \in 1..Len(v.items) |-> Keys!AsDict(v.items[k])])
    BY DictionaryIs
  <2> QED BY <1>2, <2>1
<1>5. /\ ks = [i \in 1..n |-> ks[i]] /\ r = [i \in 1..n |-> r[i]] /\ a = [i \in 1..n |-> a[i]]
      /\ \A i \in 1..n : /\ ks[i] = Camelized[v.keys[i]]
                         /\ r[i] = Renamed(v.items[i])
                         /\ a[i] = Keys!AsDict(v.items[i])
  OBVIOUS
<1>6. \A i \in 1..n : Decamelized[Camelized[v.keys[i]]] = v.keys[i]
  <2>1. v \in Nodes(v)
    BY NodesUnfold DEF IsTree
  <2>2. DOMAIN v.keys = 1..n
    BY TreeItems, PartIs
  <2> QED BY <2>1, <2>2 DEF Returns, NamesComeBack
<1>7. Shallow(w)
  BY ReturnsRenamed
<1> HIDE DEF w, ks, r, a, n, c
<1>8. w.keys = ks /\ w.items = r /\ IsList(ks) /\ Len(ks) = n /\ IsList(r) /\ Len(r) = n
  <2>1. w.keys = ks /\ w.items = r
    BY <1>3 DEF Keys!Node
  <2>2. IsList(ks) /\ Len(ks) = n /\ IsList(r) /\ Len(r) = n
    BY <1>2, <1>5, ListIs
  <2> QED BY <2>1, <2>2
<1>9. IsMap(w)
  BY <1>3, <1>8 DEF IsMap
<1>10. \A i \in 1..n : Decamelized[w.keys[i]] = v.keys[i]
  BY <1>5, <1>6, <1>8
<1>11. KnownAt(w, c) = 1..n
  BY <1>2, <1>8, <1>10 DEF KnownAt
<1>12. NamesRead(w, c) = v.keys
  <2>1. NamesRead(w, c) = [i \in 1..n |-> v.keys[i]]
    BY <1>8, <1>10, <1>11 DEF NamesRead
  <2> QED BY <1>2, <2>1 DEF IsList, n
<1>13. \A i \in 1..n : ValueRead(w, c, i) = a[i] /\ a[i] # Keys!Raise
  <2> SUFFICES ASSUME NEW i \in 1..n PROVE ValueRead(w, c, i) = a[i] /\ a[i] # Keys!Raise
    OBVIOUS
  <2>1. w.items[i] = Renamed(v.items[i]) /\ Decamelized[w.keys[i]] = v.keys[i]
    BY <1>5, <1>8, <1>10
  <2>2. i \in 1..Len(v.keys) /\ i \in 1..Len(v.items)
    BY <1>2 DEF n
  <2>3. ValueRead(w, v.tag, i) = Keys!AsDict(v.items[i]) /\ Keys!AsDict(v.items[i]) # Keys!Raise
    BY <2>1, <2>2, ValueComesBack
  <2> QED BY <1>5, <2>3 DEF c
<1>14. ValuesRead(w, c) = a
  <2>1. ValuesRead(w, c) = [i \in 1..n |-> a[i]]
    BY <1>11, <1>13 DEF ValuesRead
  <2> QED BY <1>5, <2>1
<1>15. ReadAs(w)[c] = Keys!Written(v.keys, a)
  <2>1. c \in Class
    BY DEF c
  <2>2. ReadAs(w)[c] = IF \E i \in KnownAt(w, c) : ValueRead(w, c, i) = Keys!Raise THEN Keys!Raise
                       ELSE Keys!Written(NamesRead(w, c), ValuesRead(w, c))
    BY <1>7, <1>9, <2>1, ReadIs
  <2>3. ~\E i \in KnownAt(w, c) : ValueRead(w, c, i) = Keys!Raise
    BY <1>11, <1>13
  <2> QED BY <1>12, <1>14, <2>2, <2>3
<1>16. Keys!Written(v.keys, a) = Keys!Node("dict", v.keys, a)
  <2>1. \A i \in 1..n : v.keys[i] # NoKey
    BY <1>2, ClassTags
  <2> QED BY <1>2, <1>5, <2>1, WrittenAll DEF n
<1> QED BY <1>4, <1>15, <1>16 DEF w, c

\* A model that returns comes back as it was, however deep.
LEMMA RenamedComesBack ==
  ASSUME NEW v, IsTree(v), v.tag \in Class, Returns(v)
  PROVE  ReadAs(Renamed(v))[v.tag] = Keys!AsDict(v)
<1> DEFINE Good == {i \in Nat : i <= Depth =>
                      \A u : IsTree(u) /\ Within(i, u) /\ u.tag \in Class /\ Returns(u)
                               => ReadAs(Renamed(u))[u.tag] = Keys!AsDict(u)}
<1>1. 0 \in Good
  BY WithinSome
<1>2. ASSUME NEW i \in Nat, i \in Good PROVE i + 1 \in Good
  <2>1. ASSUME i + 1 <= Depth, NEW u, IsTree(u), Within(i + 1, u), u.tag \in Class, Returns(u)
        PROVE  ReadAs(Renamed(u))[u.tag] = Keys!AsDict(u)
    <3>1. i <= Depth
      BY <2>1, DepthType
    <3>2. \A x \in Items(u) : IsTree(x) /\ Within(i, x)
      BY <2>1, TreeItems, WithinItems
    <3>3. \A x \in Items(u) : Returns(x)
      BY <2>1, ReturnsRenamed
    <3>4. \A x \in Items(u) : x.tag \in Class => ReadAs(Renamed(x))[x.tag] = Keys!AsDict(x)
      BY <1>2, <3>1, <3>2, <3>3
    <3> QED BY <2>1, <3>4, ModelComesBack
  <2> QED BY <2>1
<1>3. Nat \subseteq Good
  <2> HIDE DEF Good
  <2> QED BY <1>1, <1>2, Induction
<1>4. Depth \in Good /\ Depth <= Depth
  <2> HIDE DEF Good
  <2> QED BY <1>3, DepthType
<1> QED BY <1>4 DEF IsTree, Shallow

-----------------------------------------------------------------------------
\* An assignment changes the value of its key only, and adds no other key.
LEMMA PutKeeps ==
  ASSUME NEW d, IsMap(d), NEW k, NEW v
  PROVE  /\ Len(d.keys) <= Len(Keys!Put(d, k, v).keys)
         /\ \A i \in 1..Len(d.keys) :
              /\ Keys!Put(d, k, v).keys[i] = d.keys[i]
              /\ d.keys[i] # k => Keys!Put(d, k, v).items[i] = d.items[i]
         /\ \A i \in 1..Len(Keys!Put(d, k, v).keys) :
              i > Len(d.keys) => Keys!Put(d, k, v).keys[i] = k
<1> DEFINE p == Keys!Put(d, k, v)
<1>1. IsList(d.keys) /\ IsList(d.items) /\ Len(d.items) = Len(d.keys) /\ Len(d.keys) \in Nat
  BY DEF IsMap, IsList
<1>2. CASE \E i \in 1..Len(d.keys) : d.keys[i] = k
  <2> DEFINE t == [i \in 1..Len(d.keys) |-> IF d.keys[i] = k THEN v ELSE d.items[i]]
  <2>1. p = Keys!Node("dict", d.keys, t)
    BY <1>2, PutOver
  <2>2. \A i \in 1..Len(d.keys) : d.keys[i] # k => t[i] = d.items[i]
    OBVIOUS
  <2> HIDE DEF p, t
  <2>3. p.keys = d.keys /\ p.items = t
    BY <2>1 DEF Keys!Node
  <2>4. /\ Len(d.keys) <= Len(p.keys)
        /\ \A i \in 1..Len(d.keys) : p.keys[i] = d.keys[i] /\ (d.keys[i] # k => p.items[i] = d.items[i])
        /\ \A i \in 1..Len(p.keys) : i > Len(d.keys) => p.keys[i] = k
    BY <1>1, <2>2, <2>3
  <2> QED BY <2>4 DEF p
<1>3. CASE \A i \in 1..Len(d.keys) : d.keys[i] # k
  <2> DEFINE s == Append(d.keys, k)
             t == Append(d.items, v)
  <2>1. p = Keys!Node("dict", s, t)
    BY <1>3, PutNew, Zenon
  <2>2. /\ Len(s) = Len(d.keys) + 1 /\ s[Len(d.keys) + 1] = k
        /\ \A i \in 1..Len(d.keys) : s[i] = d.keys[i]
    BY <1>1, AppendIs
  <2>3. \A i \in 1..Len(d.keys) : t[i] = d.items[i]
    BY <1>1, AppendIs
  <2> HIDE DEF p, s, t
  <2>4. p.keys = s /\ p.items = t
    BY <2>1 DEF Keys!Node
  <2>5. \A i \in 1..Len(p.keys) : i > Len(d.keys) => i = Len(d.keys) + 1
    BY <1>1, <2>2, <2>4
  <2>6. /\ Len(d.keys) <= Len(p.keys)
        /\ \A i \in 1..Len(d.keys) : p.keys[i] = d.keys[i] /\ (d.keys[i] # k => p.items[i] = d.items[i])
        /\ \A i \in 1..Len(p.keys) : i > Len(d.keys) => p.keys[i] = k
    BY <1>1, <2>2, <2>3, <2>4, <2>5
  <2> QED BY <2>6 DEF p
<1> QED BY <1>2, <1>3

\* A key that is no attribute of the class makes no difference to the reader.
LEMMA UnknownSkipped ==
  ASSUME NEW d, IsMap(d), Shallow(d), NEW k, NEW v, Shallow(Keys!Put(d, k, v)),
         NEW c \in Class, Decamelized[k] \notin DOMAIN Annotation[c]
  PROVE  ReadAs(Keys!Put(d, k, v))[c] = ReadAs(d)[c]
<1> DEFINE p == Keys!Put(d, k, v)
<1>1. IsMap(p)
  BY PutIs
<1>2. /\ Len(d.keys) <= Len(p.keys)
      /\ \A i \in 1..Len(d.keys) : p.keys[i] = d.keys[i] /\ (d.keys[i] # k => p.items[i] = d.items[i])
      /\ \A i \in 1..Len(p.keys) : i > Len(d.keys) => p.keys[i] = k
  BY PutKeeps
<1>3. Shallow(p)
  OBVIOUS
<1> HIDE DEF p
<1>4. Len(d.keys) \in Nat /\ Len(p.keys) \in Nat
  BY <1>1 DEF IsMap, IsList
<1>5. ASSUME NEW i \in KnownAt(d, c)
      PROVE  i \in KnownAt(p, c) /\ ValueRead(p, c, i) = ValueRead(d, c, i)
  <2>1. i \in 1..Len(d.keys) /\ Decamelized[d.keys[i]] \in DOMAIN Annotation[c]
    BY DEF KnownAt
  <2>2. i \in 1..Len(p.keys) /\ d.keys[i] # k
    BY <1>2, <1>4, <2>1
  <2>3. p.keys[i] = d.keys[i] /\ p.items[i] = d.items[i]
    BY <1>2, <2>1, <2>2
  <2> QED BY <2>1, <2>2, <2>3 DEF KnownAt, ValueRead
<1>6. ASSUME NEW i \in KnownAt(p, c) PROVE i \in KnownAt(d, c)
  <2>1. i \in 1..Len(p.keys) /\ Decamelized[p.keys[i]] \in DOMAIN Annotation[c]
    BY DEF KnownAt
  <2>2. i \in 1..Len(d.keys)
    BY <1>2, <1>4, <2>1
  <2> QED BY <1>2, <2>1, <2>2 DEF KnownAt
<1>7. KnownAt(p, c) = KnownAt(d, c)
  BY <1>5, <1>6
<1>8. (\E i \in KnownAt(p, c) : ValueRead(p, c, i) = Keys!Raise)
        <=> \E i \in KnownAt(d, c) : ValueRead(d, c, i) = Keys!Raise
  BY <1>5, <1>7
<1> DEFINE keys == NamesRead(d, c)
           more == NamesRead(p, c)
           values == ValuesRead(d, c)
           others == ValuesRead(p, c)
<1>9. /\ keys = [i \in 1..Len(d.keys) |-> keys[i]] /\ more = [i \in 1..Len(p.keys) |-> more[i]]
      /\ \A i \in 1..Len(d.keys) :
           keys[i] = IF i \in KnownAt(d, c) THEN Decamelized[d.keys[i]] ELSE NoKey
      /\ \A i \in 1..Len(p.keys) :
           more[i] = IF i \in KnownAt(p, c) THEN Decamelized[p.keys[i]] ELSE NoKey
  BY DEF NamesRead
<1>10. /\ \A i \in KnownAt(d, c) : values[i] = ValueRead(d, c, i)
       /\ \A i \in KnownAt(p, c) : others[i] = ValueRead(p, c, i)
  BY DEF ValuesRead
<1> HIDE DEF keys, more, values, others
<1>11. IsList(keys) /\ Len(keys) = Len(d.keys) /\ IsList(more) /\ Len(more) = Len(p.keys)
  BY <1>4, <1>9, ListIs
<1>12. \A i \in 1..Len(keys) : more[i] = keys[i] /\ (keys[i] # NoKey => others[i] = values[i])
  <2> SUFFICES ASSUME NEW i \in 1..Len(d.keys)
               PROVE  more[i] = keys[i] /\ (keys[i] # NoKey => others[i] = values[i])
    BY <1>11
  <2>1. i \in 1..Len(p.keys) /\ p.keys[i] = d.keys[i]
    BY <1>2, <1>4
  <2>2. more[i] = keys[i]
    BY <1>7, <1>9, <2>1
  <2>3. keys[i] # NoKey => i \in KnownAt(d, c)
    BY <1>9
  <2> QED BY <1>5, <1>10, <2>2, <2>3
<1>13. \A i \in 1..Len(more) : i > Len(keys) => more[i] = NoKey
  <2> SUFFICES ASSUME NEW i \in 1..Len(p.keys), i > Len(d.keys) PROVE more[i] = NoKey
    BY <1>11
  <2>1. i \notin KnownAt(p, c)
    BY <1>4, <1>7 DEF KnownAt
  <2> QED BY <1>9, <2>1
<1>14. Keys!Written(more, others) = Keys!Written(keys, values)
  BY <1>2, <1>11, <1>12, <1>13, WrittenSame
<1>15. ReadAs(p)[c] = IF \E i \in KnownAt(p, c) : ValueRead(p, c, i) = Keys!Raise THEN Keys!Raise
                      ELSE Keys!Written(more, others)
  BY <1>1, <1>3, ReadIs DEF more, others
<1>16. ReadAs(d)[c] = IF \E i \in KnownAt(d, c) : ValueRead(d, c, i) = Keys!Raise THEN Keys!Raise
                      ELSE Keys!Written(keys, values)
  BY ReadIs DEF keys, values
<1> QED BY <1>8, <1>14, <1>15, <1>16 DEF p

-----------------------------------------------------------------------------
\* The models sent are models of what ModelAssumption says.
LEMMA ObjectIs ==
  ASSUME NEW v \in Objects
  PROVE  v.tag \in Class /\ IsTree(v) /\ Within(Depth - 1, v)
<1>1. v.tag \in Class /\ Within(Depth - 1, v)
  BY ModelAssumption DEF Within
<1>2. Shallow(v)
  BY <1>1, DepthType, WithinMore DEF Shallow
<1>3. \A u \in Nodes(v) : IsNode(u)
  BY ModelAssumption
<1> QED BY <1>1, <1>2, <1>3 DEF IsTree

\* The invariant: whatever keys other programs added, the message is read as
\* the one that to_dict gave.
KeysInv ==
  /\ instance \in Objects
  /\ wire # Keys!Nothing =>
       /\ IsMap(wire) /\ Shallow(wire)
       /\ wire = Keys!Camelize(instance) \/ \E i \in 1..Len(wire.keys) : wire.keys[i] \in Unknown
       /\ ReadAs(wire)[instance.tag] = ReadAs(Keys!Camelize(instance))[instance.tag]
  /\ arguments # Keys!Nothing =>
       wire # Keys!Nothing /\ arguments = ReadAs(wire)[instance.tag]

\* What to_dict gives is a dictionary.
LEMMA SentIs ==
  ASSUME NEW v \in Objects
  PROVE  IsMap(Keys!Camelize(v)) /\ Shallow(Keys!Camelize(v))
<1>1. v.tag \in Class /\ IsTree(v)
  BY ObjectIs
<1> DEFINE ks == [i \in 1..Len(v.keys) |-> Camelized[Keys!KeyAfter(v.keys[i], v.items[i])]]
           values == [i \in 1..Len(v.keys) |-> Keys!Camelize(v.items[i])]
<1>2. Keys!Camelize(v) = Keys!Written(ks, values)
  BY <1>1, CamelizedModelIs
<1>3. Len(v.keys) \in Nat /\ ks = [i \in 1..Len(v.keys) |-> ks[i]]
  BY <1>1, TreeItems, PartIs DEF IsList
<1> HIDE DEF ks, values
<1>4. IsMap(Keys!Camelize(v))
  BY <1>2, <1>3, ListIs, WrittenIs
<1>5. Depth \in Nat /\ Depth <= Depth /\ Within(Depth, v)
  BY <1>1, DepthType DEF IsTree, Shallow
<1>6. Shallow(Keys!Camelize(v))
  BY <1>1, <1>5, KeepsWithin DEF Shallow
<1> QED BY <1>4, <1>6

\* An added key does not make a message deeper than a model may be.
LEMMA AddedIsShallow ==
  ASSUME NEW m \in Objects, NEW d, IsMap(d), Shallow(d), NEW k
  PROVE  Shallow(Keys!Put(d, k, Keys!Scalar))
<1> DEFINE s == Keys!Scalar
           p == Keys!Put(d, k, s)
<1>1. Depth - 1 \in Nat /\ (Depth - 1) + 1 = Depth /\ Depth - 1 # 0
  <2>1. Within(Depth - 1, m)
    BY ObjectIs
  <2> QED BY <2>1, DepthType, WithinSome
<1>2. Within(Depth - 1, s)
  <2>1. Items(s) = {}
    BY DEF Items, Keys!Scalar, Keys!Node
  <2>2. Within(0 + 1, s)
    <3> HIDE DEF s
    <3>1. 0 \in Nat /\ 0 + 1 <= Depth
      BY <1>1
    <3> QED BY <2>1, <3>1, WithinItems
  <2>3. 1 \in Nat /\ 1 <= Depth - 1 /\ Depth - 1 <= Depth /\ 0 + 1 = 1
    BY <1>1
  <2> HIDE DEF s
  <2>4. Within(1, s)
    BY <2>2, <2>3
  <2> QED BY <1>1, <2>3, <2>4, WithinMore
<1>3. \A x \in Items(d) : Within(Depth - 1, x)
  BY NodesUnfold
<1> HIDE DEF s
<1>4. /\ IsMap(p)
      /\ \A i \in 1..Len(p.keys) : p.items[i] = s \/ \E j \in 1..Len(d.keys) : p.items[i] = d.items[j]
  BY PutIs
<1>5. \A j \in 1..Len(d.keys) : d.items[j] \in Items(d)
  BY DEF Items, IsMap, IsList
<1> HIDE DEF p
<1>6. DOMAIN p.items = 1..Len(p.keys)
  BY <1>4 DEF IsMap, IsList
<1>7. \A x \in Items(p) : Within(Depth - 1, x)
  BY <1>2, <1>3, <1>4, <1>5, <1>6 DEF Items
<1>8. Within((Depth - 1) + 1, p)
  BY <1>1, <1>7, WithinItems
<1> QED BY <1>1, <1>8 DEF Shallow, p, s

\* KeysInv holds in all states.
LEMMA KeysInvariance == KeysSpec => []KeysInv
<1>1. Keys!Init => KeysInv
  BY DEF Keys!Init, KeysInv
<1>2. KeysInv /\ [Keys!Next]_(Keys!vars) => KeysInv'
  <2> SUFFICES ASSUME KeysInv, [Keys!Next]_(Keys!vars) PROVE KeysInv'
    OBVIOUS
  <2>1. CASE Keys!ToDict
    <3>1. /\ wire = Keys!Nothing /\ wire' = Keys!Camelize(instance)
          /\ instance' = instance /\ arguments' = arguments /\ instance \in Objects
          /\ arguments = Keys!Nothing
      BY <2>1 DEF Keys!ToDict, KeysInv
    <3>2. IsMap(Keys!Camelize(instance)) /\ Shallow(Keys!Camelize(instance))
      BY <3>1, SentIs
    <3> QED BY <3>1, <3>2 DEF KeysInv
  <2>2. ASSUME NEW k \in Unknown, Keys!AddUnknown(k) PROVE KeysInv'
    <3> DEFINE p == Keys!Put(wire, k, Keys!Scalar)
    <3>1. /\ wire # Keys!Nothing /\ arguments = Keys!Nothing /\ wire' = p
          /\ instance' = instance /\ arguments' = arguments /\ instance \in Objects
          /\ IsMap(wire) /\ Shallow(wire)
          /\ ReadAs(wire)[instance.tag] = ReadAs(Keys!Camelize(instance))[instance.tag]
      BY <2>2 DEF Keys!AddUnknown, KeysInv
    <3>2. IsMap(p) /\ \E i \in 1..Len(p.keys) : p.keys[i] = k
      BY <3>1, PutIs
    <3>3. Shallow(p)
      BY <3>1, AddedIsShallow
    <3>4. instance.tag \in Class
      BY <3>1, ObjectIs
    <3>5. Decamelized[k] \notin DOMAIN Annotation[instance.tag]
      BY <3>4, ModelAssumption
    <3>6. ReadAs(p)[instance.tag] = ReadAs(wire)[instance.tag]
      BY <3>1, <3>3, <3>4, <3>5, UnknownSkipped
    <3> HIDE DEF p
    <3> QED BY <3>1, <3>2, <3>3, <3>6 DEF KeysInv
  <2>3. CASE Keys!Construct
    <3>1. /\ wire # Keys!Nothing /\ arguments' = Keys!Decamelize(wire, instance.tag)
          /\ instance' = instance /\ wire' = wire
      BY <2>3 DEF Keys!Construct
    <3>2. arguments' = ReadAs(wire)[instance.tag]
      BY <3>1 DEF Keys!Decamelize, ReadAs
    <3> QED BY <3>1, <3>2 DEF KeysInv
  <2>4. CASE UNCHANGED Keys!vars
    BY <2>4 DEF Keys!vars, KeysInv
  <2> QED BY <2>1, <2>2, <2>3, <2>4 DEF Keys!Next
<1> QED BY <1>1, <1>2, PTL DEF KeysSpec, Keys!Spec

\* Models in models and in lists go to the wire with all their attributes
\* renamed and nothing lost, as long as no attribute is a dict with keys.
THEOREM AttributesRenamed == KeysSpec => []AttributesAreRenamed
<1>1. KeysInv => AttributesAreRenamed
  <2> SUFFICES ASSUME KeysInv, Sent, ModelsInReach(instance),
                      NamesStayApart(instance), ~HasDictAttribute(instance)
               PROVE  wire = Renamed(instance)
    BY DEF AttributesAreRenamed
  <2>1. /\ instance \in Objects /\ wire # Keys!Nothing
        /\ wire = Keys!Camelize(instance) \/ \E i \in 1..Len(wire.keys) : wire.keys[i] \in Unknown
    BY DEF KeysInv, Sent
  <2>2. \A i \in 1..Len(wire.keys) : wire.keys[i] \notin Unknown
    BY DEF Sent, Contains
  <2>3. IsTree(instance)
    BY <2>1, ObjectIs
  <2>4. Keys!Camelize(instance) = Renamed(instance)
    BY <2>3, CamelizedIsRenamed
  <2> QED BY <2>1, <2>2, <2>4
<1> QED BY <1>1, KeysInvariance, PTL

\* What to_dict renamed is renamed back, at every depth, whatever keys another
\* program adds, where humps can and the annotations of the class itself tell the
\* attributes and the models.
THEOREM NamesReturn == KeysSpec => []KeysComeBack
<1>1. KeysInv => KeysComeBack
  <2> SUFFICES ASSUME KeysInv, arguments # Keys!Nothing, Returns(instance)
               PROVE  arguments = Keys!AsDict(instance)
    BY DEF KeysComeBack, Returns
  <2>1. /\ instance \in Objects
        /\ arguments = ReadAs(Keys!Camelize(instance))[instance.tag]
    BY DEF KeysInv
  <2>2. instance.tag \in Class /\ IsTree(instance)
    BY <2>1, ObjectIs
  <2>3. Keys!Camelize(instance) = Renamed(instance)
    BY <2>2, ReturnsRenamed
  <2>4. ReadAs(Renamed(instance))[instance.tag] = Keys!AsDict(instance)
    BY <2>2, RenamedComesBack
  <2> QED BY <2>1, <2>3, <2>4
<1> QED BY <1>1, KeysInvariance, PTL
=============================================================================
