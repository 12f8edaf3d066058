----------------------------- MODULE ModelKeys -----------------------------
(***************************************************************************)
(* The option camelCase of a dataclass model: to_dict renames the          *)
(* attributes of the model and of the models in it for the wire,           *)
(* validate_and_construct_from_dict renames the keys it gets back.  The    *)
(* pydantic model reads in the same way, and leaves writing to pydantic.   *)
(*                                                                         *)
(* The tag of a node is the class of a model, "dict", "list", "scalar" or  *)
(* "exception"; keys and items are in the order python iterates them.      *)
(* What humps makes of a name is external.                                 *)
(***************************************************************************)
EXTENDS Values, Sequences, SequencesExt

CONSTANTS
  Name,         \* attribute names, keys on the wire, keys of user data
  Camelized,    \* humps.camelize
  Decamelized,  \* humps.decamelize
  NoKey,        \* not a name
  Class,        \* model classes
  Annotation,   \* Annotation[c][a]: what a is annotated with in c, a class or "other"
  Objects,      \* the models sent
  Unknown       \* keys another program may add to a message

VARIABLES
  instance,     \* the model to_dict is called on
  wire,         \* the dictionary it gives
  arguments     \* what the receiver passes to the constructor

vars == <<instance, wire, arguments>>

Data == {"dict", "list", "scalar"}

Node(tag, keys, items) == [tag |-> tag, keys |-> keys, items |-> items]
Scalar == Node("scalar", <<>>, <<>>)
EmptyDict == Node("dict", <<>>, <<>>)
Raise == Node("exception", <<>>, <<>>)
Nothing == Node("nothing", <<>>, <<>>)

\* d[k] = v
Put(d, k, v) ==
  IF Contains(d.keys, k)
  THEN [d EXCEPT !.items = [i \in DOMAIN @ |-> IF d.keys[i] = k THEN v ELSE @[i]]]
  ELSE [d EXCEPT !.keys = Append(@, k), !.items = Append(@, v)]

\* The dictionary a loop makes that assigns values[i] to keys[i], and continues
\* without at NoKey.
Written(keys, values) ==
  LET D[i \in 0..Len(keys)] ==
        IF i = 0 THEN EmptyDict
        ELSE IF keys[i] = NoKey THEN D[i - 1]
        ELSE Put(D[i - 1], keys[i], values[i])
  IN D[Len(keys)]

\* dataclasses.asdict: the models in it become dictionaries as well.
Dictionary(v, done) ==
  Node(IF v.tag \in Class THEN "dict" ELSE v.tag, v.keys, done)

AsDict(v) == Walk(Dictionary, v)

-----------------------------------------------------------------------------
\* The inner loop over a dict takes over the variable that holds the name of
\* the attribute.
KeyAfter(k, v) == IF v.tag = "dict" /\ v.keys # <<>> THEN Last(v.keys) ELSE k

\* The items of a list that are models are renamed inside.
CamelizedList_AsIs(v, done) == AsDict(v)

CamelizedList(v, done) ==
  [AsDict(v) EXCEPT !.items =
     [i \in DOMAIN @ |-> IF v.items[i].tag \in Class THEN done[i] ELSE @[i]]]

\* _camelize_model_dict, and what it makes of the value of an attribute.  It
\* walks the dictionary of asdict next to the model, which tells the models
\* from other data.
CamelizedValue(v, done) ==
  CASE v.tag \in Class ->
         Written([i \in DOMAIN v.keys |-> Camelized[KeyAfter(v.keys[i], v.items[i])]], done)
    [] v.tag = "list" -> CamelizedList(v, done)
    [] OTHER -> AsDict(v)

Camelize(v) == Walk(CamelizedValue, v)

\* Only an attribute that is itself a model is renamed inside, not the items of
\* a list.
DecamelizedValue_Flat(v, models, annotation) == v

DecamelizedValue(v, models, annotation) ==
  IF annotation \in Class THEN models[annotation] ELSE v

\* _decamelize_model_dict for each class it may be called with: keys that are not
\* annotated in it, inherited ones of a dataclass too, are skipped, and what has
\* no items() raises.
DecamelizedAs(d, done) ==
  [c \in Class |->
     LET Key(i) == Decamelized[d.keys[i]]
         known == {i \in DOMAIN d.keys : Key(i) \in DOMAIN Annotation[c]}
         values == [i \in known |-> DecamelizedValue(d.items[i], done[i], Annotation[c][Key(i)])]
     IN IF d.tag # "dict" \/ \E i \in known : values[i] = Raise THEN Raise
        ELSE Written([i \in DOMAIN d.keys |-> IF i \in known THEN Key(i) ELSE NoKey], values)]

Decamelize(d, c) == Walk(DecamelizedAs, d)[c]

-----------------------------------------------------------------------------
Init ==
  /\ instance \in Objects
  /\ wire = Nothing
  /\ arguments = Nothing

ToDict ==
  /\ wire = Nothing
  /\ wire' = Camelize(instance)
  /\ UNCHANGED <<instance, arguments>>

\* The other end is another version, or written in another language.
AddUnknown(k) ==
  /\ wire # Nothing /\ arguments = Nothing
  /\ wire' = Put(wire, k, Scalar)
  /\ UNCHANGED <<instance, arguments>>

Construct ==
  /\ wire # Nothing /\ arguments = Nothing
  /\ arguments' = Decamelize(wire, instance.tag)
  /\ UNCHANGED <<instance, wire>>

Next ==
  \/ ToDict
  \/ \E k \in Unknown : AddUnknown(k)
  \/ Construct

Spec == Init /\ [][Next]_vars
=============================================================================
