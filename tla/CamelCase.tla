----------------------------- MODULE CamelCase -----------------------------
(***************************************************************************)
(* What the option camelCase promises: the names of the attributes of a    *)
(* model, at every level, are renamed on their way to the wire, and back.  *)
(* ModelKeys is the code; here is what the models are like that it is      *)
(* called with, and the properties.  Its variables have names of their     *)
(* own, so that a module may extend this one and ProtobufMessage.          *)
(***************************************************************************)
EXTENDS Values, Sequences, SequencesExt

CONSTANTS
  Name,         \* attribute names, keys on the wire, keys of user data
  Camelized,    \* humps.camelize
  Decamelized,  \* humps.decamelize
  NoKey,        \* not a name
  Class,        \* model classes
  Annotation,   \* Annotation[c][a]: what a is annotated with in c, a class or "other"
  Objects,      \* the models sent
  Unknown       \* keys another program may add to a message

VARIABLES
  instance,     \* the model to_dict is called on
  wire,         \* the dictionary it gives
  arguments     \* what the receiver passes to the constructor

Keys == INSTANCE ModelKeys

\* The option at work, for the runs and the theorems.
KeysSpec == Keys!Spec

-----------------------------------------------------------------------------
(***************************************************************************)
(* What models are like: a model or dictionary has each key once.  Only    *)
(* lists, dictionaries and models have something in them.                  *)
(***************************************************************************)
IsNode(u) ==
  /\ u = Keys!Node(u.tag, u.keys, u.items)
  /\ u.tag \in Class \cup Keys!Data
  /\ u.keys \in Seq(Name)
  /\ \A i, j \in DOMAIN u.keys : u.keys[i] = u.keys[j] => i = j
  /\ Len(u.items) \in Nat
  /\ u.items = [i \in 1..Len(u.items) |-> u.items[i]]
  /\ u.tag # "list" => DOMAIN u.items = DOMAIN u.keys
  /\ u.tag \in {"list", "scalar"} => u.keys = <<>>

ASSUME ModelAssumption ==
  /\ Camelized \in [Name -> Name]
  /\ Decamelized \in [Name -> Name]
  /\ NoKey \notin Name
  /\ Class \cap (Keys!Data \cup {"exception", "nothing", "other"}) = {}
  /\ \A c \in Class : DOMAIN Annotation[c] \subseteq Name
  /\ \A v \in Objects :
       v.tag \in Class /\ Level(Depth - 1, v) = {} /\ \A u \in Nodes(v) : IsNode(u)
  /\ Unknown \subseteq Name
  /\ \A k \in Unknown, c \in Class : Decamelized[k] \notin DOMAIN Annotation[c]

-----------------------------------------------------------------------------
\* Reference definition of to_dict: every attribute name at every level is
\* renamed, all other data is left alone.
RenamedValue(v, done) ==
  IF v.tag \in Class
  THEN Keys!Node("dict", [i \in DOMAIN v.keys |-> Camelized[v.keys[i]]], done)
  ELSE [v EXCEPT !.items = done]

Renamed(v) == Walk(RenamedValue, v)

HasModels(v) == \E u \in Nodes(v) : u.tag \in Class

\* Every model in v is an attribute of a model, or in a list that is one; lists
\* of lists and dictionaries have none.
ModelsInReach(v) ==
  \A u \in Nodes(v) : \A i \in DOMAIN u.items :
    u.tag = "dict" \/ (u.tag = "list" /\ u.items[i].tag \in {"list", "dict"})
      => ~HasModels(u.items[i])

\* humps makes no two attributes of a class one.
NamesStayApart(v) ==
  \A u \in Nodes(v) : u.tag \in Class =>
    \A i, j \in DOMAIN u.keys : Camelized[u.keys[i]] = Camelized[u.keys[j]] => i = j

\* It takes each attribute back to where it was.
NamesComeBack(v) ==
  \A u \in Nodes(v) : u.tag \in Class =>
    \A i \in DOMAIN u.keys : Decamelized[Camelized[u.keys[i]]] = u.keys[i]

\* A class annotates all its attributes itself: a dataclass is not asked for those
\* it inherits, which are in to_dict.
AttributesAreOwn(v) ==
  \A u \in Nodes(v) : u.tag \in Class =>
    \A i \in DOMAIN u.keys : u.keys[i] \in DOMAIN Annotation[u.tag]

AnnotationAt(u, i) ==
  IF u.tag \in Class /\ u.keys[i] \in DOMAIN Annotation[u.tag]
  THEN Annotation[u.tag][u.keys[i]] ELSE "other"

\* The models are where their class says so: not in a list, nor optional.
ModelsAreAnnotated(v) ==
  \A u \in Nodes(v) : \A i \in DOMAIN u.items :
    LET annotation == AnnotationAt(u, i)
    IN annotation \in Class \/ u.items[i].tag \in Class => annotation = u.items[i].tag

HasDictAttribute(v) ==
  \E u \in Nodes(v) : u.tag \in Class /\
    \E i \in DOMAIN u.items : u.items[i].tag = "dict" /\ u.items[i].keys # <<>>

Sent == wire # Keys!Nothing /\ \A k \in Unknown : ~Contains(wire.keys, k)

\* Models in models and in lists go to the wire with all their attributes
\* renamed and nothing lost, as long as no attribute is a dict with keys.
AttributesAreRenamed ==
  Sent /\ ModelsInReach(instance) /\ NamesStayApart(instance) /\ ~HasDictAttribute(instance)
    => wire = Renamed(instance)

\* What to_dict renamed is renamed back, whatever keys another program adds,
\* where humps can and the annotations of the class itself tell the attributes
\* and the models: an attribute it inherits is dropped.
KeysComeBack ==
  arguments # Keys!Nothing /\ AttributesAreOwn(instance) /\ ModelsAreAnnotated(instance)
    /\ NamesComeBack(instance) /\ ~HasDictAttribute(instance)
    => arguments = Keys!AsDict(instance)

\* The test of to_dict: "only model attributes names should be transformed to
\* camel case, not user data".
UserDataIsKept ==
  Sent /\ ModelsInReach(instance) /\ NamesStayApart(instance) => wire = Renamed(instance)
=============================================================================
