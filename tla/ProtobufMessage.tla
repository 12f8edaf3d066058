-------------------------- MODULE ProtobufMessage --------------------------
(***************************************************************************)
(* ProtobufConverter: a model goes through a dictionary to a protobuf      *)
(* message (model_to_raw), a message through a dictionary to the arguments *)
(* of a model (raw_to_model).  Both walk the descriptor of the message     *)
(* type, recursively.                                                      *)
(*                                                                         *)
(* A value is a node.  Its tag is the python type, the message type of a   *)
(* model or message, "list" or "dict"; a leaf has a number for its value,  *)
(* 0 the default of its type; an exception is a node of its own.  The      *)
(* protobuf runtime (external) takes what has the type of the field, None  *)
(* for a field that is not set, and an optional field for a oneof of its   *)
(* own with an underscore before the name, and rounds what a float of 32   *)
(* bits does not hold.  Datetimes count in ticks.                          *)
(***************************************************************************)
EXTENDS Values, Integers, Sequences, SequencesExt

CONSTANTS
  Message,      \* message types; __modapp_path__ of a model is one of them
  Protos,       \* the types in ProtobufConverter.protos
  FieldNames,   \* FieldNames[c]: fields of message type c in their order
  Field,        \* Field[c][f]: descriptor of a field
  Instances,    \* models sent
  PeerMessages, \* messages of programs that do not use modapp
  Second,       \* ticks of a second
  ZoneOffset,   \* ticks a zoned datetime is ahead of UTC
  FirstTick,    \* the first tick of the year 1, of 1970 on
  LastTick,     \* the last tick of the year 9999
  Rounding      \* Rounding[n]: a float of 32 bits for n, where none is n

VARIABLES
  model,        \* the model model_to_raw is called with
  proto,        \* the message on the wire, or the exception in its place
  received      \* the dictionary raw_to_model makes of it, or an exception

vars == <<model, proto, received>>

Node(tag, val, items) == [tag |-> tag, val |-> val, items |-> items]
Leaf(tag, val) == Node(tag, val, <<>>)
Raise == Leaf("exception", 0)
Nothing == Leaf("nothing", 0)

Collection == {"list", "dict"}
ScalarType == {"int64", "bool", "double", "float", "string", "bytes", "enum"}
PyType == {"int", "bool", "float", "str", "bytes", "enum", "datetime",
           "zoned_datetime", "none", "exception", "nothing"}

NoOneof == "no oneof"
NoField == "no field"

\* An exception in a part leaves the whole.
Whole(node) ==
  IF \E k \in DOMAIN node.items : node.items[k] = Raise THEN Raise ELSE node

-----------------------------------------------------------------------------
\* What isinstance says of a value and PRIMITIVE_TYPE_PROTO_TO_PY_MAP: a bool
\* is an int, a float one of either width.
Instance(tag) ==
  CASE tag = "bool" -> {"bool", "int64"}
    [] tag = "int" -> {"int64"}
    [] tag = "float" -> {"double", "float"}
    [] tag = "str" -> {"string"}
    [] tag = "bytes" -> {"bytes"}
    [] OTHER -> {}

\* model_field_type_matches_proto_field.  Only a model has a __modapp_path__ to
\* compare, and the table has no enum: "raises" stands for the exception.
Matches(v, field) ==
  CASE field.type = "message" ->
         IF v.tag \notin Message THEN "raises"
         ELSE IF v.tag = field.message THEN "yes" ELSE "no"
    [] field.type = "enum" -> "raises"
    [] OTHER -> IF field.type \in Instance(v.tag) THEN "yes" ELSE "no"

\* Positions of the fields of a oneof.
OneofFields(c, o) ==
  {i \in DOMAIN FieldNames[c] : Field[c][FieldNames[c][i]].oneof = o}

First(S) == CHOOSE i \in S : \A j \in S : i <= j

\* The first field of a oneof that matches.
ChosenField_First(c, o, v) == FieldNames[c][First(OneofFields(c, o))]

ChosenField(c, o, v) ==
  LET tried == {i \in OneofFields(c, o) : Matches(v, Field[c][FieldNames[c][i]]) # "no"}
      f == FieldNames[c][First(tried)]
  IN IF tried # {} /\ Matches(v, Field[c][f]) = "yes" THEN f ELSE NoField

\* The field an attribute is for: that of the name, or one of the oneof.
FieldOf(c, attribute, v) ==
  IF attribute # NoOneof /\ OneofFields(c, attribute) # {}
  THEN ChosenField(c, attribute, v)
  ELSE attribute

\* int() of a float, which cuts towards zero, and the microseconds of the
\* wall clock.  replace(tzinfo=utc) drops the offset of a zone.
Truncate_Floor(t) == t \div Second

Truncate(t) == IF t >= 0 THEN t \div Second ELSE -((-t) \div Second)

ToTimestamp(v) ==
  IF v.tag \notin {"datetime", "zoned_datetime"} THEN Raise
  ELSE Node("Timestamp", 0, [seconds |-> Leaf("int", Truncate(v.val)),
                             nanos |-> Leaf("int", v.val % Second)])

\* One entry of the dictionary after the loops of __dict_to_proto_obj.  The
\* model of a nested message is looked up under the name of its oneof, which
\* an optional field does not have in the model.
FieldValue(field, attribute, v, message) ==
  CASE field.label # "map" /\ field.type = "enum" ->
         IF v.tag = "enum" THEN Leaf("int", v.val) ELSE v
    [] field.label # "map" /\ field.message = "Timestamp" -> ToTimestamp(v)
    [] field.type = "message" /\ (field.label = "map" \/ field.message # "Timestamp") ->
         IF field.oneof \in {NoOneof, attribute} THEN message ELSE Raise
    [] OTHER -> v

\* What the runtime takes for one value of a field, and for all of it: any
\* iterable for a repeated field, which the lists stand for.
Accepts(field, v) ==
  CASE field.type = "message" -> v.tag = field.message
    [] field.type = "enum" -> v.tag = "int"
    [] field.type \in {"double", "float"} -> v.tag \in {"float", "int", "bool"}
    [] field.type = "bool" -> v.tag \in {"bool", "int"}
    [] OTHER -> field.type \in Instance(v.tag)

Fits(field, v) ==
  IF field.label = "singular" THEN Accepts(field, v)
  ELSE /\ v.tag = (IF field.label = "map" THEN "dict" ELSE "list")
       /\ \A k \in DOMAIN v.items : Accepts(field, v.items[k])

\* The type python code gets back from a field, and its default.
PyTag(type) ==
  CASE type \in {"int64", "enum"} -> "int"
    [] type = "bool" -> "bool"
    [] type \in {"double", "float"} -> "float"
    [] type = "string" -> "str"
    [] type = "bytes" -> "bytes"

\* The number a field keeps of the one it is set to.
Kept(type, n) == IF type = "float" /\ n \in DOMAIN Rounding THEN Rounding[n] ELSE n

Stored(field, v) ==
  IF field.type = "message" THEN v
  ELSE IF field.label = "singular" THEN Leaf(PyTag(field.type), Kept(field.type, v.val))
  ELSE [v EXCEPT !.items =
          [k \in DOMAIN @ |-> Leaf(PyTag(field.type), Kept(field.type, @[k].val))]]

\* proto_cls( ** model_dict)
Construct(c, args) ==
  LET set == {f \in DOMAIN args : args[f].tag # "none"}
  IN IF \A f \in set : Fits(Field[c][f], args[f])
     THEN Node(c, 0, [f \in set |-> Stored(Field[c][f], args[f])])
     ELSE Raise

\* __dict_to_proto_obj, of a model or of what is found in its place.
DictToProto(m, done) ==
  LET field == [a \in DOMAIN m.items |-> FieldOf(m.tag, a, m.items[a])]
      Attribute(f) == CHOOSE a \in DOMAIN field : field[a] = f
  IN IF m.tag \notin Protos THEN Raise
     ELSE IF \E a \in DOMAIN field : field[a] \notin DOMAIN Field[m.tag] THEN Raise
     ELSE Construct(m.tag,
            [f \in {field[a] : a \in DOMAIN field} |->
               LET a == Attribute(f)
               IN FieldValue(Field[m.tag][f], a, m.items[a], done[a])])

\* The comprehensions over lists and maps of models call it for each item.
ProtoOf(v, done) ==
  IF v.tag \in Collection THEN Whole([v EXCEPT !.items = done])
  ELSE DictToProto(v, done)

ToProto(v) == Walk(ProtoOf, v)

-----------------------------------------------------------------------------
HasPresence(field) ==
  field.label = "singular" /\ (field.type = "message" \/ field.oneof # NoOneof)

\* The value of a field that is not set.
Default(field) ==
  CASE field.label = "map" -> Leaf("dict", 0)
    [] field.label = "repeated" -> Leaf("list", 0)
    [] OTHER -> Leaf(PyTag(field.type), 0)

Number(message, f) ==
  IF f \in DOMAIN message.items THEN message.items[f].val ELSE 0

Ticks(v) == Number(v, "seconds") * Second + Number(v, "nanos")

\* datetime.fromtimestamp raises for a year that a datetime cannot have.
FromTimestamp(v) ==
  IF Ticks(v) \in FirstTick..LastTick THEN Leaf("datetime", Ticks(v)) ELSE Raise

\* A message in a oneof or in a list is read as one, also a Timestamp.
IsDatetime(field) ==
  field.label = "singular" /\ field.message = "Timestamp" /\ field.oneof = NoOneof

ReadValue(field, v, value) ==
  CASE IsDatetime(field) -> FromTimestamp(v)
    [] field.label # "map" /\ field.type # "message" -> v
    [] OTHER -> value

\* __proto_obj_to_dict
ProtoToDict(message, done) ==
  LET fields == Field[message.tag]
      read == {f \in DOMAIN fields : HasPresence(fields[f]) => f \in DOMAIN message.items}
      Key(f) == IF fields[f].oneof = NoOneof THEN f ELSE fields[f].oneof
      Value(f) == IF f \in DOMAIN message.items
                  THEN ReadValue(fields[f], message.items[f], done[f])
                  ELSE Default(fields[f])
  IN Whole(Node("dict", 0,
       [k \in {Key(f) : f \in read} |-> Value(CHOOSE f \in read : Key(f) = k)]))

\* __proto_value_to_py_value: there is no branch for bytes.
PyValue_NoFloats(v) == IF v.tag \in {"str", "int", "bool"} THEN v ELSE Raise

PyValue(v) == IF v.tag \in {"str", "int", "float", "bool"} THEN v ELSE Raise

\* The comprehensions over maps and repeated messages read each item.
DictOf(v, done) ==
  CASE v.tag \in Message -> ProtoToDict(v, done)
    [] v.tag \in Collection -> Whole([v EXCEPT !.items = done])
    [] OTHER -> PyValue(v)

ToDict(v) == Walk(DictOf, v)

-----------------------------------------------------------------------------
(***************************************************************************)
(* What descriptors, models and messages are like.  A model has one        *)
(* attribute at most for a oneof; what the runtime takes and keeps as it   *)
(* is, is a message.                                                       *)
(***************************************************************************)
IsData(v) ==
  \A u \in Nodes(v) :
    /\ u = Node(u.tag, u.val, [k \in DOMAIN u.items |-> u.items[k]])
    /\ u.tag \in Message \cup Collection \cup PyType
    /\ u.tag \in PyType => u.items = <<>>
    /\ u.val \in Int
    /\ u.tag \in {"datetime", "zoned_datetime"} => u.val \in FirstTick..LastTick

\* The oneof an attribute is for.
Choice(c, a) == IF a \in DOMAIN Field[c] THEN Field[c][a].oneof ELSE a

OneOfEach(u) ==
  \A a, b \in DOMAIN u.items :
    Choice(u.tag, a) = Choice(u.tag, b) => a = b \/ Choice(u.tag, a) = NoOneof

IsModel(v) ==
  /\ IsData(v)
  /\ \A u \in Nodes(v) : u.tag \in Message => OneOfEach(u)

IsMessage(v) ==
  /\ IsData(v)
  /\ \A u \in Nodes(v) : u.tag \in Message =>
       /\ DOMAIN u.items \subseteq DOMAIN Field[u.tag]
       /\ \A f \in DOMAIN u.items :
            LET field == Field[u.tag][f]
            IN Fits(field, u.items[f]) /\ Stored(field, u.items[f]) = u.items[f]
       /\ OneOfEach(u)

ASSUME DescriptorAssumption ==
  /\ Message \cap (Collection \cup PyType) = {}
  /\ "Timestamp" \in Message
  /\ Protos \subseteq Message
  /\ \A c \in Message :
       /\ FieldNames[c] \in Seq(DOMAIN Field[c])
       /\ DOMAIN Field[c] = ToSet(FieldNames[c])
       /\ NoField \notin DOMAIN Field[c]
       /\ \A f \in DOMAIN Field[c] :
            /\ Field[c][f].type \in ScalarType \cup {"message"}
            /\ Field[c][f].message \in
                 (IF Field[c][f].type = "message" THEN Message ELSE {"none"})
            /\ Field[c][f].label \in {"singular", "repeated", "map"}
            /\ Field[c][f].oneof \notin DOMAIN Field[c]
            /\ Field[c][f].oneof # NoOneof => Field[c][f].label = "singular"
  /\ DOMAIN Field["Timestamp"] = {"seconds", "nanos"}
  /\ \A f \in {"seconds", "nanos"} :
       Field["Timestamp"][f] =
         [type |-> "int64", message |-> "none", label |-> "singular", oneof |-> NoOneof]

ASSUME DataAssumption ==
  /\ Second \in Nat \ {0}
  /\ ZoneOffset \in Nat \ {0}
  /\ FirstTick \in Int /\ LastTick \in Int
  /\ FirstTick <= 0 /\ Second <= LastTick
  /\ DOMAIN Rounding \subseteq Int \ {0, 1}
  /\ \A n \in DOMAIN Rounding : Rounding[n] \in Int \ DOMAIN Rounding
  /\ \A v \in Instances : v.tag \in Message /\ IsModel(v) /\ Level(Depth - 1, v) = {}
  /\ \A m \in PeerMessages : m.tag \in Message /\ IsMessage(m) /\ Level(Depth, m) = {}

-----------------------------------------------------------------------------
Init ==
  /\ model \in Instances \cup {Nothing}
  /\ proto = Nothing
  /\ received = Nothing

ModelToRaw ==
  /\ proto = Nothing
  /\ model # Nothing
  /\ proto' = ToProto(model)
  /\ UNCHANGED <<model, received>>

\* The other end sends what the message type allows.
PeerSends(message) ==
  /\ proto = Nothing
  /\ model = Nothing
  /\ proto' = message
  /\ UNCHANGED <<model, received>>

RawToModel ==
  /\ proto \notin {Nothing, Raise}
  /\ received = Nothing
  /\ received' = IF proto.tag \in Protos THEN ToDict(proto) ELSE Raise
  /\ UNCHANGED <<model, proto>>

Next ==
  \/ ModelToRaw
  \/ \E message \in PeerMessages : PeerSends(message)
  \/ RawToModel

Spec == Init /\ [][Next]_vars

-----------------------------------------------------------------------------
(***************************************************************************)
(* What the converter is for, written without its two walks.  Plain is the *)
(* part of the models that it carries: a value has the type of its field,  *)
(* no attribute is None, and these are left out, each because the code     *)
(* loses or refuses it:                                                    *)
(*   - optional fields (their key comes back with an underscore, and an    *)
(*     optional message raises);                                           *)
(*   - enums and Timestamps in lists, maps and oneofs, bytes in maps;      *)
(*   - floats that 32 bits do not hold, in a field of that type            *)
(*     (test__protobuf__raw_to_model.py:25 meets one);                     *)
(*   - oneofs where an earlier field takes the value for another or raises *)
(*     for it;                                                             *)
(*   - models without an attribute for a field that is always read, as     *)
(*     their receiver gets a default for it.                               *)
(***************************************************************************)
IsTimestamp(field) == field.message = "Timestamp"

\* A datetime whose instant has a Timestamp of its own: UTC, and not a fraction
\* of a second before 1970.
Representable(v) ==
  v.tag = "datetime" /\ (v.val >= 0 \/ v.val % Second = 0)

PlainValue(field, v) ==
  CASE IsTimestamp(field) -> Representable(v)
    [] field.type = "message" /\ ~IsTimestamp(field) -> v.tag = field.message
    [] field.type = "enum" -> v.tag = "enum"
    [] OTHER -> v.tag = PyTag(field.type) /\ Kept(field.type, v.val) = v.val

PlainCollection(field, v) ==
  /\ ~IsTimestamp(field) /\ field.type # "enum"
  /\ field.label = "map" => field.type # "bytes"
  /\ v.tag = (IF field.label = "map" THEN "dict" ELSE "list")
  /\ \A k \in DOMAIN v.items : PlainValue(field, v.items[k])

PlainChoice(c, o, v) ==
  \E i \in OneofFields(c, o) :
    LET field == Field[c][FieldNames[c][i]] IN
    /\ ~IsTimestamp(field) /\ field.type # "enum"
    /\ PlainValue(field, v)
    /\ \A j \in OneofFields(c, o) :
         LET earlier == Field[c][FieldNames[c][j]] IN
         j < i =>
           /\ earlier.type # "enum"
           /\ earlier.type = "message" => v.tag \in Message
           /\ earlier.type \in Instance(v.tag) => PlainValue(earlier, v)

PlainAttribute(c, a, v) ==
  IF a \in DOMAIN Field[c]
  THEN /\ Field[c][a].oneof = NoOneof
       /\ IF Field[c][a].label = "singular" THEN PlainValue(Field[c][a], v)
          ELSE PlainCollection(Field[c][a], v)
  ELSE a # NoOneof /\ PlainChoice(c, a, v)

\* A model is plain when all in it are.
Plain(m) ==
  \A u \in Nodes(m) : u.tag \in Message =>
    /\ u.tag \in Protos
    /\ \A f \in DOMAIN Field[u.tag] : f \in DOMAIN u.items \/ HasPresence(Field[u.tag][f])
    /\ \A a \in DOMAIN u.items : PlainAttribute(u.tag, a, u.items[a])

\* The dictionary of a model: the models in it as dictionaries, enums as numbers.
DataOf(v, done) ==
  CASE v.tag = "enum" -> Leaf("int", v.val)
    [] v.tag \in Message -> Node("dict", 0, done)
    [] OTHER -> [v EXCEPT !.items = done]

AsDict(v) == Walk(DataOf, v)

\* The receiver of a plain model gets exactly its attributes, at every depth: no
\* order of the fields of a oneof, no nesting of messages, lists and maps and no
\* default makes model_to_raw raise or changes a value, and a float of 32 bits
\* is the one sent where it can be.
PlainModelsRoundTrip ==
  model # Nothing /\ Plain(model) =>
    /\ proto # Raise
    /\ received \in {Nothing, AsDict(model)}

HasBytesMap(message) ==
  \E u \in Nodes(message) :
    /\ u.tag \in Message
    /\ \E f \in DOMAIN u.items :
         /\ Field[u.tag][f].label = "map" /\ Field[u.tag][f].type = "bytes"
         /\ DOMAIN u.items[f].items # {}

\* A Timestamp of another year than a datetime can have, where it is read as one.
HasFarTimestamp(message) ==
  \E u \in Nodes(message) :
    /\ u.tag \in Message
    /\ \E f \in DOMAIN u.items :
         IsDatetime(Field[u.tag][f]) /\ Ticks(u.items[f]) \notin FirstTick..LastTick

\* Whatever arrives, sent by model_to_raw or by a program without modapp, with
\* unset fields, empty collections and Timestamps anywhere, raw_to_model makes a
\* dictionary of it, but for two: an entry in a map of bytes, and a Timestamp
\* outside the years 1 to 9999, which in a oneof, a list or a map is harmless.
MessagesCanBeRead ==
  received # Nothing /\ proto.tag \in Protos =>
    (received = Raise <=> HasBytesMap(proto) \/ HasFarTimestamp(proto))

Instant(v) == IF v.tag = "zoned_datetime" THEN v.val - ZoneOffset ELSE v.val

\* A datetime comes back at the instant it was sent with exactly when it is in
\* UTC and not a fraction of a second before 1970: replace() drops the offset
\* of a zone, and int() cuts towards zero what the microseconds count upwards.
TimestampsKeepInstant ==
  model # Nothing /\ received \notin {Nothing, Raise} =>
    \A a \in DOMAIN model.items \cap DOMAIN Field[model.tag] :
      LET field == Field[model.tag][a] IN
      IsDatetime(field) =>
        (received.items[a].val = Instant(model.items[a]) <=> Representable(model.items[a]))
=============================================================================
