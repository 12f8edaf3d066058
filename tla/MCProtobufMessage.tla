------------------------ MODULE MCProtobufMessage ------------------------
(* Trips with every collection of places, choices between scalars, between *)
(* messages and between both, optional fields, enums, datetimes, floats of *)
(* both widths.                                                            *)
EXTENDS ProtobufMessage, TLC

F(type, label) == [type |-> type, message |-> "none", label |-> label, oneof |-> NoOneof]
M(message, label) ==
  [type |-> "message", message |-> message, label |-> label, oneof |-> NoOneof]
In(oneof, field) == [field EXCEPT !.oneof = oneof]

MCMessage == {"Timestamp", "Place", "Trip", "Choice", "Option", "Paint",
              "Diary", "Log", "Scan", "Gauge", "Unknown"}

MCFieldNames ==
  [Timestamp |-> <<"seconds", "nanos">>,
   Place |-> <<"postal_code", "visited">>,
   Trip |-> <<"home", "stops", "by_name", "lengths">>,
   Choice |-> <<"number", "flag", "text", "there", "nick", "since">>,
   Option |-> <<"limit", "base">>,
   Paint |-> <<"color", "colors">>,
   Diary |-> <<"days">>,
   Log |-> <<"begun">>,
   Scan |-> <<"pages">>,
   Gauge |-> <<"reading", "readings", "coarse", "fine">>,
   Unknown |-> <<"number">>]

MCField ==
  [Timestamp |-> [seconds |-> F("int64", "singular"), nanos |-> F("int64", "singular")],
   Place |-> [postal_code |-> F("int64", "singular"), visited |-> M("Timestamp", "singular")],
   Trip |-> [home |-> M("Place", "singular"), stops |-> M("Place", "repeated"),
             by_name |-> M("Place", "map"), lengths |-> F("double", "map")],
   Choice |-> [number |-> In("value", F("int64", "singular")),
               flag |-> In("value", F("bool", "singular")),
               text |-> In("value", F("string", "singular")),
               there |-> In("target", M("Place", "singular")),
               nick |-> In("target", F("string", "singular")),
               since |-> In("target", M("Timestamp", "singular"))],
   Option |-> [limit |-> In("_limit", F("int64", "singular")),
               base |-> In("_base", M("Place", "singular"))],
   Paint |-> [color |-> F("enum", "singular"), colors |-> F("enum", "repeated")],
   Diary |-> [days |-> M("Timestamp", "repeated")],
   Log |-> [begun |-> M("Timestamp", "map")],
   Scan |-> [pages |-> F("bytes", "map")],
   Gauge |-> [reading |-> F("float", "singular"), readings |-> F("float", "repeated"),
              coarse |-> In("level", F("float", "singular")),
              fine |-> In("level", F("double", "singular"))],
   Unknown |-> [number |-> F("int64", "singular")]]

MCProtos == MCMessage \ {"Timestamp", "Unknown"}

None == Leaf("none", 0)
List(values) == Node("list", 0, values)
Dict(entries) == Node("dict", 0, entries)

Place(code, visited) == Node("Place", 0, "postal_code" :> code @@ "visited" :> visited)

\* From a second and a half before 1970 to a second and a half after it.
Dates ==
  {Leaf("datetime", t) : t \in -3..3} \cup {Leaf("zoned_datetime", t) : t \in -1..1}

Here == Place(Leaf("int", 1), Leaf("datetime", 2))
Early == Place(Leaf("int", 0), Leaf("datetime", -1))
Places ==
  {Place(code, visited) :
     code \in {Leaf("int", 1), Leaf("str", 1), None}, visited \in Dates \cup {None}}

Trips ==
  {Node("Trip", 0, "home" :> home @@ "stops" :> List(stops) @@ "by_name" :> Dict(named)
                   @@ "lengths" :> Dict("a" :> length)) :
     home \in {Here, Early, None}, stops \in {<<>>, <<Here>>, <<Here, Early>>, <<None>>},
     named \in {<<>>, "a" :> Here, "a" :> Early @@ "b" :> Here},
     length \in {Leaf("float", 1), Leaf("str", 1)}}

ChoiceModels ==
  {Node("Choice", 0, "value" :> value @@ "target" :> target) :
     value \in {Leaf("int", 0), Leaf("bool", 1), Leaf("str", 1), Leaf("float", 1), None},
     target \in {Here, Early, Leaf("str", 1), Leaf("datetime", 2), None}}

OptionModels ==
  {Node("Option", 0, "limit" :> limit) : limit \in {Leaf("int", 0), None}}
  \cup {Node("Option", 0, "limit" :> None @@ "base" :> base) : base \in {Here, None}}

Paints ==
  {Node("Paint", 0, "color" :> color @@ "colors" :> List(colors)) :
     color \in {Leaf("enum", 1), Leaf("int", 1), None},
     colors \in {<<>>, <<Leaf("enum", 1)>>, <<Leaf("int", 1)>>}}

Diaries == {Node("Diary", 0, "days" :> days) :
              days \in {None, List(<<>>), List(<<Leaf("datetime", 2)>>)}}

Logs == {Node("Log", 0, "begun" :> Dict(begun)) : begun \in {<<>>, "a" :> Leaf("datetime", 2)}}

\* A float of 32 bits is a 1 or a 2 but not a 3.
MCRounding == 3 :> 2
Gauges ==
  {Node("Gauge", 0, "reading" :> reading @@ "readings" :> List(readings) @@ "level" :> level) :
     reading \in {Leaf("float", 2), Leaf("float", 3), Leaf("int", 3)},
     readings \in {<<>>, <<Leaf("float", 1)>>, <<Leaf("float", 2), Leaf("float", 3)>>},
     level \in {Leaf("float", 2), Leaf("float", 3), Leaf("int", 2)}}

\* A model that lacks an attribute for a field.
Colorless == {Node("Paint", 0, "color" :> Leaf("enum", 1))}

MCInstances ==
  Places \cup Trips \cup ChoiceModels \cup OptionModels \cup Paints \cup Diaries \cup Logs
  \cup Gauges \cup Colorless
  \cup {Node("Scan", 0, "pages" :> Dict(pages)) : pages \in {<<>>, "a" :> Leaf("bytes", 1)}}
  \cup {Node("Unknown", 0, "number" :> Leaf("int", 1))}

\* Ten seconds before 1970 to ten after it are the years of a datetime.
MCFirstTick == -20
MCLastTick == 20

\* What other programs send: unset fields, what model_to_raw refuses, Timestamps
\* of other years, some of them read as a message.
Stamp == Node("Timestamp", 0, "seconds" :> Leaf("int", 1) @@ "nanos" :> Leaf("int", 1))
Far(seconds) == Node("Timestamp", 0, "seconds" :> Leaf("int", seconds))
Late(nanos) == Node("Timestamp", 0, "seconds" :> Leaf("int", 10) @@ "nanos" :> Leaf("int", nanos))
Set(message, f, v) == Node(message, 0, f :> v)
MCPeerMessages ==
  {Node(c, 0, <<>>) : c \in MCProtos}
  \cup {Set("Place", "visited", Stamp),
        Set("Place", "visited", Node("Timestamp", 0, <<>>)), Set("Choice", "since", Stamp),
        Set("Option", "limit", Leaf("int", 0)),
        Set("Option", "base", Set("Place", "visited", Stamp)),
        Set("Place", "visited", Far(-11)), Set("Place", "visited", Late(0)),
        Set("Place", "visited", Late(1)), Set("Choice", "since", Far(11)),
        Set("Option", "base", Set("Place", "visited", Far(11))),
        Set("Trip", "stops", List(<<Set("Place", "visited", Stamp),
                                    Set("Place", "visited", Far(11))>>)),
        Set("Diary", "days", List(<<Far(11)>>)), Set("Log", "begun", Dict("a" :> Far(-11))),
        Set("Gauge", "readings", List(<<Leaf("float", 1), Leaf("float", 2)>>)),
        Set("Paint", "colors", List(<<Leaf("int", 1)>>)),
        Set("Diary", "days", List(<<Stamp, Stamp>>)),
        Set("Trip", "by_name", Dict("a" :> Node("Place", 0, <<>>))),
        Set("Log", "begun", Dict("a" :> Stamp)),
        Set("Scan", "pages", Dict("a" :> Leaf("bytes", 1))),
        Set("Unknown", "number", Leaf("int", 1))}
=============================================================================
