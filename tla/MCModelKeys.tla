---------------------------- MODULE MCModelKeys ----------------------------
(* Users with a dict, a place, an optional place and a list that may hold  *)
(* places; addresses whose names humps makes one; an office, which is a    *)
(* place and a class variable more.                                        *)
EXTENDS CamelCase

UserKeys == {"postal_code", "country_name", "name"}

MCCamelized ==
  ("full_address" :> "fullAddress") @@ ("home_place" :> "homePlace")
  @@ ("last_place" :> "lastPlace") @@ ("old_places" :> "oldPlaces")
  @@ ("postal_code" :> "postalCode") @@ ("near_places" :> "nearPlaces")
  @@ ("country_name" :> "countryName") @@ ("street_1" :> "street1")
  @@ [n \in {"name", "fullAddress", "homePlace", "lastPlace", "oldPlaces", "postalCode",
             "nearPlaces", "countryName", "street1", "version"} |-> n]

MCName == DOMAIN MCCamelized

\* A digit stays where it is.
MCDecamelized ==
  [n \in MCName |->
     IF n # "street1" /\ \E m \in MCName \ {n} : MCCamelized[m] = n
     THEN CHOOSE m \in MCName \ {n} : MCCamelized[m] = n ELSE n]

MCClass == {"User", "Place", "Address", "Street", "Office"}

MCAnnotation ==
  [User |-> ("home_place" :> "Place")
            @@ [a \in {"name", "full_address", "last_place", "old_places"} |-> "other"],
   Place |-> [a \in {"postal_code", "near_places"} |-> "other"],
   Address |-> [a \in {"street_1", "street1"} |-> "other"],
   Street |-> [a \in {"street_1"} |-> "other"],
   Office |-> [a \in {"name", "country_name"} |-> "other"]]

\* As in ModelKeys: its instance cannot be used in the values of its constants.
Node(tag, keys, items) == [tag |-> tag, keys |-> keys, items |-> items]
Scalar == Node("scalar", <<>>, <<>>)

List(items) == Node("list", <<>>, items)
Dict(ks) == Node("dict", ks, [i \in DOMAIN ks |-> Scalar])
Place(near) == Node("Place", <<"postal_code", "near_places">>, <<Scalar, List(near)>>)
Near == Place(<<Place(<<>>)>>)
Places == {Place(<<>>), Near}

Dicts ==
  {Dict(ks) : ks \in {s \in SeqOf(UserKeys, 2) : \A i, j \in DOMAIN s : i # j => s[i] # s[j]}}

Lists ==
  {List(s) : s \in SeqOf({Near, Scalar}, 2)}
  \cup {List(<<x>>) : x \in {Place(<<>>), Dict(<<"name">>), List(<<Scalar>>), List(<<Near>>)}}

\* The order of the attributes decides which of two equal keys comes last.
MCObjects ==
  UNION {
    {Node("User", <<"name", "full_address", "home_place", "last_place", "old_places">>,
          <<Scalar, d, h, p, o>>),
     Node("User", <<"full_address", "old_places", "last_place", "home_place", "name">>,
          <<d, o, p, h, Scalar>>)} :
      d \in Dicts, h \in Places \cup {Scalar}, p \in {Scalar, Near}, o \in Lists}
  \cup {Node("Address", <<"street_1", "street1">>, <<Scalar, Dict(<<>>)>>),
        Node("Street", <<"street_1">>, <<Scalar>>),
        Node("Office", <<"postal_code", "near_places", "name">>, <<Scalar, List(<<>>), Scalar>>)}
=============================================================================
