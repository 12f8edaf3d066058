--------------------------- MODULE MCInMemoryCall ---------------------------
(* Routes of every cardinality, with dependencies and with metadata.       *)
EXTENDS InMemoryCall, TLC

MCRoute == {"unary", "meta", "stream", "duplex"}

MCCardinality ==
  [rt \in MCRoute |->
     CASE rt = "stream" -> "UNARY_STREAM"
       [] rt = "duplex" -> "STREAM_STREAM"
       [] OTHER -> "UNARY_UNARY"]

MCDependencies ==
  [rt \in MCRoute |->
     CASE rt \in {"unary", "stream"} -> <<"asyncgen", "generator">>
       [] rt = "duplex" -> <<"generator">>
       [] rt = "meta" -> <<>>]

MCMetaKwargs == [rt \in MCRoute |-> IF rt = "meta" THEN {"key"} ELSE {}]
=============================================================================
