---------------------------- MODULE MCGotRequest ----------------------------
(* A small server: routes that take every branch of got_request.           *)
EXTENDS GotRequest, TLC

MCRoute == {"unary", "meta", "stream", "duplex", "plain"}

MCCardinality ==
  [rt \in MCRoute |->
     CASE rt = "stream" -> "UNARY_STREAM"
       [] rt = "duplex" -> "STREAM_STREAM"
       [] OTHER -> "UNARY_UNARY"]

MCDependencies ==
  [rt \in MCRoute |->
     CASE rt = "unary" -> <<"generator", "asyncgen", "generator">>
       [] rt = "stream" -> <<"asyncgen", "generator">>
       [] rt = "duplex" -> <<"generator">>
       [] rt = "plain" -> <<"generator", "other">>
       [] rt = "meta" -> <<>>]

MCMetaKwargs == [rt \in MCRoute |-> IF rt = "meta" THEN {"key"} ELSE {}]
=============================================================================
