----------------------------- MODULE MCHttpCall -----------------------------
(* Routes of the cardinalities the handler tells apart, and two requests   *)
(* to any of them.                                                         *)
EXTENDS HttpCall

MCRoute == {"unary", "stream", "duplex"}
MCCardinality ==
  [rt \in MCRoute |->
     CASE rt = "stream" -> "UNARY_STREAM"
       [] rt = "duplex" -> "STREAM_STREAM"
       [] OTHER -> "UNARY_UNARY"]
=============================================================================
