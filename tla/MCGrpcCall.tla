----------------------------- MODULE MCGrpcCall -----------------------------
(* One unary and one streaming call.                                       *)
EXTENDS GrpcCall

MCRequest == {"UNARY_UNARY", "UNARY_STREAM"}
MCCardinality == [r \in MCRequest |-> r]
=============================================================================
