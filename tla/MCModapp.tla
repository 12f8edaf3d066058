------------------------------ MODULE MCModapp ------------------------------
(* One transport of each kind, as in a server that has them all.           *)
EXTENDS Modapp

MCTransport == {"g", "w", "m"}

MCKind ==
  [t \in MCTransport |->
     CASE t = "g" -> "grpc"
       [] t = "w" -> "web_socketify"
       [] t = "m" -> "inmemory"]
=============================================================================
