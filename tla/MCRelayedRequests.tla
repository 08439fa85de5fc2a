------------------------- MODULE MCRelayedRequests -------------------------
(* Instances of RelayedRequests: every operation, with and without a host  *)
(* function, on a connection that may break and a server that may stop.    *)
EXTENDS RelayedRequests

Everything == [op : Ops, host : BOOLEAN, lost : BOOLEAN, stops : {TRUE}]

(* Queries to a server that may lack the host's help, or be lost.          *)
Queries == [op : {"query"}, host : BOOLEAN, lost : {TRUE}, stops : {FALSE}]
=============================================================================
