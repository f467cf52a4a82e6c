-------------------------- MODULE MCRequestPipeline --------------------------
(* RequestPipeline with two requests of two clients behind one proxy.  The    *)
(* limit of one request makes the second of a client the one to be refused.   *)
EXTENDS RequestPipeline

CONSTANTS request1, request2

MCRequests == {request1, request2}
MCClients == {"alice", "bob"}
MCHeaders == {<<>>, <<"bob">>}
MCProxies == <<"balancer">>
=============================================================================
