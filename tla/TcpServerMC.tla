----------------------------- MODULE TcpServerMC -----------------------------
(***************************************************************************)
(* TcpServer with two connections: as an echo server with one sub loop, and *)
(* as an HTTP server on the main loop alone that closes idle connections.   *)
(* For the defect of the two together, one connection is enough.            *)
(***************************************************************************)
EXTENDS TcpServer

EchoAndSingle == {<<1, FALSE>>, <<0, TRUE>>}
ThreadsAndAutoClose == {<<1, TRUE>>}
==============================================================================
