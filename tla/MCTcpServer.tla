----------------------------- MODULE MCTcpServer -----------------------------
(* TLC instance of TcpServer.  No symmetry: the runs check liveness. *)
EXTENDS TcpServer
=============================================================================
