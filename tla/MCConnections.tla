---------------------------- MODULE MCConnections ----------------------------
(* The connection manager on a small instance. *)
EXTENDS Connections
=============================================================================
