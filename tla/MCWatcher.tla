------------------------------ MODULE MCWatcher -------------------------------
(* The watcher on a small instance. *)
EXTENDS Watcher
=============================================================================
