------------------------------ MODULE MCDaemon ------------------------------
(***************************************************************************)
(* TLC instances of Daemon; the constants are given in the configurations. *)
(***************************************************************************)
EXTENDS Daemon
=============================================================================
