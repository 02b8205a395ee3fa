----------------------------- MODULE MCDaemonCli -----------------------------
(* DaemonCli on a small instance; the constants come from the .cfg. *)
EXTENDS DaemonCli
=============================================================================
