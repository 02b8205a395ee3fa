------------------------- MODULE MCDaemonLifecycle -------------------------
(* DaemonLifecycle on small instances; the constants come from the .cfg. *)
EXTENDS DaemonLifecycle
=============================================================================
