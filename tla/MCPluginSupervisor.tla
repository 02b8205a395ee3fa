------------------------- MODULE MCPluginSupervisor -------------------------
(* PluginSupervisor on small instances; the constants come from the .cfg. *)
EXTENDS PluginSupervisor
=============================================================================
