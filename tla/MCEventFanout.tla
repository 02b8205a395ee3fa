--------------------------- MODULE MCEventFanout ---------------------------
(* EventFanout on small instances; the constants come from the .cfg. *)
EXTENDS EventFanout
=============================================================================
