---------------------------- MODULE MCTuiReplica ----------------------------
(* TuiReplica on small instances; the constants come from the .cfg. *)
EXTENDS TuiReplica, FiniteSets

Fields == {"used", "total"}

(* A usage report that has every field. *)
Complete == [u \in Usages |-> [f \in Fields |-> 1]]

(* One report of each kind that changes a row. *)
PlainReports == {[kind |-> "session.status_changed", val |-> "working"],
                 [kind |-> "session.finished",       val |-> "recent"]}
                \cup [kind : {"session.task_changed"}, val : Tasks]
                \cup [kind : {"session.usage_updated"}, val : Usages]

(* Errors can be dismissed while the plugin goes on. *)
RaceReports == [kind : {"session.status_changed"}, val : {"working", "errored"}]

(* Bound on the different reports of a run.                                *)
MaxHistory == 1

(* A plugin says hello before it does anything else.                        *)
Greeted ==
  \A p \in Plugins :
    plugins[p] = "connected" \/ conn[p].pc \in {"idle", "hello_touch", "hello_emit"}

(* After a loss or a race nothing is promised of the rest of the run; the   *)
(* handlers of a stopped daemon end before the next dashboard starts.      *)
Promised ==
  /\ ~raced /\ ~lost
  /\ late # {} => tui = "off"
  /\ Greeted
  /\ Cardinality(events) <= MaxHistory
=============================================================================
