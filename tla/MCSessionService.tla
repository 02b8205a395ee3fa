-------------------------- MODULE MCSessionService --------------------------
(* SessionService on small instances; the constants come from the .cfg. *)
EXTENDS SessionService, FiniteSets, TLC

(* The error that can be dismissed, a message, which any plugin may send    *)
(* about any session, and the end of the session.                          *)
RaceReports == {[kind |-> "session.status_changed", val |-> "errored"],
                [kind |-> "session.message",        val |-> None],
                [kind |-> "session.finished",       val |-> "recent"]}

Interchangeable == Permutations(Workers) \cup Permutations(Plugins)

(* A plugin says hello before it does anything else, as the opencode plugin *)
(* does; hello writes only the plugins table, which no other handler reads.*)
Greeted ==
  \A p \in Plugins :
    plugins[p] = "connected" \/ conn[p].pc \in {"idle", "hello_touch", "hello_emit"}

(* At most two handlers are in the middle of a request or have outlived     *)
(* their process, at most one of them the latter.                          *)
Few ==
  /\ Cardinality({w \in Workers : ctl[w].pc # "idle" \/ w \in late})
       + Cardinality({p \in Plugins : conn[p].pc # "idle" \/ p \in late}) <= 2
  /\ Cardinality(late) <= 1

Bounds == Greeted /\ Few
=============================================================================
