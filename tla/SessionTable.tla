---------------------------- MODULE SessionTable ----------------------------
(***************************************************************************)
(* The daemon's SQLite tables `sessions` and `session_events`, as values,  *)
(* and the statements that db/repo.rs and daemon.rs run on them.  A table  *)
(* of sessions is a function from row ids to rows; an id whose row was     *)
(* never inserted is "absent", one whose row was deleted is "gone" (ids    *)
(* are v7 UUIDs and are never used twice).                                 *)
(*                                                                         *)
(* Timestamps are abstracted to what the tombstone collector tells apart:  *)
(* "recent" or "expired" (more than thirty days old).  The columns that no *)
(* handler branches on (agent_type, working_dir, model, created_at,        *)
(* last_event_at) are left out; `owner` is metadata["plugin"] and `pane`   *)
(* the pair (tmux_session, tmux_pane_id).                                  *)
(***************************************************************************)
EXTENDS Naturals

CONSTANTS
  Ids,      \* primary keys of session rows
  Panes,    \* (tmux_session, tmux_pane_id) pairs
  Plugins,  \* plugin names
  Names,    \* display names
  Tasks,    \* current_task texts
  Usages,   \* (used, total, cost) triples
  None      \* SQL NULL, Option::None

ASSUME NoneAssumption ==
  None \notin Ids \cup Panes \cup Plugins \cup Names \cup Tasks \cup Usages

-----------------------------------------------------------------------------
(* SessionStatus, agentd-protocol/src/status.rs. *)
Statuses == {"starting", "idle", "working", "waiting_for_user", "errored", "finished"}

IsTerminal(s) == s = "finished"

Ages == {"recent", "expired"}

ASSUME NoneIsNoString == None \notin Statuses \cup Ages

Row == [ status       : Statuses \cup {"absent", "gone"},
         finished_at  : Ages \cup {None},
         owner        : Plugins \cup {None},
         pane         : Panes \cup {None},
         display_name : Names \cup {None},
         current_task : Tasks \cup {None},
         usage        : Usages \cup {None} ]

NoRow(s) == [ status |-> s, finished_at |-> None, owner |-> None, pane |-> None,
              display_name |-> None, current_task |-> None, usage |-> None ]

Exists(t, id) == t[id].status \in Statuses

Gone(t, id) == t[id].status = "gone"

(* The rows that `list_non_finished` returns. *)
NonFinished(t) == {id \in DOMAIN t : Exists(t, id) /\ ~IsTerminal(t[id].status)}

-----------------------------------------------------------------------------
(* The row a handler builds for `insert`: status `starting`, everything    *)
(* that only later reports fill in is NULL.                                *)
NewRow(owner, pane, name) ==
  [ status |-> "starting", finished_at |-> None, owner |-> owner, pane |-> pane,
    display_name |-> name, current_task |-> None, usage |-> None ]

(* idx_sessions_tmux: unique over (tmux_session, tmux_pane_id) where both   *)
(* are set.  The index covers finished rows as well.                       *)
BindingFree(t, pane) ==
  pane # None => \A id \in Ids : Exists(t, id) => t[id].pane # pane

Insert(t, id, row) == [t EXCEPT ![id] = row]

UpdateStatus(t, id, s) == [t EXCEPT ![id] = [@ EXCEPT !.status = s]]

UpdateTask(t, id, task) == [t EXCEPT ![id] = [@ EXCEPT !.current_task = task]]

UpdateUsage(t, id, u) == [t EXCEPT ![id] = [@ EXCEPT !.usage = u]]

UpdateRename(t, id, n) == [t EXCEPT ![id] = [@ EXCEPT !.display_name = n]]

(* update_tmux, once the unique index agrees.                               *)
UpdateTmux(t, id, pane) == [t EXCEPT ![id] = [@ EXCEPT !.pane = pane]]

MarkFinished(t, id, at) ==
  [t EXCEPT ![id] = [@ EXCEPT !.status = "finished", !.finished_at = at]]

DeleteRow(t, id) == [t EXCEPT ![id] = NoRow("gone")]

-----------------------------------------------------------------------------
(* The kinds of session.report_event that change the row.                  *)
Mutating(kind) ==
  kind \in {"session.status_changed", "session.task_changed",
            "session.usage_updated", "session.finished"}

BadStatus == "bogus"

(* The update each kind makes to the row. *)
Applied(t, id, r) ==
  CASE r.kind = "session.status_changed" -> UpdateStatus(t, id, r.val)
    [] r.kind = "session.task_changed"   -> UpdateTask(t, id, r.val)
    [] r.kind = "session.usage_updated"  -> UpdateUsage(t, id, r.val)
    [] r.kind = "session.finished"       -> MarkFinished(t, id, r.val)

(* A report has no effect on the row when its kind is not a mutating one,  *)
(* the payload lacks the field, or the status is unknown: the last answers *)
(* InvalidParams, with the event row already in.                           *)
NoEffect(r) ==
  ~Mutating(r.kind) \/ r.val = None \/ (r.kind = "session.status_changed" /\ r.val = BadStatus)

-----------------------------------------------------------------------------
(* Tombstones: rows the boot-time DELETE selects.  A NULL finished_at       *)
(* compares as NULL, so such a row is never selected.                      *)
Tombstone(row) == row.status = "finished" /\ row.finished_at = "expired"

DeleteTombstones(t) ==
  [id \in Ids |-> IF Tombstone(t[id]) THEN NoRow("gone") ELSE t[id]]

(* session_events rows whose session exists: the complement of what the     *)
(* orphan DELETE removes, and what ON DELETE CASCADE leaves.               *)
WithSession(ev, t) == {e \in ev : Exists(t, e.id)}

(* ThirtyDaysLater: a finished_at that was recent is past the horizon.      *)
Expire(t, id) == [t EXCEPT ![id] = [@ EXCEPT !.finished_at = "expired"]]
=============================================================================
