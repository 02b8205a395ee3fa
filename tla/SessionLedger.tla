--------------------------- MODULE SessionLedger ---------------------------
(***************************************************************************)
(* What the session service promises, without its threads, connections,    *)
(* event channel and process: a ledger that changes by single authorised   *)
(* steps.  Sessions are opened, reported on, dismissed, renamed, killed    *)
(* and at last removed together with their history, whoever still works on *)
(* them.  A report is entered in the history first; it takes effect at     *)
(* most once, before its plugin reports again and while its session is     *)
(* there, or never (plugin_handlers.rs: the event row is inserted before   *)
(* the payload is looked at).  What was removed never comes back.          *)
(***************************************************************************)
EXTENDS SessionTable

CONSTANT Reports

VARIABLES
  sessions,  \* the rows
  events,    \* the history: a set of [id, report]
  pending    \* of each plugin, the entry that has not taken effect yet

vars == <<sessions, events, pending>>

Nothing == [id |-> None, report |-> None]

(* A row without owner is one of session.create: it has no pane either.     *)
Open(id) ==
  /\ sessions[id].status = "absent"
  /\ \E owner \in Plugins \cup {None}, pane \in Panes \cup {None}, n \in Names :
       /\ owner = None <=> pane = None
       /\ BindingFree(sessions, pane)
       /\ sessions' = Insert(sessions, id, NewRow(owner, pane, n))
  /\ UNCHANGED <<events, pending>>

(* Only the owner makes a report that changes its row.                      *)
Enter(p) ==
  /\ pending[p] = Nothing
  /\ \E id \in Ids, r \in Reports :
       /\ Exists(sessions, id)
       /\ Mutating(r.kind) => sessions[id].owner = p
       /\ events' = events \cup {[id |-> id, report |-> r]}
       /\ pending' = [pending EXCEPT ![p] = [id |-> id, report |-> r]]
  /\ UNCHANGED sessions

TakeEffect(p) ==
  LET e == pending[p] IN
    /\ e # Nothing
    /\ Exists(sessions, e.id) /\ e \in events /\ sessions[e.id].owner = p
    /\ ~NoEffect(e.report)
    /\ sessions' = Applied(sessions, e.id, e.report)
    /\ pending' = [pending EXCEPT ![p] = Nothing]
    /\ UNCHANGED events

(* A report without effect or without a session, or a process that ends.    *)
Forget(ps) ==
  /\ UNCHANGED <<sessions, events>>
  /\ pending' = [p \in Plugins |-> IF p \in ps THEN Nothing ELSE pending[p]]

(* Dismissing needs an error that was reported, not one that still lasts.   *)
Dismiss(id) ==
  /\ Exists(sessions, id)
  /\ [id |-> id, report |-> [kind |-> "session.status_changed", val |-> "errored"]] \in events
  /\ sessions' = UpdateStatus(sessions, id, "idle")
  /\ UNCHANGED <<events, pending>>

Kill(id) ==
  /\ Exists(sessions, id)
  /\ sessions' = MarkFinished(sessions, id, "recent")
  /\ UNCHANGED <<events, pending>>

Rename(id) ==
  /\ Exists(sessions, id)
  /\ \E n \in Names : sessions' = UpdateRename(sessions, id, n)
  /\ UNCHANGED <<events, pending>>

Age(id) ==
  /\ sessions[id].finished_at = "recent"
  /\ sessions' = Expire(sessions, id)
  /\ UNCHANGED <<events, pending>>

(* What finished long ago goes at once, with its history and nothing else.  *)
Collect ==
  /\ sessions' = DeleteTombstones(sessions)
  /\ events' = {e \in events : ~Tombstone(sessions[e.id])}
  /\ UNCHANGED pending

Init ==
  /\ sessions = [id \in Ids |-> NoRow("absent")]
  /\ events = {}
  /\ pending = [p \in Plugins |-> Nothing]

Next ==
  \/ \E ps \in SUBSET Plugins : Forget(ps)
  \/ \E p \in Plugins : Enter(p) \/ TakeEffect(p)
  \/ \E id \in Ids : Open(id) \/ Dismiss(id) \/ Kill(id) \/ Rename(id) \/ Age(id)
  \/ Collect

Spec == Init /\ [][Next]_vars
=============================================================================
