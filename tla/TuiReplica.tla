----------------------------- MODULE TuiReplica -----------------------------
(***************************************************************************)
(* The dashboard (tui/) as a replica of the session table: it subscribes,  *)
(* takes a snapshot, and from then on patches its rows from the events.    *)
(*                                                                         *)
(* Composes SessionService with one subscriber.  The queue of the serving  *)
(* thread and the socket are one lossless channel here, which may be cut;  *)
(* EventFanout shows that of the code.  The dashboard runs on a single-    *)
(* threaded runtime whose main loop blocks in event::poll, so its reader   *)
(* task runs only while the loop awaits an answer from the daemon.         *)
(***************************************************************************)
EXTENDS SessionService

CONSTANTS
  UsageFields,  \* used, total, cost_usd
  FieldsOf,     \* the fields of each usage report, None where one is missing
  RxCapacity,   \* of the dashboard's broadcast channel
  MaxStream     \* bound on the undelivered events of one subscription

ASSUME UsagesHaveFields == \A u \in Usages : FieldsOf[u] = [f \in UsageFields |-> FieldsOf[u][f]]

ASSUME ReplicaBounds == RxCapacity \in Nat \ {0} /\ MaxStream \in Nat

VARIABLES
  tui,     \* "off", awaiting the "snapshot", "running", or "calling" the daemon
  linked,  \* the daemon's thread still pushes events to the dashboard
  stream,  \* events pushed, not yet read by the reader task
  rx,      \* events read, not yet applied by the main loop
  view,    \* TuiState.sessions: what the dashboard shows of each session
  lost,    \* history: an event was overwritten in the bus or in rx
  raced    \* history: this daemon's handlers were not alone with a session

tuiVars == <<tui, linked, stream, rx, view, lost, raced>>

-----------------------------------------------------------------------------
NoView == [status |-> "absent"]

NoUsage == [f \in UsageFields |-> None]

(* A row as the snapshot and the created and discovered events carry it.   *)
Shown(row) ==
  [ status |-> row.status, display_name |-> row.display_name,
    current_task |-> row.current_task,
    usage |-> IF row.usage = None THEN NoUsage ELSE FieldsOf[row.usage] ]

Shows(id) == view[id] # NoView

(* TuiState::from_snapshot of State::capture: every row, finished or not.   *)
FromSnapshot == [id \in Ids |-> IF Exists(sessions, id) THEN Shown(sessions[id]) ELSE NoView]

(* A field that is missing from a usage event keeps its old value.          *)
PatchUsage(old, new) == [f \in UsageFields |-> IF new[f] = None THEN old[f] ELSE new[f]]

(* TuiState::apply_event: the kinds that change a row the dashboard has.    *)
Patching == {"session.renamed", "session.status_changed", "session.dismissed_error",
             "session.task_changed", "session.usage_updated"}

Patch(row, e) ==
  CASE e.kind = "session.renamed"         -> [row EXCEPT !.display_name = e.val]
    [] e.kind = "session.status_changed"  -> [row EXCEPT !.status = e.val]
    [] e.kind = "session.dismissed_error" -> [row EXCEPT !.status = "idle"]
    [] e.kind = "session.task_changed"    -> [row EXCEPT !.current_task = e.val]
    [] e.kind = "session.usage_updated"   -> [row EXCEPT !.usage = PatchUsage(@, FieldsOf[e.val])]

ApplyEvent(v, e) ==
  CASE e.kind \in {"session.created", "session.discovered"} ->
         [v EXCEPT ![e.id] = Shown(NewRow(None, None, e.val))]
    [] e.kind \in {"session.killed", "session.finished"} ->
         [v EXCEPT ![e.id] = NoView]
    [] e.kind \in Patching /\ v[e.id] # NoView -> [v EXCEPT ![e.id] = Patch(@, e)]
    [] OTHER -> v

-----------------------------------------------------------------------------
(* An emit on a full channel overwrote an event the forwarder had not read. *)
Overwritten == Len(bus) = BusCapacity /\ Len(bus') = BusCapacity /\ bus # bus'

(* Two handlers are under way on one session: the order of their emits need *)
(* not be that of their writes.                                            *)
Meet ==
  \/ \E w \in Workers, p \in Plugins : ctl[w].id # None /\ ctl[w].id = conn[p].id
  \/ \E v, w \in Workers : v # w /\ ctl[v].id # None /\ ctl[v].id = ctl[w].id
  \/ \E p, q \in Plugins : p # q /\ conn[p].id # None /\ conn[p].id = conn[q].id

(* While the daemon serves, two handlers meet, or one of an earlier process *)
(* still writes, whose emits reach no dashboard.                           *)
Disturbed == phase = "serving" /\ (Meet \/ late # {})

(* Another process collects a row beside the daemon, and tells nobody.      *)
Swept == phase = "serving" /\ \E id \in Ids : Exists(sessions, id) /\ Gone(sessions', id)

(* The daemon's steps other than the forwarder's, and the steps of other    *)
(* processes on its tables.                                                *)
Serve ==
  /\ \/ \E w \in Workers : Control(w)
     \/ \E p \in Plugins : Plugin(p)
     \/ BootGcEvents \/ BootGcSessions
     \/ LateEnds \/ StrayGc
     \/ ThirtyDaysPass
  /\ lost' = (lost \/ (linked /\ Overwritten))
  /\ raced' = (raced \/ Disturbed' \/ Swept)
  /\ UNCHANGED <<tui, linked, stream, rx, view>>

(* What the serving thread had queued but not written is gone.              *)
Unlink ==
  /\ linked' = FALSE
  /\ \E n \in 0..Len(stream) : stream' = SubSeq(stream, 1, n)

DaemonStops == Stop /\ Unlink /\ raced' = FALSE /\ UNCHANGED <<tui, rx, view, lost>>

Push ==
  /\ linked => Len(stream) < MaxStream
  /\ Forward
  /\ stream' = IF linked THEN Append(stream, Head(bus)) ELSE stream
  /\ UNCHANGED <<tui, linked, rx, view, lost, raced>>

(* The socket is full: write_response fails, and the stream has ended.      *)
Cut ==
  /\ linked
  /\ stream # << >>
  /\ Unlink
  /\ UNCHANGED <<vars, tui, rx, view, lost, raced>>

(* connect_and_subscribe; then state.snapshot, on a connection of its own.  *)
Subscribe ==
  /\ tui = "off"
  /\ phase = "serving"
  /\ tui' = "snapshot"
  /\ linked' = TRUE
  /\ UNCHANGED <<vars, stream, rx, view, lost, raced>>

(* Bug: the snapshot is a list of active sessions. *)
BugActiveOnly ==
  /\ tui = "snapshot"
  /\ phase = "serving"
  /\ tui' = "running"
  /\ view' = [id \in Ids |-> IF sessions[id].status \in {"idle", "working"}
                              THEN Shown(sessions[id]) ELSE NoView]
  /\ UNCHANGED <<vars, linked, stream, rx, lost, raced>>

Snapshot ==
  /\ tui = "snapshot"
  /\ phase = "serving"
  /\ tui' = "running"
  /\ view' = FromSnapshot
  /\ UNCHANGED <<vars, linked, stream, rx, lost, raced>>

(* The reader task gets its turn only while the main loop awaits an answer. *)
Awaiting == tui \in {"snapshot", "calling"}

ReadFrame ==
  /\ Awaiting
  /\ stream # << >>
  /\ stream' = Tail(stream)
  /\ rx' = Append(IF Len(rx) < RxCapacity THEN rx ELSE Tail(rx), Head(stream))
  /\ lost' = (lost \/ Len(rx) = RxCapacity)
  /\ UNCHANGED <<vars, tui, linked, view, raced>>

(* The main loop drains rx before it looks at the keyboard.                 *)
Apply ==
  /\ tui = "running"
  /\ rx # << >>
  /\ rx' = Tail(rx)
  /\ view' = ApplyEvent(view, Head(rx))
  /\ UNCHANGED <<vars, tui, linked, stream, lost, raced>>

(* Enter, x, c or the end of a rename: handle_key awaits ControlClient::call.*)
(* The drain before it stops early only at Lagged, which tells of a loss.   *)
Call ==
  /\ tui = "running"
  /\ rx = << >> \/ lost
  /\ tui' = "calling"
  /\ UNCHANGED <<vars, linked, stream, rx, view, lost, raced>>

Answered ==
  /\ tui = "calling"
  /\ tui' = "running"
  /\ UNCHANGED <<vars, linked, stream, rx, view, lost, raced>>

(* The user quits, or the snapshot fails because the daemon is gone.        *)
Quit ==
  /\ tui = "running" \/ (tui = "snapshot" /\ phase # "serving")
  /\ tui' = "off"
  /\ linked' = FALSE
  /\ stream' = << >>
  /\ rx' = << >>
  /\ view' = [id \in Ids |-> NoView]
  /\ lost' = FALSE
  /\ UNCHANGED <<vars, raced>>

TuiInit ==
  /\ Init
  /\ tui = "off"
  /\ linked = FALSE
  /\ stream = << >>
  /\ rx = << >>
  /\ view = [id \in Ids |-> NoView]
  /\ lost = FALSE
  /\ raced = FALSE

Dashboard == ReadFrame \/ Apply \/ Answered

TuiNext ==
  \/ Serve \/ DaemonStops \/ Push \/ Cut
  \/ Subscribe \/ Snapshot \/ Call \/ Quit \/ Dashboard

TuiSpec == TuiInit /\ [][TuiNext]_<<vars, tuiVars>>

-----------------------------------------------------------------------------
(* Properties. *)

(* Type correctness of the dashboard's channels and rows.                   *)
TuiTypeOK ==
  /\ tui \in {"off", "snapshot", "running", "calling"}
  /\ {linked, lost, raced} \subseteq BOOLEAN
  /\ stream \in Seq(BusEvent) /\ Len(stream) <= MaxStream
  /\ rx \in Seq(BusEvent) /\ Len(rx) <= RxCapacity
  /\ \A id \in Ids :
       \/ view[id] = NoView
       \/ /\ view[id].status \in Statuses
          /\ view[id].display_name \in Names
          /\ view[id].current_task \in Tasks \cup {None}
          /\ DOMAIN view[id].usage = UsageFields

(* Everything the dashboard shows of a session was recorded by the daemon:  *)
(* whatever races, losses and restarts do to its rows, it shows no status  *)
(* or task that no plugin reported (session_report_event writes the event  *)
(* row before it announces).  Rows the collector deleted keep no history.  *)
ViewExplained ==
  \A id \in Ids : Shows(id) /\ Exists(sessions, id) =>
    /\ view[id].status \in {"working", "waiting_for_user", "errored"} =>
         Recorded(id, "session.status_changed", view[id].status)
    /\ view[id].status = "idle" =>
         \/ Recorded(id, "session.status_changed", "idle")
         \/ Recorded(id, "session.status_changed", "errored")
    /\ view[id].current_task # None =>
         Recorded(id, "session.task_changed", view[id].current_task)

(* An event on its way to the dashboard is about a row that was inserted,   *)
(* and while that row is there table and history have what the event says. *)
Backed(e) ==
  e.kind \notin {"plugin.connected", "daemon.shutting_down"} =>
    /\ e.id \in Ids /\ sessions[e.id].status # "absent"
    /\ e.kind = "session.usage_updated" => e.val \in Usages
    /\ Exists(sessions, e.id) =>
         /\ e.kind \in {"session.status_changed", "session.task_changed"} =>
              Recorded(e.id, e.kind, e.val)
         /\ e.kind = "session.dismissed_error" =>
              Recorded(e.id, "session.status_changed", "errored")
         /\ e.kind \in {"session.killed", "session.finished"} => sessions[e.id].finished_at # None

ChannelsBacked ==
  /\ stream \in Seq(BusEvent) /\ \A i \in 1..Len(stream) : Backed(stream[i])
  /\ rx \in Seq(BusEvent) /\ \A i \in 1..Len(rx) : Backed(rx[i])

(* A row the dashboard shows is whole, and was inserted by the daemon: its  *)
(* id will not be given to another session.                                *)
ViewKnown ==
  /\ DOMAIN view = Ids
  /\ \A id \in Ids : Shows(id) =>
       /\ DOMAIN view[id] = {"status", "display_name", "current_task", "usage"}
       /\ sessions[id].status # "absent"

(* The inductive invariant behind ViewExplained.                            *)
TuiInv == ChannelsBacked /\ ViewKnown /\ ViewExplained

(* Nothing is under way and nothing was lost.                               *)
Quiet ==
  /\ phase = "serving"
  /\ \A w \in Workers : ctl[w] = IdleCtl
  /\ \A p \in Plugins : conn[p] = IdleConn
  /\ bus = << >> /\ stream = << >> /\ rx = << >>
  /\ tui = "running" /\ linked /\ ~lost

(* The dashboard shows the table: every session that has not ended, and     *)
(* what it shows of a session is what the row says.                        *)
ShowsTable ==
  \A id \in Ids :
    /\ Exists(sessions, id) /\ sessions[id].finished_at = None => Shows(id)
    /\ Shows(id) => view[id] = Shown(sessions[id])

(* When the daemon is quiet the dashboard shows the table, whatever was     *)
(* queued between its subscription and its snapshot, unless two handlers   *)
(* were ever under way on one session at once or another process wrote to  *)
(* the tables.                                                             *)
Converged == Quiet /\ ~raced => ShowsTable

(* plugin_handlers.rs:187-190: events carry "just the changed field so      *)
(* subscribers can patch UI state without refetching the full session",    *)
(* whichever handlers run at once.                                         *)
PatchingSuffices == Quiet => ShowsTable

=============================================================================
