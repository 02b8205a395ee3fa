--------------------------- MODULE SessionService ---------------------------
(***************************************************************************)
(* The daemon's request handlers over the shared session table.            *)
(*                                                                         *)
(* Every control connection runs on its own blocking thread with its own   *)
(* SQLite connection (handlers/router.rs, ipc/control.rs), every plugin    *)
(* connection is a task of the multi-threaded runtime with its own SQLite  *)
(* connection (plugin_supervisor.rs).  No transaction spans two statements *)
(* and no lock spans a handler, so a handler is a sequence of atomic       *)
(* steps, one per SQL statement or bus emit, and the steps of different    *)
(* handlers interleave.  The process may die between any two steps.        *)
(*                                                                         *)
(* A daemon that stops by itself aborts only the task that started the     *)
(* accept loop, ends the plugins' processes and gives up its lock; its     *)
(* handlers run on until the runtime is dropped, beside the next daemon.   *)
(* They are `late` here: nobody listens to their process any more, but     *)
(* they write the same tables.  The next daemon collects tombstones at     *)
(* boot, and a further process that took a fresh lock file collects them   *)
(* at any time (module DaemonLifecycle), so a handler may find that the    *)
(* row it looked up is gone.                                               *)
(***************************************************************************)
EXTENDS SessionTable, Sequences

CONSTANTS
  Workers,        \* threads serving control connections
  Reports,        \* the session.report_event payloads plugins send
  BusCapacity     \* capacity of the tokio broadcast channel

ASSUME BusCapacityAssumption == BusCapacity \in Nat \ {0}

ASSUME HandlersApart == Workers \cap Plugins = {}

VARIABLES
  sessions,  \* the sessions table
  events,    \* the session_events table, as a set of [id, report]
  plugins,   \* the plugins table: "absent", "known" or "connected"
  bus,       \* events in the broadcast channel the forwarder has not read
  ctl,       \* local state of each control thread
  conn,      \* local state of each plugin connection
  phase,     \* of the daemon process: "down", "boot" or "serving"
  late       \* the threads and connections that belong to an earlier process

vars == <<sessions, events, plugins, bus, ctl, conn, phase, late>>

db == <<sessions, events, plugins>>

-----------------------------------------------------------------------------
(* What a plugin may send in `session.report_event`.  A status is one the  *)
(* daemon knows, an unknown word, or missing from the payload; `finished`  *)
(* carries the plugin's own timestamp.                                     *)
StatusReports == [kind : {"session.status_changed"}, val : Statuses \cup {BadStatus, None}]
TaskReports   == [kind : {"session.task_changed"},   val : Tasks \cup {None}]
UsageReports  == [kind : {"session.usage_updated"},  val : Usages]
FinishReports == [kind : {"session.finished"},       val : Ages]
OtherReports  == [kind : {"session.message"},        val : {None}]

ASSUME ReportsAssumption ==
  Reports \subseteq StatusReports \cup TaskReports \cup UsageReports
                     \cup FinishReports \cup OtherReports

-----------------------------------------------------------------------------
(* Local state of a handler: where it is, the session it works on and the  *)
(* parsed request.  A request that fails its checks is answered with an    *)
(* error and leaves everything as it was: it is a stuttering step.         *)
CtlPcs == {"idle", "create_emit", "rename_emit", "dismiss_update", "dismiss_emit",
           "jump_switch", "kill_tmux", "kill_mark", "kill_emit"}

ConnPcs == {"idle", "hello_touch", "hello_emit", "discover_emit",
            "report_insert", "report_apply", "report_emit"}

NoReport == [kind |-> None, val |-> None]

IdleCtl == [pc |-> "idle", id |-> None, name |-> None]

IdleConn == [pc |-> "idle", id |-> None, name |-> None, report |-> NoReport]

(* How a handler moves from one shared access to the next.                 *)
Runs(h) == phase = "serving" \/ h \in late

CtlAt(w, pc) == Runs(w) /\ ctl[w].pc = pc

ConnAt(p, pc) == Runs(p) /\ conn[p].pc = pc

CtlGoto(w, pc) == ctl' = [ctl EXCEPT ![w] = [@ EXCEPT !.pc = pc]]

CtlStart(w, pc, id, n) == ctl' = [ctl EXCEPT ![w] = [pc |-> pc, id |-> id, name |-> n]]

CtlReply(w) == ctl' = [ctl EXCEPT ![w] = IdleCtl]

ConnGoto(p, pc) == conn' = [conn EXCEPT ![p] = [@ EXCEPT !.pc = pc]]

ConnStart(p, pc, id, n, rep) ==
  conn' = [conn EXCEPT ![p] = [pc |-> pc, id |-> id, name |-> n, report |-> rep]]

ConnReply(p) == conn' = [conn EXCEPT ![p] = IdleConn]

-----------------------------------------------------------------------------
(* Bug: the channel grows without bound. *)
BugUnboundedEmit(kind, id, val) ==
  bus' = Append(bus, [kind |-> kind, id |-> id, val |-> val])

(* EventBus::emit on a full broadcast channel overwrites the oldest event; *)
(* the forwarder learns of it as Lagged and carries on.                    *)
Emit(kind, id, val) ==
  LET e == [kind |-> kind, id |-> id, val |-> val]
  IN  bus' = Append(IF Len(bus) < BusCapacity THEN bus ELSE Tail(bus), e)

(* A late handler emits on the bus of its own process, whose forwarder is   *)
(* no more.                                                                *)
EmitFrom(h, kind, id, val) ==
  IF h \in late THEN UNCHANGED bus ELSE Emit(kind, id, val)

(* The bus forwarder of Daemon::run takes the oldest event and hands it to *)
(* the subscriber registry (module EventFanout).                           *)
Forward ==
  /\ phase = "serving"
  /\ bus # << >>
  /\ bus' = Tail(bus)
  /\ UNCHANGED <<db, ctl, conn, phase, late>>

-----------------------------------------------------------------------------
(* Control handlers, handlers/mutate.rs. *)

(* session_create: no plugin owns the row and it has no tmux binding. *)
SessionCreate(w) ==
  /\ CtlAt(w, "idle")
  /\ \E id \in Ids, n \in Names :
       /\ sessions[id].status = "absent"
       /\ sessions' = Insert(sessions, id, NewRow(None, None, n))
       /\ CtlStart(w, "create_emit", id, n)
  /\ UNCHANGED <<events, plugins, bus, conn, phase, late>>

SessionCreateEmit(w) ==
  /\ CtlAt(w, "create_emit")
  /\ EmitFrom(w, "session.created", ctl[w].id, ctl[w].name)
  /\ CtlReply(w)
  /\ UNCHANGED <<db, conn, phase, late>>

SessionRename(w) ==
  /\ CtlAt(w, "idle")
  /\ \E id \in Ids, n \in Names :
       /\ Exists(sessions, id)
       /\ sessions' = UpdateRename(sessions, id, n)
       /\ CtlStart(w, "rename_emit", id, n)
  /\ UNCHANGED <<events, plugins, bus, conn, phase, late>>

SessionRenameEmit(w) ==
  /\ CtlAt(w, "rename_emit")
  /\ EmitFrom(w, "session.renamed", ctl[w].id, ctl[w].name)
  /\ CtlReply(w)
  /\ UNCHANGED <<db, conn, phase, late>>

(* An UPDATE that finds no row is NotFound: an error reply, and no emit.    *)
CtlNotFound(w) == ~Exists(sessions, ctl[w].id) /\ CtlReply(w) /\ UNCHANGED sessions

(* session_dismiss_error reads the row, and only then writes `idle`: the    *)
(* status it checked may be stale by the time of the UPDATE.               *)
SessionDismissGet(w) ==
  /\ CtlAt(w, "idle")
  /\ \E id \in Ids :
       /\ Exists(sessions, id)
       /\ sessions[id].status = "errored"
       /\ CtlStart(w, "dismiss_update", id, None)
  /\ UNCHANGED <<db, bus, conn, phase, late>>

SessionDismissUpdate(w) ==
  /\ CtlAt(w, "dismiss_update")
  /\ \/ /\ Exists(sessions, ctl[w].id)
        /\ sessions' = UpdateStatus(sessions, ctl[w].id, "idle")
        /\ CtlGoto(w, "dismiss_emit")
     \/ CtlNotFound(w)
  /\ UNCHANGED <<events, plugins, bus, conn, phase, late>>

SessionDismissEmit(w) ==
  /\ CtlAt(w, "dismiss_emit")
  /\ EmitFrom(w, "session.dismissed_error", ctl[w].id, None)
  /\ CtlReply(w)
  /\ UNCHANGED <<db, conn, phase, late>>

(* session_jump writes no row; tmux may refuse. *)
SessionJumpGet(w) ==
  /\ CtlAt(w, "idle")
  /\ \E id \in Ids :
       /\ Exists(sessions, id)
       /\ sessions[id].pane # None
       /\ CtlStart(w, "jump_switch", id, None)
  /\ UNCHANGED <<db, bus, conn, phase, late>>

SessionJumpSwitch(w) ==
  /\ CtlAt(w, "jump_switch")
  /\ \/ EmitFrom(w, "session.jumped", ctl[w].id, None) /\ CtlReply(w)
     \/ CtlReply(w) /\ UNCHANGED bus
  /\ UNCHANGED <<db, conn, phase, late>>

(* session_kill: get and check, tmux kill-session (the result is ignored), *)
(* mark_finished, emit.                                                    *)
SessionKillGet(w) ==
  /\ CtlAt(w, "idle")
  /\ \E id \in Ids :
       /\ Exists(sessions, id)
       /\ ~IsTerminal(sessions[id].status)
       /\ CtlStart(w, IF sessions[id].pane # None THEN "kill_tmux" ELSE "kill_mark", id, None)
  /\ UNCHANGED <<db, bus, conn, phase, late>>

(* Bug: announce the kill before the row is written. *)
BugEarlyKillEmit(w) ==
  /\ CtlAt(w, "kill_tmux")
  /\ EmitFrom(w, "session.killed", ctl[w].id, None)
  /\ CtlGoto(w, "kill_mark")
  /\ UNCHANGED <<db, conn, phase, late>>

SessionKillTmux(w) ==
  /\ CtlAt(w, "kill_tmux")
  /\ CtlGoto(w, "kill_mark")
  /\ UNCHANGED <<db, bus, conn, phase, late>>

(* Bug: mark_finished puts the row back that session_kill has read. *)
BugKillUpsert(w) ==
  /\ CtlAt(w, "kill_mark")
  /\ sessions' = MarkFinished(sessions, ctl[w].id, "recent")
  /\ CtlGoto(w, "kill_emit")
  /\ UNCHANGED <<events, plugins, bus, conn, phase, late>>

SessionKillMark(w) ==
  /\ CtlAt(w, "kill_mark")
  /\ \/ /\ Exists(sessions, ctl[w].id)
        /\ sessions' = MarkFinished(sessions, ctl[w].id, "recent")
        /\ CtlGoto(w, "kill_emit")
     \/ CtlNotFound(w)
  /\ UNCHANGED <<events, plugins, bus, conn, phase, late>>

SessionKillEmit(w) ==
  /\ CtlAt(w, "kill_emit")
  /\ EmitFrom(w, "session.killed", ctl[w].id, None)
  /\ CtlReply(w)
  /\ UNCHANGED <<db, conn, phase, late>>

(* daemon.shutdown sets a flag that nothing reads (module DaemonLifecycle)  *)
(* and announces it.                                                       *)
DaemonShutdown(w) ==
  /\ CtlAt(w, "idle")
  /\ EmitFrom(w, "daemon.shutting_down", None, None)
  /\ CtlReply(w)
  /\ UNCHANGED <<db, conn, phase, late>>

Control(w) ==
  \/ SessionCreate(w) \/ SessionCreateEmit(w)
  \/ SessionRename(w) \/ SessionRenameEmit(w)
  \/ SessionDismissGet(w) \/ SessionDismissUpdate(w) \/ SessionDismissEmit(w)
  \/ SessionJumpGet(w) \/ SessionJumpSwitch(w)
  \/ SessionKillGet(w) \/ SessionKillTmux(w) \/ SessionKillMark(w) \/ SessionKillEmit(w)
  \/ DaemonShutdown(w)

-----------------------------------------------------------------------------
(* Plugin handlers, handlers/plugin_handlers.rs. *)

(* plugin_hello, from a plugin that gives the name its socket is bound for:*)
(* upsert the row, stamp it, announce it.                                  *)
PluginHello(p) ==
  /\ ConnAt(p, "idle")
  /\ plugins' = [plugins EXCEPT ![p] = IF @ = "absent" THEN "known" ELSE @]
  /\ ConnStart(p, "hello_touch", None, None, NoReport)
  /\ UNCHANGED <<sessions, events, bus, ctl, phase, late>>

PluginHelloTouch(p) ==
  /\ ConnAt(p, "hello_touch")
  /\ plugins' = [plugins EXCEPT ![p] = "connected"]
  /\ ConnGoto(p, "hello_emit")
  /\ UNCHANGED <<sessions, events, bus, ctl, phase, late>>

PluginHelloEmit(p) ==
  /\ ConnAt(p, "hello_emit")
  /\ EmitFrom(p, "plugin.connected", None, p)
  /\ ConnReply(p)
  /\ UNCHANGED <<db, ctl, phase, late>>

(* session_discover: a pane that any row is bound to, finished or not,     *)
(* fails the INSERT.                                                       *)
SessionDiscover(p) ==
  /\ ConnAt(p, "idle")
  /\ \E id \in Ids, pane \in Panes, n \in Names :
       /\ sessions[id].status = "absent"
       /\ BindingFree(sessions, pane)
       /\ sessions' = Insert(sessions, id, NewRow(p, pane, n))
       /\ ConnStart(p, "discover_emit", id, n, NoReport)
  /\ UNCHANGED <<events, plugins, bus, ctl, phase, late>>

SessionDiscoverEmit(p) ==
  /\ ConnAt(p, "discover_emit")
  /\ EmitFrom(p, "session.discovered", conn[p].id, conn[p].name)
  /\ ConnReply(p)
  /\ UNCHANGED <<db, ctl, phase, late>>

(* Bug: a row without owner may be reported on by anybody. *)
BugOpenAuthority(p, id, r) == Mutating(r.kind) => sessions[id].owner \in {p, None}

(* Bug: any plugin's row will do. *)
BugAnyOwner(p, id, r) == Mutating(r.kind) => sessions[id].owner # None

(* Bug: the event row is not written. *)
BugNoHistory(p) ==
  /\ ConnAt(p, "report_insert")
  /\ ConnGoto(p, "report_apply")
  /\ UNCHANGED <<db, bus, ctl, phase, late>>

(* session_report_event: look the session up, check write authority.       *)
Authoritative(p, id, r) == Mutating(r.kind) => sessions[id].owner = p

SessionReport(p) ==
  /\ ConnAt(p, "idle")
  /\ \E id \in Ids, r \in Reports :
       /\ Exists(sessions, id)
       /\ Authoritative(p, id, r)
       /\ ConnStart(p, "report_insert", id, None, r)
  /\ UNCHANGED <<db, bus, ctl, phase, late>>

(* The event row is written before its payload is looked at; the foreign   *)
(* key refuses it when the session is gone.                                *)
SessionReportInsert(p) ==
  /\ ConnAt(p, "report_insert")
  /\ \/ /\ Exists(sessions, conn[p].id)
        /\ events' = events \cup {[id |-> conn[p].id, report |-> conn[p].report]}
        /\ ConnGoto(p, "report_apply")
     \/ /\ ~Exists(sessions, conn[p].id)
        /\ ConnReply(p)
        /\ UNCHANGED events
  /\ UNCHANGED <<sessions, plugins, bus, ctl, phase, late>>

SessionReportApply(p) ==
  /\ ConnAt(p, "report_apply")
  /\ LET r == conn[p].report
     IN  \/ /\ NoEffect(r) \/ ~Exists(sessions, conn[p].id)
            /\ ConnReply(p)
            /\ UNCHANGED sessions
         \/ /\ ~NoEffect(r) /\ Exists(sessions, conn[p].id)
            /\ sessions' = Applied(sessions, conn[p].id, r)
            /\ ConnGoto(p, "report_emit")
  /\ UNCHANGED <<events, plugins, bus, ctl, phase, late>>

SessionReportEmit(p) ==
  /\ ConnAt(p, "report_emit")
  /\ EmitFrom(p, conn[p].report.kind, conn[p].id, conn[p].report.val)
  /\ ConnReply(p)
  /\ UNCHANGED <<db, ctl, phase, late>>

Plugin(p) ==
  \/ PluginHello(p) \/ PluginHelloTouch(p) \/ PluginHelloEmit(p)
  \/ SessionDiscover(p) \/ SessionDiscoverEmit(p)
  \/ SessionReport(p) \/ SessionReportInsert(p) \/ SessionReportApply(p) \/ SessionReportEmit(p)

-----------------------------------------------------------------------------
(* The process: it dies (killed, crashed or stopped) and boots again.       *)

(* The handlers outside `running` end where they are. *)
OnlyRunning(running) ==
  /\ ctl' = [w \in Workers |-> IF w \in running THEN ctl[w] ELSE IdleCtl]
  /\ conn' = [p \in Plugins |-> IF p \in running THEN conn[p] ELSE IdleConn]

(* A crash ends every handler of the process; the end of Daemon::run leaves *)
(* those that still run, and what they had accepted but not begun.  Its bus *)
(* has no listener any more.                                               *)
Stop ==
  /\ phase # "down"
  /\ phase' = "down"
  /\ bus' = << >>
  /\ \E left \in SUBSET (Workers \cup Plugins) :
       /\ phase = "boot" => left = {}
       /\ late' = late \cup left
       /\ OnlyRunning(late \cup left)
  /\ UNCHANGED db

(* The thread of a late handler ends, or the rest of its process.           *)
LateEnds ==
  /\ \E h \in late : late' = late \ {h} /\ OnlyRunning((Workers \cup Plugins) \ {h})
  /\ UNCHANGED <<db, bus, phase>>

(* tombstone_gc, first statement: orphaned events. *)
BootGcEvents ==
  /\ phase = "down"
  /\ phase' = "boot"
  /\ events' = WithSession(events, sessions)
  /\ UNCHANGED <<sessions, plugins, bus, ctl, conn, late>>

(* tombstone_gc, second statement: old finished sessions, whose events go  *)
(* with them (ON DELETE CASCADE).                                          *)
BootGcSessions ==
  /\ phase = "boot"
  /\ phase' = "serving"
  /\ sessions' = DeleteTombstones(sessions)
  /\ events' = WithSession(events, sessions')
  /\ UNCHANGED <<plugins, bus, ctl, conn, late>>

(* A process that locked a fresh lock file collects before its bind fails:  *)
(* tombstone_gc beside a daemon in any phase.                              *)
StrayGc ==
  /\ sessions' = DeleteTombstones(sessions)
  /\ events' = WithSession(events, sessions')
  /\ UNCHANGED <<plugins, bus, ctl, conn, phase, late>>

(* A finished session grows older than thirty days. *)
ThirtyDaysPass ==
  /\ \E id \in Ids :
       /\ sessions[id].finished_at = "recent"
       /\ sessions' = Expire(sessions, id)
  /\ UNCHANGED <<events, plugins, bus, ctl, conn, phase, late>>

Init ==
  /\ sessions = [id \in Ids |-> NoRow("absent")]
  /\ events = {}
  /\ plugins = [p \in Plugins |-> "absent"]
  /\ bus = << >>
  /\ ctl = [w \in Workers |-> IdleCtl]
  /\ conn = [p \in Plugins |-> IdleConn]
  /\ phase = "down"
  /\ late = {}

Next ==
  \/ \E w \in Workers : Control(w)
  \/ \E p \in Plugins : Plugin(p)
  \/ Forward
  \/ Stop \/ LateEnds \/ BootGcEvents \/ BootGcSessions \/ StrayGc
  \/ ThirtyDaysPass

Spec == Init /\ [][Next]_vars

-----------------------------------------------------------------------------
(* Properties. *)

Ctl == [pc : CtlPcs, id : Ids \cup {None}, name : Names \cup {None}]

Conn == [pc : ConnPcs, id : Ids \cup {None}, name : Names \cup {None},
         report : Reports \cup {NoReport}]

BusKinds == {"session.created", "session.discovered", "session.renamed",
             "session.dismissed_error", "session.jumped", "session.killed",
             "session.status_changed", "session.task_changed", "session.usage_updated",
             "session.finished", "plugin.connected", "daemon.shutting_down"}

BusVals == Names \cup Plugins \cup Statuses \cup Tasks \cup Usages \cup Ages \cup {None}

BusEvent == [kind : BusKinds, id : Ids \cup {None}, val : BusVals]

(* Type correctness of the tables, the channel and the handlers' locals. *)
TypeOK ==
  /\ sessions \in [Ids -> Row]
  /\ events \in SUBSET [id : Ids, report : Reports]
  /\ plugins \in [Plugins -> {"absent", "known", "connected"}]
  /\ bus \in Seq(BusEvent)
  /\ Len(bus) <= BusCapacity
  /\ ctl \in [Workers -> Ctl]
  /\ conn \in [Plugins -> Conn]
  /\ phase \in {"down", "boot", "serving"}
  /\ late \subseteq Workers \cup Plugins

(* The history table explains the row: a status, task or usage a session   *)
(* shows was recorded in session_events first (an `idle` may also come     *)
(* from dismissing a recorded error), so a crash between the two           *)
(* statements of session_report_event loses an effect, never a record.     *)
Recorded(id, kind, val) == [id |-> id, report |-> [kind |-> kind, val |-> val]] \in events

HistoryExplainsRow ==
  \A id \in Ids :
    LET row == sessions[id] IN
      /\ row.status \in {"working", "waiting_for_user", "errored"} =>
           Recorded(id, "session.status_changed", row.status)
      /\ row.status = "idle" =>
           \/ Recorded(id, "session.status_changed", "idle")
           \/ Recorded(id, "session.status_changed", "errored")
      /\ row.current_task # None => Recorded(id, "session.task_changed", row.current_task)
      /\ row.usage # None => Recorded(id, "session.usage_updated", row.usage)

(* A session made by session.create belongs to no plugin, so nothing ever  *)
(* reports on it: it stays `starting`, unbound and without task or usage,  *)
(* until it is killed, and for it finished_at is set exactly when it is    *)
(* finished.                                                               *)
UnownedOnlyKilled ==
  \A id \in Ids :
    LET row == sessions[id] IN
      Exists(sessions, id) /\ row.owner = None =>
        /\ row.status \in {"starting", "finished"}
        /\ row.status = "finished" <=> row.finished_at # None
        /\ row.pane = None /\ row.current_task = None /\ row.usage = None

(* What is on the bus already happened: an event is emitted only after the *)
(* write it announces, so a subscriber that re-reads on an event never     *)
(* sees an older table than the event implies, unless a collection took    *)
(* the row since.                                                          *)
Announced(e) ==
  CASE e.kind = "plugin.connected"    -> plugins[e.val] = "connected"
    [] e.kind = "session.created"     -> Exists(sessions, e.id) /\ sessions[e.id].owner = None
    [] e.kind = "session.discovered"  -> Exists(sessions, e.id) /\ sessions[e.id].owner # None
    [] e.kind = "session.killed"      -> sessions[e.id].finished_at # None
    [] e.kind = "session.finished"    -> sessions[e.id].finished_at # None
    [] e.kind = "session.dismissed_error" -> Recorded(e.id, "session.status_changed", "errored")
    [] e.kind = "session.jumped"      -> sessions[e.id].pane # None
    [] e.kind = "session.renamed"     -> Exists(sessions, e.id)
    [] e.kind = "daemon.shutting_down" -> TRUE
    [] OTHER                          -> Recorded(e.id, e.kind, e.val)

Collected(e) == e.id \in Ids /\ Gone(sessions, e.id)

BusAfterWrite == \A i \in 1..Len(bus) : Collected(bus[i]) \/ Announced(bus[i])

(* No event row outlives its session: the boot-time orphan sweep never     *)
(* finds anything, because foreign keys cascade.                           *)
NoOrphanEvents == \A e \in events : Exists(sessions, e.id)

(* Write authority: while a row exists its owner never changes, and its    *)
(* status, task or usage changes only in a step of the owner's own         *)
(* connection, of a kill (to finished) or of a dismissal (to idle).        *)
OwnersWrite(id) ==
  \/ \E p \in Plugins : /\ conn[p].pc = "report_apply" /\ conn[p].id = id
                        /\ sessions[id].owner = p
  \/ /\ \E w \in Workers : ctl[w].pc = "kill_mark" /\ ctl[w].id = id
     /\ sessions'[id] = [sessions[id] EXCEPT !.status = "finished", !.finished_at = "recent"]
  \/ /\ \E w \in Workers : ctl[w].pc = "dismiss_update" /\ ctl[w].id = id
     /\ sessions'[id] = [sessions[id] EXCEPT !.status = "idle"]

WriteAuthority ==
  [][\A id \in Ids :
       Exists(sessions, id) /\ Exists(sessions', id) =>
         /\ sessions'[id].owner = sessions[id].owner
         /\ sessions'[id].pane = sessions[id].pane
         /\ \/ /\ sessions'[id].status = sessions[id].status
               /\ sessions'[id].current_task = sessions[id].current_task
               /\ sessions'[id].usage = sessions[id].usage
            \/ OwnersWrite(id)]_vars

(* What a plugin connection holds between the two statements of             *)
(* session_report_event: the event row is in, its effect is not.           *)
Unapplied(p) ==
  IF conn[p].pc = "report_apply"
  THEN [id |-> conn[p].id, report |-> conn[p].report]
  ELSE [id |-> None, report |-> None]

Pending == [p \in Plugins |-> Unapplied(p)]

Ledger == INSTANCE SessionLedger WITH pending <- Pending

(* The handlers together, whatever interleaves and whenever the process     *)
(* dies, act as the ledger does: every write is a single authorised step    *)
(* whose conditions hold when the UPDATE runs, not only when they were      *)
(* checked, and only the effect of a recorded report can be lost.          *)
LedgerKept == Ledger!Spec

(* A process that does not serve has an empty bus and no handler running:   *)
(* those that run are late ones.                                           *)
QuietUnlessServing ==
  phase # "serving" =>
    /\ bus = << >>
    /\ \A w \in Workers \ late : ctl[w] = IdleCtl
    /\ \A p \in Plugins \ late : conn[p] = IdleConn

(* What a handler in the middle of a request has already established: its   *)
(* session was inserted, and what it has read and recorded of it stands    *)
(* while the row is there.                                                 *)
Known(id) == id \in Ids /\ sessions[id].status # "absent"

HandlersInformed ==
  /\ \A w \in Workers :
       /\ ctl[w].pc # "idle" => Known(ctl[w].id)
       /\ ctl[w].pc \in {"dismiss_update", "dismiss_emit"} /\ Exists(sessions, ctl[w].id) =>
            Recorded(ctl[w].id, "session.status_changed", "errored")
  /\ \A p \in Plugins :
       /\ conn[p].pc \in {"discover_emit", "report_insert", "report_apply", "report_emit"} =>
            Known(conn[p].id)
       /\ conn[p].pc \in {"report_insert", "report_apply", "report_emit"} =>
            conn[p].report \in Reports
       /\ conn[p].pc \in {"report_insert", "report_apply", "report_emit"} /\ Exists(sessions, conn[p].id) =>
            Authoritative(p, conn[p].id, conn[p].report)
       /\ conn[p].pc \in {"report_apply", "report_emit"} /\ Exists(sessions, conn[p].id) =>
            [id |-> conn[p].id, report |-> conn[p].report] \in events
       /\ conn[p].pc = "report_emit" => ~NoEffect(conn[p].report)

(* A row that does not exist holds nothing; a row that was reported on has *)
(* an owner.                                                               *)
RowsAndReports ==
  /\ \A id \in Ids : ~Exists(sessions, id) =>
       /\ sessions[id].current_task = None
       /\ sessions[id].usage = None
       /\ sessions[id].finished_at = None
  /\ \A e \in events : Mutating(e.report.kind) => sessions[e.id].owner # None

(* The inductive invariant behind the safety properties above. *)
IInv ==
  /\ TypeOK
  /\ QuietUnlessServing
  /\ HandlersInformed
  /\ RowsAndReports
  /\ NoOrphanEvents
  /\ HistoryExplainsRow
  /\ UnownedOnlyKilled

(* What a handler about to emit has already written, to a row that may have *)
(* been collected since.                                                   *)
HandlersWrote ==
  /\ \A w \in Workers : ctl[w].pc # "idle" /\ Exists(sessions, ctl[w].id) =>
       /\ ctl[w].pc = "create_emit" => sessions[ctl[w].id].owner = None
       /\ ctl[w].pc = "jump_switch" => sessions[ctl[w].id].pane # None
       /\ ctl[w].pc = "kill_emit" => sessions[ctl[w].id].finished_at # None
  /\ \A p \in Plugins :
       /\ conn[p].pc = "hello_emit" => plugins[p] = "connected"
       /\ conn[p].pc = "discover_emit" /\ Exists(sessions, conn[p].id) =>
            sessions[conn[p].id].owner # None
       /\ conn[p].pc = "report_emit" /\ Exists(sessions, conn[p].id)
              /\ conn[p].report.kind = "session.finished" =>
            sessions[conn[p].id].finished_at # None

(* What is on the bus is about a row that was inserted, and well-formed.    *)
BusHoldsRows ==
  \A i \in 1..Len(bus) :
    /\ bus[i].kind = "plugin.connected" => bus[i].val \in Plugins
    /\ bus[i].kind = "session.usage_updated" => bus[i].val \in Usages
    /\ bus[i].kind \notin {"plugin.connected", "daemon.shutting_down"} => Known(bus[i].id)

(* The inductive invariant behind BusAfterWrite.                           *)
BusInv == HandlersWrote /\ BusHoldsRows /\ BusAfterWrite

(* agentd-protocol/src/status.rs: "Agent exited cleanly. Terminal,         *)
(* immutable."  The write paths do not check it.                           *)
TerminalImmutable ==
  [][\A id \in Ids : sessions[id].status = "finished" =>
       sessions'[id].status \in {"finished", "gone"}]_vars

=============================================================================
