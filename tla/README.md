# agentd in TLA+

A verification development kept beside the `agentd` sources: a daemon that keeps
track of coding-agent sessions in tmux, the plugins that report on them, and the
dashboard that shows them. Paths are relative to the repository; `handlers/`,
`daemon.rs`, `tui/` and so on are under `crates/agentd/src/`, `design.md` is
`docs/superpowers/specs/2026-06-18-agentd-design.md`.

`PROJECT.json` lists the components, the TLC runs, one code mutation per checked
property that TLC refutes it with, the source lines of every definition, the
disagreements found between code and documentation, the hazards and the theorems.

## 1. The system

| component | state | operations | interacts with |
|---|---|---|---|
| session service (`handlers/mutate.rs`, `handlers/plugin_handlers.rs`, `db/`) | tables `sessions`, `session_events`, `plugins` | create, rename, dismiss, jump, kill; hello, discover, report_event; collection at boot | tmux (kill, switch), event bus |
| daemon lifecycle (`daemon.rs`, `main.rs`, `ipc/control.rs`) | `daemon.lock`, `control.sock`, `daemon.pid`, shutdown flags | start, detach, lock, boot, serve, stop | everything above it |
| event fan-out (`event_bus.rs`, `handlers/router.rs`, `subscriber_registry.rs`, `control_client.rs`) | broadcast channel, registry, one queue and thread per subscriber | emit, forward, subscribe, push, unsubscribe | handlers on one side, clients on the other |
| plugin supervisor (`plugin_supervisor.rs`, `plugin_spawner.rs`, `plugin_heartbeat.rs`) | child handles, per-plugin sockets, heartbeats, restart windows | respawn, autostart, monitor, shutdown | the children, the session table (owners) |
| opencode plugin (`crates/agent-plugin-opencode`, `crates/agent-plugin-sdk`) | known panes with session and last status, three timers | scan, discover, poll, re-scan, heartbeat | tmux, session service |
| dashboard (`tui/`) | copy of the sessions, channel; rows, selection, counters, highlights, modals | subscribe, snapshot, apply_event, draw, keys | control socket |
| command line (`main.rs`, `cli/`, `control_client.rs`) | none | start, stop, restart; one call each for list, new, jump, rename, kill | control socket, daemon files |
| tmux sessions (`tmux.rs`, `session_create.rs`, `session_kill`) | the sessions and panes of the tmux server, the binding of rows to panes | create with rollback, kill | tmux, session table, plugin |
| status line, configuration, paths | none, or a map filled once | format, parse | control socket |

How it runs. A control connection is served by a blocking thread of its own, a
plugin connection by a task of a multi-threaded runtime, each with its own SQLite
connection. No transaction spans two statements and no lock spans a handler, so
handlers interleave at every SQL statement and bus emit. Bus events go through one
forwarder task to a queue per subscriber. Plugins are child processes with one
socket each; they connect once and never again. The dashboard runs on a
single-threaded runtime.

What is hard: statements of two handlers in an order no test tries; the process
dying between two statements; a lock file whose name and inode part ways; events
announced in another order than they were written; handlers that outlive their daemon's
lock and meet the next daemon's collection; overflow of the bounded
channels and of non-blocking sockets; frames split between reads; timers that
starve each other; in-memory beliefs of a plugin that outlive or precede the table;
children of a daemon that fails to boot, crashes or stops; a selection that is an
index into a list others change; a rollback that goes by a name somebody else may
have; commands that wait for an answer, or for a file to go, without a timeout.

What makes each component correct: the service keeps rows explainable and owned
(`HistoryExplainsRow`, `WriteAuthority`, `LedgerKept`) and
announces only what it wrote (`BusAfterWrite`); the lifecycle gives the control
address to one process at a time (`OneServer`) and comes back (`ComesBack`); the
fan-out hands on what the bus did not overwrite, in order and without a gap
(`OrderKept`, `NothingMissed`, `Delivers`; what a lagging forwarder skipped, no client
is told), and leaks nothing (`GoneForgotten`); commands end and do not claim what did not happen (`CommandsEnd`,
`StopHonest`); a creation leaves a row, bound to its pane, only if it succeeded
(`CreateAtomic`; a tmux session may stay behind, section 4), and a kill takes its own
session and can be repeated (`KillsOwn`, `KillRetries`); the dashboard ends up showing the
table (`Converged`), draws it (`Redrawn`) and acts on what the user chose
(`ActsOnChosen`); the plugin
reports what it sees about the right session (`KnownBound`, `BeliefsHold`,
`StatusReported`, `VanishedFinished`, `FirstTracked`); the supervisor leaves no
process behind (`KidsHeld`, `ShutdownKills`) and gets its plugins connected
(`AutostartConnects`).

## 2. Modules

| module | models | notes |
|---|---|---|
| `SessionTable` | the tables as values and the SQL statements on them | constant-level; shared by five modules |
| `SessionLedger` | abstract: table and history change by single authorised steps | 9 actions; uses `SessionTable` |
| `SessionService` | the handlers, process death and boot | one action per statement or emit; refines `SessionLedger` |
| `SessionServiceProofs` | theorems about it | |
| `SingleServer` | abstract: the control address has at most one server | 3 actions |
| `DaemonLifecycle` | processes over lock, socket and pid file | refines `SingleServer` |
| `DaemonCli` | `DaemonLifecycle` composed with the commands as its clients | extends `DaemonLifecycle` |
| `DaemonProofs` | theorems about both: the refinement, the lock, what a stop reports | |
| `OrderedDelivery` | abstract: what a subscription promises its client | 3 actions |
| `EventFanout` | bus, forwarder, registry, subscriber threads, clients | refines `OrderedDelivery` |
| `EventFanoutProofs` | theorems about it, the refinement included | |
| `TuiReplica` | `SessionService` composed with one dashboard | extends `SessionService` |
| `TuiReplicaProofs` | it implements `SessionService`; what the dashboard shows | uses `SessionServiceProofs` |
| `Dashboard` | the dashboard's own state, loop and keys | events are free |
| `DashboardProofs` | theorems about it | |
| `TmuxSessions` | `create_session` and `session.kill` over tmux | uses `SessionTable` |
| `TmuxSessionsProofs` | theorems about it | |
| `OpencodeWatcher` | the plugin between tmux, user and table | uses `SessionTable` |
| `OpencodeWatcherProofs` | theorems about it | |
| `PluginSupervisor` | children, sockets, heartbeats, shutdown | |
| `PluginSupervisorProofs` | theorems about it | |
| `MC...` | instances for TLC | values of constants, symmetry sets |

Definitions named `Bug...` are mutated forms of the definition that follows them;
no specification uses them.

**SessionService.** `sessions`, `events`, `plugins` are the tables; `bus` the
broadcast channel; `ctl[w]` and `conn[p]` the local state of a control thread and a
plugin connection (where it is, the session it looked up, the parsed request);
`phase` the process. `session_kill`, for instance, is `SessionKillGet` (lookup and
terminal check), `SessionKillTmux`, `SessionKillMark`, `SessionKillEmit`. A request
that fails its checks changes nothing and is a stuttering step; an unknown status
word is not such a request, since the event row is in before it is looked at
(`SessionReportApply`, first disjunct). `Stop` is any end of the process: a crash ends
every handler, the end of `Daemon::run` only aborts the accept task and leaves those
that run (`late`), which go on beside the next daemon until `LateEnds`. Their emits
reach nobody: the forwarder is a task of the runtime that is being dropped, and their
bus is not the next daemon's (`EmitFrom`). `BootGcEvents` and `BootGcSessions` are the two
statements of `tombstone_gc`; `StrayGc` is the same by a process that locked a fresh
lock file and will fail to bind (`DaemonLifecycle`), beside a daemon in any phase. It is
one step since the first statement finds nothing (`NoOrphanEvents`). So a handler may
find at any statement that its row is gone: `CtlNotFound`, and the last disjuncts of
`SessionReportInsert` and `SessionReportApply`. A plugin's late connection occupies its
`conn[p]` until it ends. Times are "recent" or "expired", which is all the
collector tells apart; columns nothing branches on are left out.

**SessionLedger** is what remains when threads, connections, bus and process are taken
away: `sessions`, `events` and, of each plugin, the report that is in the history and
has not had its effect (`pending`). Its actions carry the authority: a report is entered
and takes effect only for the owner of an existing row, a dismissal needs a recorded
error, a row goes only as a tombstone, together with its events and whoever still works
on it, and never comes back. `Unapplied` maps a connection between the two statements of
`session_report_event` to its pending entry; lookups, tmux calls, emits and the sweep of
orphans are stuttering steps of the ledger, and the end of the process forgets what was
pending. The ledger says nothing about which status may follow which, since no write
path looks (section 4).

**DaemonLifecycle.** A path and the inode it names are separate (`lockPath`, `fd`,
`holder`), because `remove_file` and `flock` work on different ones. `pc[p]` goes
through `Daemon::run` in its order; the removals at the end are separate steps.
`handling[p]` are connection threads, which `abort` does not stop. `Crash` is
SIGKILL: locks go, names stay. `Bind` has a third outcome, a chmod that fails after the
socket is bound: the file stays without a listener (`ChmodFails` says whether that may
happen; it counts as a fault).

`Detached` processes (started without `--foreground`) write the pid file before they
exec. `Answering` maps to the server of `SingleServer`.

**DaemonCli.** `cli[c]` is the command a client runs: `await` an answer on its own
connection, or `poll` for the socket to go, as `stop_daemon` does. `Invoke` is
`ControlClient::call` connecting by path; `ensure_daemon_running` adds nothing, since
the `connect` it tests only stores the path (`EnsureDaemonRunning`). `Restart` goes on
as a foreground daemon. `CutOff` is the end of file that `read_line` sees when the
daemon dies. The connection thread's own end is `HangUp`; `CloseQuietly` is a living
daemon's close without an answer, when the request is not there at the first read of the
socket that `into_std` left non-blocking.

**EventFanout.** Events are numbered. A subscriber thread alternates `Probe`
(the non-blocking read) and `Push` (at most one event). `sent` and `ackedAt` are
history variables. `SockCapacity` stands for the socket buffers. What a client sends
right behind its subscribe request is dropped with the `BufReader`: `Subscribe` starts
with a whole unsubscribe frame gone (`"ignored"`) or with its head gone.

**TuiReplica.** Steps of `SessionService` with the forwarder joined to a `stream`
(queue plus socket: lossless while linked, as `EventFanout` shows, and possibly
cut). `rx` is the dashboard's own bounded channel. The reader may run only while
the main loop awaits the daemon (`Awaiting`), because `event::poll` blocks the only
thread. `lost` remembers an overwritten event. `raced` remembers that the serving
daemon's handlers were not alone with the tables: that two of them were under way on one
session at once, that a late handler was still running (`Disturbed`) or that another
process collected a row (`Swept`). After either nothing is promised. The end of the
daemon resets `raced`, since the dashboard is cut off with it.

**Dashboard.** One action per turn of the loop's parts (`ApplyEvent`, `EventsDone`,
`Draw`) and per key; `Resize` is an input event that is no key, `IoFails` the end of the
dashboard when `terminal.draw` or `event::poll` fails. Any event about any session may arrive in any order; what the
daemon really sends is `TuiReplica`'s. `stale`, `meant`, `shifted` and `listing` are
history: what the screen shows wrongly (its `"body"`, or its `"layout"`, which is the
help overlay and the size of the terminal), which row the user has in front (the one the
last frame highlighted, moved by the keys since), whether undrawn events took a row
away or filled an empty list, and the listing the recent directories came from.
`ExtractRecents` (the directories of the listing in the order of their newest session,
cut) and `FirstMatch` are the modal's functions; `NewestMatch`, which knows nothing of
sorting, is the reference they are compared with through `ActsOnChosen`. A time is a number, a path
its rank.

**TmuxSessions.** `live` gives each tmux session its pane, `next` numbers panes until
the server ends. tmux is external and follows its manual: a duplicate name is
refused, dots in a name are replaced (`Stored`), a target that names no session is
taken for the beginning of one (`Longer`, `Target`). How tmux resolves a target with a
dot in it, and how `list_panes` splits a name with blanks (`tmux.rs:249-257`), is left
out: a name tmux rewrites fails in the listing after `new-session`, so its row is never
bound and no kill goes by it. Sessions to which the user gives such names are not in the
model. `create_session` is one action
per await or statement, with both rollbacks; no handler of the daemon calls it.
`outcome` and `wrong` are history.

**OpencodeWatcher.** One action per await of the loop. `timer` holds the three
arms; `Select` renews the poll sleep on every turn, as the code does by creating it
inside `select!`, while the two intervals run on. tmux (`PaneChanges`, `Prints`),
the user (`SessionKill`, `SessionDismiss`) and faults act in between: a call that fails,
a lost link, a tmux binary that is missing for a moment, which counts as a host without
panes (`NoBinary`). A daemon call
is one step here; `SessionService` has its inside.

**PluginSupervisor.** `Daemon::run` from `restart_respawn` to the end of
`supervisor.shutdown`, one action per spawn, bind and insert; `inflight` is the
child between spawn and insert. Ticks are five seconds. `own` tells children of the
current daemon from orphans of a crashed one, whose connections ended with it
(`Severed`). `AutostartPanics` and `AcceptPanics` are the two places where the database
may fail to reopen: the first ends the boot, the second an accept loop (while plugins are
being autostarted the latter is left out).

## 3. Runs

Passing runs (every property holds on the instance):

| run | bounds | shows |
|---|---|---|
| `MCSession` | 1 session, 1 pane, 2 control threads, 2 plugins, of which 2 are busy or late at once, 3 reports, bus of 1 | `TypeOK`, `HistoryExplainsRow`, `BusAfterWrite`, `UnownedOnlyKilled`, `WriteAuthority`, `LedgerKept` (refinement; it leaves no orphaned events) under every interleaving, crash and collection |
| `MCDaemon` | 2 processes in the foreground, 2 inodes, 1 client, 1 crash or failed chmod, 2 looks; `CliRetrySpec` | `HoldersHold`, `SocketNamesServer`, `OneServer` (refinement), `SignalReleases`, `ComesBack`, `CommandsEnd`, `StopHonest` |
| `MCFanout` | 1 subscriber, 5 events, bus and socket of 2; `FairSpec` | `OrderKept`, `NothingMissed`, `Delivers` (refinement), `GoneForgotten`, `QueueDrains`, `UnsubscribeWorks` |
| `MCTui` | 1 session, 1 plugin, 1 control thread, one report of each kind, all channels of 1, handlers that outlive their daemon | `Converged`, `ViewExplained` |
| `MCWatch` | 1 pane, 3 texts, 1 fault, poll faster than re-scan; `FairSpec` | `BeliefsHold`, `VanishedFinished`, `StatusReported`, `FirstTracked` |
| `MCWatchPanes` | 2 panes, 2 sessions, 1 fault, every timer each tick | `KnownBound`, `ActiveIsKnown` |
| `MCSupervise` | 2 plugins in the manifest (1 autostarted) and an unlisted owner, 3 children, 1 fault; `FairSpec` | `KidsHeld`, `ShutdownKills`, `GivesUp`, `AutostartConnects` |
| `MCTmux` | 2 threads, 2 rows, 3 names (one rewritten, one the beginning of another), 2 pane numbers, 1 fault; `RetrySpec` | `CreateAtomic`, `KillsOwn`, `KillRetries` |
| `MCDashboard` | 2 sessions, 3 statuses, 3 directories of which 2 are offered, 2 listings; `FairSpec` | `SelectionValid`, `RowsAgree`, `ActsOnChosen`, `StaleMarked`, `Redrawn` |

Violation runs: each checks one sentence of the documentation or a comment, and TLC
finds a behaviour of the code against it. `PROJECT.json` quotes the sentences.

| run | property | what the counterexample does |
|---|---|---|
| `MCStaleSocket` | `Recovers` | after a crash `control.sock` is in the way of every later bind |
| `MCTuiRace` | `PatchingSuffices` | a kill between the INSERT and the emit of a discovery: killed is announced before discovered, and the dashboard keeps the session |
| `MCPollStarves` | `StatusReported` | default periods: the re-scan interval always fires before the renewed poll sleep |

**Why the bounds are enough.** Two handlers at once on one row, of two kinds with two
members each, and a third before or after them, produce all pairwise orders of handlers,
between different processes too; rows refer to each
other only through the pane index, which one session created and discovered in
either order exercises, and which the second pane of `MCWatchPanes` exercises with
two rows. A lock race needs two processes, and each may restart any number of times.
Subscribers share nothing but the registry, from which each removes only itself, so
one is enough. Channels are one or two long so that they overflow within the events
of the run. One fault is enough for each recovery question.
Two rows are enough for a removal above, at and below the selection and for a list that
grows and shrinks past its index, and longer lists are the provers' (section 5); three
directories exceed the two that are offered.
`daemon stop` looks a hundred times in the code, twice in the model: what matters is
that it looks again, and that it looks a last time. A detached process differs from one in
the foreground in `daemon.pid` alone, which no step reads: `MCStaleSocket` has one. Two creations meet with one name,
with a name and its rewritten form, and with a name and a longer one. The periods of the watcher matter only by their order: `PollFaster` and
`DefaultPeriods` are its two cases. `StaleAfter`, `Window` and `MaxRestarts` are the
code's own 15 s, 60 s and 3 in ticks of 5 s.

`MCTui` has a state constraint, `Promised`: a state in which an event has been lost
or the daemon's handlers were not alone (`raced`) is checked but not continued, since
`Converged` says nothing of it (`MCTuiRace`, without the constraint, shows what
happens after such a meeting); late handlers end before the next dashboard starts; a run
holds at most `MaxHistory` different reports, and a plugin says hello first (`Greeted`).
Both properties are proved without the constraint (section 5).

`MCSession` has one too, `Bounds`. Its `Greeted`: what a plugin begins before it has said
hello is checked but not continued. The opencode plugin says hello first (`main.rs:26-28`
of `crates/agent-plugin-opencode`), and hello writes only the `plugins` table, which no
other handler reads. Its `Few`: at most two of the four handlers are under way or late at
once, at most one of them late. That is enough for what happens between the read of one
and its write, with the next daemon's collections, which are not counted, in between. The
theorems of section 5 do without the constraint.

**Symmetry** is used in safety runs only (threads and plugins in `MCSession`, panes
and ids in `MCWatchPanes`), over constants that no definition singles out.

**Deadlock** is checked except in `MCFanout`, where a bounded number of events and
departed clients really leave nothing to do.

**Fairness.** `DaemonLifecycle!FairSpec`: each process takes its own steps (the OS
schedules it); starts, signals, crashes and clients are free. `RetrySpec` adds that
somebody keeps starting daemons and that booting does not fail for ever.
`EventFanout!FairSpec`: the forwarder task, the subscriber threads and a frame under
way make progress; nothing is assumed of clients.
`OpencodeWatcher!FairSpec`: the loop runs; strong fairness of the poll and check
arms because `select!` picks at random among ready arms, so an arm that is ready
again and again is picked in the end (an arm that never becomes ready is not, which
is what `MCPollStarves` shows). `PluginSupervisor!FairSpec`: daemon, children and
clock run; boot, shutdown and faults are free. `DaemonCli!CliFairSpec`: processes,
commands and the threads that answer them run; `CliRetrySpec` adds to them what
`RetrySpec` adds to the daemon. `TmuxSessions!RetrySpec`: threads finish what they
began, and whoever wants a session killed asks again whenever it can be asked for
(strong fairness: a thread may be busy in between). `Dashboard!FairSpec`: the loop
turns, frames come due, and calls are answered or fail; keys are free.

## 4. Further disagreements

These statements of comments and documents are also refuted by the models. Those
with a definition named below are in the module; adding it to the run's `.cfg` shows
the counterexample. The others take a line to state over the variables named.

| says | the code, as modelled |
|---|---|
| `status.rs:20` finished is "Terminal, immutable." | `TerminalImmutable` (`MCSession`): a report after a kill brings the session back |
| `daemon.rs:71-74` "or `LockHeld` if another process already holds the lock" | `LockExclusive` (`MCDaemon`): a stopping daemon unlinks `daemon.lock` while it holds it, and a second process locks a fresh inode |
| `session_create.rs:29-31` "the row is deleted and the tmux session is killed (rollback)" | `RollbackComplete` (`MCTmux`): when the listing after new-session fails, or the name has a dot, only the row goes |
| `session_create.rs:30-31` "The plugin will discover the tmux pane and call `session.discover` to re-attach" | the pane is bound to the row, so `BindingFree` refuses the discovery |
| `cli/mod.rs:61` "Kill a session and remove its tmux pane." | `KillGet` of a row that is not bound yet only marks it; `CreateBind` then binds the finished row and the tmux session stays |
| `tmux.rs:271` "Already gone is fine" | when the session is gone, `Target` may complete its name to another one (`KillsOwn` is stated for the case that it lives) |
| `daemon.rs:287-290` ensure_daemon_running starts a daemon when the connect fails | `ControlClient::connect` never fails, so a command without daemon fails instead |
| `main.rs:122` stop: "RPC: daemon.shutdown, then poll for socket disappearance"; `design.md:1266` "SIGTERM, 5s grace, SIGKILL fallback" | `StopStops` (`MCDaemon` under `CliFairSpec`): nothing reads the flag, so stop and restart fail after the last look unless somebody else signals; and a restart that gets through may meet `FlockHeld` of the daemon that is still draining |
| `state.rs:75-76` "`dirty` is set on any change" | `DirtyOnChange` (`MCDashboard`): closing the help overlay does not set it, so the overlay stays on screen until the next change; a resize does not set it either |
| `state.rs:15` "How long a transient status message stays on screen." | its expiry sets nothing dirty either (`render.rs:188-199`; not modelled) |
| `design.md:424` "finished sessions kept 30 days" | the SDK's clock (`lib.rs:261`) yields the first of January, so `FinishReports` may arrive expired and the next boot collects the row |
| `status.rs:18` errored is "Sticky until dismissed" | `SessionReportApply` overwrites `errored` with any status |
| `session.rs:64` `finished_at` is "Set when status transitions to `finished`" | a `status_changed` report with `finished` goes through `UpdateStatus`; the row is then never collected |
| `daemon.rs:233-234` collection runs "before the control UDS is bound, so client queries never see a partially-GCed state" | a process in `collect` while another in `drain` still has `handling` threads; in `SessionService` a row goes beneath a late handler (`BootGcSessions`) or beneath the serving daemon's (`StrayGc`), which then answers NotFound |
| `main.rs:208-209` the pid file "lets `daemon stop` signal the right process" | `Start` writes `pidFile` before `FlockHeld` turns the process away |
| `methods.rs:45` "Gracefully shut down the daemon." | `StopStops`, as above: `AskShutdown` sets `asked`, which `LeaveLoop` does not read |
| `methods.rs:50` "Stop receiving event notifications." | an unsubscribe frame in two pieces ends as `"ignored"` (`router.rs:220`) |
| `plugin_handlers.rs:187-190` subscribers "can patch UI state" | a usage report without one field: NULL in the table, the old value after `PatchUsage` |
| `design.md:257` "`tokio::select!` over UDS reader + keyboard" | `ReadFrame` needs `Awaiting`: without a key no event is read (`tui/mod.rs:108`) |
| `watcher.rs:266-268` polling "emits `session.status_changed` on change" | `PollArm` goes through `panes`, so panes found later are never polled |
| `watcher.rs:270-271` "newly appeared panes get a fresh `session.discover`" | `BindingFree` counts finished rows: a pane that had a session gets no second one |
| `design.md:198` after a restart "plugins scan tmux → confirm or mark `finished`" | `Respawn` empties `known`; bound panes cannot be discovered again |
| `design.md:690` when tmux dies "Plugin's next scan marks `finished`" | `CheckArm` skips when `~Server` |
| `design.md:417` "Ensure owning plugin connected; spawn if not" | `AutostartSpawn` spawns beside the child of `Ensure` |
| `daemon.rs:257-259` "ensure the owning plugin is connected" | `Ensure` binds no socket: a plugin that is not autostarted exits |
| `plugin_supervisor.rs:193-195` the monitor "kills the child, re-spawns, and resets the heartbeat" | `Monitor` touches neither `kid` nor `beat` |
| `plugin_heartbeat.rs:68-69` touched "when a `plugin.heartbeat` notification arrives" | nothing resets `beat` after `AutostartInsert` |

**What the properties leave out of their hazards.** Some properties hold only beside the
worst case of the hazard they are listed under, because in that case the code does go
wrong:

| hazard | left out |
|---|---|
| `plugin_handlers.rs:192` writes that do not look at the status | `UnownedOnlyKilled` is about sessions without owner; owned ones come back after their end, and may be finished without `finished_at` |
| `0001_init.sql:23` the index counts finished rows | `FirstTracked` is about panes without a row; a re-used pane gets no session |
| `tui/mod.rs:108` `event::poll` blocks the reader | `Converged` is about events that are read late; one waits until a call is made |
| `state.rs:224` a missing usage field | `Converged` is about complete usages |
| `watcher.rs:322` the slot is filled whether or not the report failed | `BeliefsHold` is about runs without failed calls; after one, slot and row differ until the next transition |
| `watcher.rs:173`, `:205` forgotten before reported; a failing listing is skipped | `ActiveIsKnown`, `VanishedFinished`: runs without failed calls, under a living tmux server |
| `discovery.rs:180` no tmux binary, no panes | the plugin finishes every session; their panes, still bound, get no new ones |
| `input.rs:93` the selection is an index | `ActsOnChosen` is about keys with no undrawn event before them (below) |
| `tmux.rs:264` targets by name | `KillsOwn` is about kills while the own session lives; a rollback after the user ended it may take a longer-named one |

One thing no document promises, but a user may expect: a key acts on the row the
index names when it is handled. Events applied since the last frame may have moved
another session there (`request.unseen` in `Dashboard`); `ActsOnChosen` holds without
such events.

## 5. Proofs

TLAPS checks the following for every value of the constants that satisfies the named
assumptions: any number of threads, plugins, sessions, panes, processes, subscribers,
any capacities, any number of faults. Each component has an inductive invariant
(`IInv`, `CliInv`, `TuiInv`), stated in its module so that TLC can check it too, one
lemma per group of actions that the invariant survives, and a theorem per property.

**`SessionServiceProofs`**, from the assumptions of `SessionTable` and `SessionService`
(`None` is none of the other values, `Reports` are well-formed, the channel has
room for an event):

- `IInvHolds`, and from it `TypeCorrect` (`TypeOK`), `HistoryComplete`
  (`HistoryExplainsRow`), `UnownedSafe` (`UnownedOnlyKilled`), `NoOrphans`
  (`NoOrphanEvents`). None of these is inductive alone. A collection may take the row of
  any handler at any time, so what a handler has established is stated of its row while
  the row is there (`HandlersInformed`), and no step puts a row back: an id is given to one
  row only, and what is known of a row that stays, stays known (`StepKeeps`). That the
  history explains the row needs that a connection about to apply a report has recorded
  it, and that a dismissal under way saw a recorded error; that in turn survives because
  event rows are deleted only with their session (`GcKeepsTables`). That unowned rows are
  never reported on needs that a connection past the check still has authority, and that
  a recorded mutating report implies an owner (`RowsAndReports`).
- `BusInvHolds`, and from it `BusFollowsWrites` (`BusAfterWrite`): an event stays true
  until its row is collected (`EventKeeps`), and late handlers do not emit on the bus.
  Needs what a handler about to emit has written (`HandlersWrote`) and that the bus is
  about rows that were inserted (`BusHoldsRows`).
- `AuthorityKept` (`WriteAuthority`, an action property): from `IInv`, in particular that
  the authority a connection checked still holds when its UPDATE runs.
- `ImplementsLedger` (`Spec => LedgerKept`): every step is a step of `SessionLedger` or a
  stutter, handler by handler (`CtlLedger`, `PluginLedger`, `BootLedger`). The guards of
  the ledger speak of the moment of the write, so each needs the part of `IInv` that
  carries an earlier check to it: `HandlersInformed` for the owner, the recorded report
  and the recorded error; that the row is there each statement finds out for itself. That
  the orphan sweep is a stutter and the cascade deletes exactly the events of the
  tombstones needs `NoOrphanEvents` (`GcLedger`). Handlers that end with or after their
  process drop their pending reports (`EndLedger`).

**`DaemonProofs`**, from `SpecialValues`, `FaultBound` and, for the commands, `PollBound`:

- `TypeCorrect` (`TypeOK`), `FlockSound` (`HoldersHold`), `SocketSafe`
  (`SocketNamesServer`) and `Refinement` (`Spec => OneServer`): although the lock is
  not exclusive (`LockExclusive` does not hold), the control address never has two
  servers and never changes hands directly, because bind refuses an existing path and
  only its owner, between bind and removal, removes it. The mapping is `Answering`.
- `CliImplements` (`CliSpec => Spec`): every step of a command is a step of a free
  client, a start or no step of the daemon; so `CliSocketSafe` and `CliRefinement`
  carry the results over.
- `StopIsHonest` (`StopHonest`): needs that a command that polls remembers the process
  it asked and has not reported yet (`CliInv`), that only a look that finds no socket
  reports success (`StopSeesNoSocket`), and, from the daemon, that a process that
  still answers has the socket under its name (`SocketNamesServer`).

**`EventFanoutProofs`**, from `Capacities` (there is room for one event or more):

- `TypeCorrect` (`TypeOK`), `OrderPreserved` (`OrderKept`), `NothingIsMissed`
  (`NothingMissed`) and `Refinement` (`Spec => Delivers`). The invariant says that what
  was sent and what the bus holds are one increasing sequence, no later than the last
  event emitted and complete while no more were emitted than the bus holds (`BusOrder`),
  and that what a client read, what is on its wire and what
  is queued for it are together a contiguous segment of what was sent, placed no later
  than its acknowledgement and, while its thread serves it, reaching to the end
  (`Segment`, `Placed`, `StreamOK`). `Delivers` needs the segment even after the thread
  gave up: a client may go on reading what is on the wire.

**`TuiReplicaProofs`**, from those of `SessionServiceProofs`, `ReplicaBounds` and
`UsagesHaveFields`:

- `DashboardOnlyReads` (`TuiSpec => Spec`): the composition adds no step to the daemon,
  so all of the above holds beside a dashboard; `LedgerBesideDashboard` says so of the
  refinement.
- `ShownIsRecorded` (`ViewExplained`), from `TuiInvHolds`: the table and the history say
  what an event says not only while it is on the bus but all the way to the screen,
  through a stop of the daemon, late handlers and collections. For that an event must be about
  an id that was used, since ids are not used again (`Backed`, `ViewKnown`); a row that
  is there has kept its whole history (`RowsKept`).
- `DashboardConverges` (`Converged`), for usage reports that have all of their fields
  (`UsagesComplete`; without it the property is false, section 4). `Converged` is about
  quiet states; the invariant that leads to it (`ConvInv`, stated with the proof) follows
  each field of each session from the table to the screen. A handler that wrote owes an
  event (`Debts`), and what it owes agrees with the table, since no other handler is on
  that session and none of an earlier process runs (`Orderly`, while the daemon serves and
  `raced` is false). From there on, in handlers, bus, stream and rx, the first
  channel from the table's end that has an event about the field ends, for that field,
  with one that agrees with the table; if there is none, the view shows what the table
  says (`Chained`). A session that has not ended is shown or its birth is in a channel
  (`Born`). The daemon's steps are three for this purpose (`Silent`, `Writes`,
  `Emits`: `CtlShape`, `ConnShape`, `ExpireShape`; a collection that takes no row is
  silent, `SweepShape`). The snapshot needs no argument about
  the events queued before it: they are older than the table only if a newer one about
  the same field follows.

**`DashboardProofs`**, from `DashboardInputs`:

- `SelectionStaysValid` (`SelectionValid`), `DerivedStateAgrees` (`RowsAgree`) and
  `OutdatedIsDirty` (`StaleMarked`, of the body of the screen).
- `RequestsActOnChosen` (`ActsOnChosen`). For jump, kill and rename it needs that the row
  the user has in front is the selected one while no undrawn event moved the rows, and
  that a fresh dashboard is empty (`InFront`, `ActsOnSelected`). For create it needs that
  the open modal holds the recent directories of the listing it was opened with
  (`ModalAgrees`), and that the first of them that matches is the newest directory that
  does (`FirstIsNewest`), for listings of any length. The latter is a fact about sorting:
  directories are placed by their rank (how many come before), ranks of different
  directories differ (`RankGrows`), so by counting they fill 1..n (`RankOnto`) and a sorted sequence
  exists and is unique in what it puts where (`SortExists`, `SortedOnto`, `SortedRank`).

**`OpencodeWatcherProofs`**, from `PluginIsOne` and `Periods`:

- `TypeCorrect` (`TypeOK`), `ReportsReachTheirPane` (`KnownBound`), `BeliefsAreRight`
  (`BeliefsHold`), `NoSessionForgotten` (`ActiveIsKnown`). They need each other: a belief
  about a pane is right because the id in the slot is that of the pane's only row
  (`RowsBound`), a fresh process knows no pane, and a pane it is about to discover has no
  slot while one it is about to report or finish has (`StagesAgree`).

**`PluginSupervisorProofs`**, from `ManifestAssumption`:

- `ChildrenHeld` (`KidsHeld`) and `NoChildLeft` (`NoneLeft`, the safety half of
  `ShutdownKills`): a child being stored is new, of the manifest, and only the boot has one
  (`InflightFresh`); an ended daemon has no handles.
- `TypeCorrect` (`TypeOK`, and with it that no monitor has more than `MaxRestarts` in its
  window): the window is in the order of time (`WindowOrdered`), so what `retain` keeps of
  it is its end (`RecentRetained`).

**`TmuxSessionsProofs`**, from `SessionTable`'s assumptions, `TmuxNames`, `TmuxBounds` and
`NoneIsApart` (`None` is no pane number and no outcome):

- `TypeCorrect` (`TypeOK`), `CreationIsAtomic` (`CreateAtomic`), `KillsTakeTheirOwn`
  (`KillsOwn`). The invariant says what a thread between two steps goes by (`JobAgrees`),
  that its row is there and nobody else creates it (`CreatorsHoldRows`), that no pane has
  two rows (`OneRowAPane`) and what an outcome means for the row from then on
  (`Settled`). `KillsOwn` needs that tmux knows a session by the name it stored
  (`NamesStored`): a rollback runs only under a name tmux did not rewrite.

Some definitions are written for the prover and mean what the code does; the provers know
nothing of `SelectSeq`, `SortSeq` and recursion. Rows leave the dashboard by `Without`,
which is `Vec::retain`; a restart window keeps its end (`Recent`), which is `retain` too
(`RecentRetained` proves it of an ordered window). The recent directories are the
sequence without repetition that is in order (`Sorted`), which is what the code's sort of
a map's entries yields, and what is picked is the first that matches (`FirstMatch`).
The arms of `TuiReplica!ApplyEvent` exclude each other (`Patching`), as those of the
`match` do; TLA+ does not take the first arm of a `CASE`, only TLC does.

Only model-checked is liveness: `SignalReleases`, `ComesBack`, `CommandsEnd`,
`GoneForgotten`, `QueueDrains`, `UnsubscribeWorks`, `VanishedFinished`, `StatusReported`,
`FirstTracked`, `ShutdownKills`, `GivesUp`, `AutostartConnects`, `KillRetries`, `Redrawn`.
Fairness and `ENABLED` are out of the prover's reach. Every invariant and every safety
property of a passing run is a theorem.

## 6. Not modelled

- Framing and JSON of requests: pure functions of the bytes read, for one reader.
- SQLite failures such as a busy database, opening and pragmas, hook logs. The
  migration runner checks and then applies without a transaction around both
  (`migrations.rs:26-51`); two processes that boot on a fresh database may both try to apply it.
- The status line: a formatter over a map filled once. `agentd status` drives a tokio
  socket with `futures::executor::block_on`, which has no reactor, so its fallback to
  the database is what can run (`main.rs:377-431`).
- Layout, colours and wording of the dashboard; `agentd init` and the subcommands that
  are not implemented; configuration, paths, the plugin manifest (constants of
  `PluginSupervisor`); `plugin_uds.rs`, which nothing calls; the mock of tmux, the
  test harness and the build tasks.
- The SDK's request ids and its clock, except that a report may arrive expired.

Abstractions that matter: a plugin names itself as its socket does, and has one
connection at a time, a late one included; a tmux session has one pane and no blanks in
its name; a handler that outlives its daemon is in `SessionService` (`late`), the lock
and the socket it outlives are in `DaemonLifecycle` (`handling`).

## 7. Plan

1. A composition of supervisor and watcher: the plugin's single connection against the
   socket the supervisor binds, through respawns and boots.
2. The supervisor's accept loops while plugins are being autostarted, where `AcceptPanics`
   is left out.
