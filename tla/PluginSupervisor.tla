-------------------------- MODULE PluginSupervisor --------------------------
(***************************************************************************)
(* The daemon's plugin children: restart_respawn (daemon.rs) and autostart *)
(* spawn them, a listener per plugin serves them, a monitor per plugin     *)
(* watches their heartbeat, and shutdown kills them                        *)
(* (plugin_supervisor.rs, plugin_heartbeat.rs, plugin_spawner.rs).         *)
(*                                                                         *)
(* A child runs on its own: it connects once, when it starts, and never    *)
(* again (agent-plugin-sdk), and it may crash, hang or outlive its daemon. *)
(* Time passes in ticks of five seconds.  `connected`, a list nothing      *)
(* reads, and the counters of a heartbeat are left out.                    *)
(***************************************************************************)
EXTENDS Naturals, Sequences, FiniteSets

CONSTANTS
  Manifest,    \* plugins of plugins.toml
  Autostart,   \* those with autostart = true
  Owners,      \* plugins that sessions name, in the manifest or not
  Kids,        \* child processes
  StaleAfter,  \* HEARTBEAT_TIMEOUT, in ticks
  Window,      \* the sixty seconds the monitor looks back, in ticks
  MaxRestarts, \* restarts in the window before the monitor gives up
  MaxFaults,   \* bound on the crashes and hangs of one behavior
  None

ASSUME ManifestAssumption == Autostart \subseteq Manifest /\ None \notin Kids \cup Manifest

ASSUME TimesAssumption == {StaleAfter, Window, MaxRestarts} \subseteq Nat \ {0} /\ MaxFaults \in Nat

VARIABLES
  phase,     \* where Daemon::run is
  todo,      \* plugins left in the loop under way
  inflight,  \* the child just spawned, whose handle is not stored yet
  handles,   \* the stored handle of each plugin
  sock,      \* plugin socket: "none", "live", or "stale" (a file nobody serves)
  beat,      \* ticks since PluginHeartbeat::last, capped; None before autostart
  monitor,   \* "none", "asleep", "due" or "done"
  restarts,  \* ages of restarts_in_window
  kid,       \* each child: what it does and which plugin it is
  own,       \* children whose daemon did not crash
  faults

vars == <<phase, todo, inflight, handles, sock, beat, monitor, restarts, kid, own, faults>>

watch == <<beat, monitor, restarts>>

-----------------------------------------------------------------------------
NoKid == [state |-> "none", of |-> None]

Alive(k) == kid[k].state # "none"

Stored == {handles[p] : p \in Manifest}

Killed(ks) == [k \in Kids |-> IF k \in ks THEN NoKid ELSE kid[k]]

(* The daemon ends: the children ks die with it, and what else was          *)
(* connected to it gets errors from now on.                                *)
Severed(ks) ==
  [k \in Kids |-> IF k \in ks THEN NoKid
                  ELSE IF kid[k].state \in {"connected", "hung"} THEN [kid[k] EXCEPT !.state = "deaf"]
                  ELSE kid[k]]

NoHandles == [p \in Manifest |-> None]

(* The process is gone: its listeners with it, the socket files not.        *)
Gone ==
  /\ phase' = "off"
  /\ todo' = {}
  /\ inflight' = None
  /\ handles' = NoHandles
  /\ sock' = [p \in Manifest |-> IF sock[p] = "live" THEN "stale" ELSE sock[p]]
  /\ beat' = [p \in Manifest |-> None]
  /\ monitor' = [p \in Manifest |-> "none"]
  /\ restarts' = [p \in Manifest |-> << >>]

(* An error ends run: the daemon is dropped, and its handles with it        *)
(* (kill_on_drop).                                                         *)
BootFails ==
  /\ Gone
  /\ kid' = Severed(Stored \cup {inflight})
  /\ own' = {k \in own : kid'[k].state # "none"}
  /\ UNCHANGED faults

-----------------------------------------------------------------------------
(* Daemon::run up to restart_respawn, which collects the owners of sessions *)
(* that are not finished.                                                  *)
Boot ==
  /\ phase = "off"
  /\ phase' = "respawn"
  /\ todo' \in SUBSET Owners
  /\ UNCHANGED <<inflight, handles, sock, watch, kid, own, faults>>

(* RealPluginSpawner::spawn succeeds: a process with the socket's path.     *)
Spawn(p) ==
  \E k \in Kids \ Stored :
    /\ ~Alive(k)
    /\ kid' = [kid EXCEPT ![k] = [state |-> "starting", of |-> p]]
    /\ own' = own \cup {k}
    /\ inflight' = k

(* ensure_plugin: an owner that has a handle or is not in the manifest is   *)
(* skipped.  Nothing has bound the plugin's socket yet.                    *)
Ensure(p) ==
  /\ phase = "respawn"
  /\ p \in todo
  /\ inflight = None
  /\ todo' = todo \ {p}
  /\ IF p \in Manifest /\ handles[p] = None THEN Spawn(p)
     ELSE UNCHANGED <<inflight, kid, own>>
  /\ UNCHANGED <<phase, handles, sock, watch, faults>>

(* A failed spawn fails restart_respawn, and with it the boot.              *)
EnsureFails ==
  /\ phase = "respawn"
  /\ inflight = None
  /\ todo \cap Manifest # {}
  /\ BootFails

EnsureInsert ==
  /\ phase = "respawn"
  /\ inflight # None
  /\ handles' = [handles EXCEPT ![kid[inflight].of] = inflight]
  /\ inflight' = None
  /\ UNCHANGED <<phase, todo, sock, watch, kid, own, faults>>

(* The control socket is bound, or run ends with an error.                  *)
Respawned ==
  /\ phase = "respawn" /\ todo = {} /\ inflight = None
  /\ \/ /\ phase' = "autostart"
        /\ todo' = Autostart
        /\ UNCHANGED <<inflight, handles, sock, watch, kid, own, faults>>
     \/ BootFails

(* bind_and_serve unlinks the old file and binds; if that fails, the plugin *)
(* is skipped.                                                             *)
AutostartBind(p) ==
  /\ phase = "autostart"
  /\ p \in todo
  /\ sock[p] # "live"
  /\ \/ sock' = [sock EXCEPT ![p] = "live"] /\ UNCHANGED todo
     \/ todo' = todo \ {p} /\ sock' \in {sock, [sock EXCEPT ![p] = "none"]}
  /\ UNCHANGED <<phase, inflight, handles, watch, kid, own, faults>>

(* The listener is there when the database is opened for it; if that fails  *)
(* run panics, which drops the daemon.                                     *)
AutostartPanics(p) ==
  /\ phase = "autostart"
  /\ p \in todo
  /\ inflight = None
  /\ sock[p] = "live"
  /\ BootFails

(* Bug: the child is spawned whether or not its socket is bound. *)
BugSpawnUnbound(p) ==
  /\ phase = "autostart"
  /\ p \in todo
  /\ inflight = None
  /\ \/ Spawn(p) /\ UNCHANGED todo
     \/ todo' = todo \ {p} /\ UNCHANGED <<inflight, kid, own>>
  /\ UNCHANGED <<phase, handles, sock, watch, faults>>

(* autostart does not ask whether the plugin runs already.                  *)
AutostartSpawn(p) ==
  /\ phase = "autostart"
  /\ p \in todo
  /\ inflight = None
  /\ sock[p] = "live"
  /\ \/ Spawn(p) /\ UNCHANGED todo
     \/ todo' = todo \ {p} /\ UNCHANGED <<inflight, kid, own>>
  /\ UNCHANGED <<phase, handles, sock, watch, faults>>

(* Bug: the handle that was there is overwritten and its child lives on. *)
BugKeepFirst ==
  /\ phase = "autostart"
  /\ inflight # None
  /\ LET p == kid[inflight].of IN
       /\ handles' = [handles EXCEPT ![p] = inflight]
       /\ beat' = [beat EXCEPT ![p] = 0]
       /\ monitor' = [monitor EXCEPT ![p] = "asleep"]
       /\ todo' = todo \ {p}
  /\ inflight' = None
  /\ UNCHANGED <<phase, sock, restarts, kid, own, faults>>

(* HashMap::insert drops the handle that was there, which kills its child;  *)
(* then a fresh heartbeat and its monitor.                                 *)
AutostartInsert ==
  /\ phase = "autostart"
  /\ inflight # None
  /\ LET p == kid[inflight].of IN
       /\ kid' = Killed({handles[p]})
       /\ handles' = [handles EXCEPT ![p] = inflight]
       /\ beat' = [beat EXCEPT ![p] = 0]
       /\ monitor' = [monitor EXCEPT ![p] = "asleep"]
       /\ todo' = todo \ {p}
  /\ inflight' = None
  /\ UNCHANGED <<phase, sock, restarts, own, faults>>

Autostarted ==
  /\ phase = "autostart" /\ todo = {} /\ inflight = None
  /\ phase' = "idle"
  /\ UNCHANGED <<todo, inflight, handles, sock, watch, kid, own, faults>>

-----------------------------------------------------------------------------
(* Five seconds pass: every monitor that is left wakes up once.             *)
Tick ==
  /\ phase # "off"
  /\ \A p \in Manifest : monitor[p] # "due"
  /\ \E p \in Manifest : monitor[p] = "asleep"
  /\ monitor' = [p \in Manifest |-> IF monitor[p] = "asleep" THEN "due" ELSE monitor[p]]
  /\ beat' = [p \in Manifest |-> IF beat[p] = None \/ beat[p] = StaleAfter THEN beat[p]
                                 ELSE beat[p] + 1]
  /\ restarts' = [p \in Manifest |-> [i \in DOMAIN restarts[p] |->
                    IF restarts[p][i] = Window THEN Window ELSE restarts[p][i] + 1]]
  /\ UNCHANGED <<phase, todo, inflight, handles, sock, kid, own, faults>>

Stale(p) == beat[p] = StaleAfter

(* retain of the last sixty seconds.  The window is in the order of time    *)
(* (WindowOrdered), so what it drops comes first.                          *)
Recent(p) ==
  LET old == Cardinality({i \in DOMAIN restarts[p] : restarts[p][i] = Window})
  IN  [i \in 1..(Len(restarts[p]) - old) |-> restarts[p][i + old]]

(* Bug: the monitor never gives up. *)
BugEndlessMonitor(p) ==
  /\ monitor[p] = "due"
  /\ monitor' = [monitor EXCEPT ![p] = IF phase = "stopping" THEN "done" ELSE "asleep"]
  /\ UNCHANGED <<phase, todo, inflight, handles, sock, beat, restarts, kid, own, faults>>

(* spawn_monitor: a stale plugin is entered in the window and logged; no    *)
(* child is touched, and neither is the heartbeat.                         *)
Monitor(p) ==
  /\ monitor[p] = "due"
  /\ \/ /\ phase = "stopping"
        /\ monitor' = [monitor EXCEPT ![p] = "done"]
        /\ UNCHANGED restarts
     \/ /\ phase # "stopping" /\ ~Stale(p)
        /\ monitor' = [monitor EXCEPT ![p] = "asleep"]
        /\ UNCHANGED restarts
     \/ /\ phase # "stopping" /\ Stale(p) /\ Len(Recent(p)) >= MaxRestarts
        /\ monitor' = [monitor EXCEPT ![p] = "done"]
        /\ restarts' = [restarts EXCEPT ![p] = Recent(p)]
     \/ /\ phase # "stopping" /\ Stale(p) /\ Len(Recent(p)) < MaxRestarts
        /\ monitor' = [monitor EXCEPT ![p] = "asleep"]
        /\ restarts' = [restarts EXCEPT ![p] = Append(Recent(p), 0)]
  /\ UNCHANGED <<phase, todo, inflight, handles, sock, beat, kid, own, faults>>

-----------------------------------------------------------------------------
(* The idle loop saw the signal; supervisor.shutdown sets the flag.         *)
Shutdown ==
  /\ phase = "idle"
  /\ phase' = "stopping"
  /\ UNCHANGED <<todo, inflight, handles, sock, watch, kid, own, faults>>

(* accept_loop looks at the flag twice a second.                            *)
AcceptLoopEnds(p) ==
  /\ phase = "stopping"
  /\ sock[p] = "live"
  /\ sock' = [sock EXCEPT ![p] = "stale"]
  /\ UNCHANGED <<phase, todo, inflight, handles, watch, kid, own, faults>>

(* Bug: the handle is dropped from the map, the child is not killed. *)
BugForgetKid(p) ==
  /\ phase = "stopping"
  /\ handles[p] # None
  /\ handles' = [handles EXCEPT ![p] = None]
  /\ UNCHANGED <<phase, todo, inflight, sock, watch, kid, own, faults>>

ShutdownKill(p) ==
  /\ phase = "stopping"
  /\ handles[p] # None
  /\ kid' = Killed({handles[p]})
  /\ handles' = [handles EXCEPT ![p] = None]
  /\ UNCHANGED <<phase, todo, inflight, sock, watch, own, faults>>

Exit ==
  /\ phase = "stopping"
  /\ handles = NoHandles
  /\ Gone
  /\ kid' = Severed({})
  /\ own' = {k \in own : Alive(k)}
  /\ UNCHANGED faults

(* The daemon is killed: nothing is dropped.                                *)
Crash ==
  /\ phase # "off" /\ faults < MaxFaults
  /\ faults' = faults + 1
  /\ Gone
  /\ own' = {}
  /\ kid' = Severed({})

-----------------------------------------------------------------------------
(* The child (agent-plugin-opencode/src/main.rs).                           *)

(* It exits if nobody listens.                                              *)
KidConnects(k) ==
  /\ kid[k].state = "starting"
  /\ kid' = [kid EXCEPT ![k] = [@ EXCEPT !.state = IF sock[kid[k].of] = "live" THEN "connected" ELSE "none"]]
  /\ UNCHANGED <<phase, todo, inflight, handles, sock, watch, own, faults>>

(* accept_loop opens the database for every connection; if that fails its   *)
(* task panics, and connection and listener are dropped.                   *)
AcceptPanics(k) ==
  /\ phase \in {"idle", "stopping"} /\ faults < MaxFaults
  /\ kid[k].state = "starting"
  /\ sock[kid[k].of] = "live"
  /\ kid' = [kid EXCEPT ![k].state = "deaf"]
  /\ sock' = [sock EXCEPT ![kid[k].of] = "stale"]
  /\ faults' = faults + 1
  /\ UNCHANGED <<phase, todo, inflight, handles, watch, own>>

KidHangs(k) ==
  /\ kid[k].state = "connected" /\ faults < MaxFaults
  /\ kid' = [kid EXCEPT ![k].state = "hung"]
  /\ faults' = faults + 1
  /\ UNCHANGED <<phase, todo, inflight, handles, sock, watch, own>>

(* handle_plugin_connection closes after fifteen silent seconds.            *)
ReadTimeout(k) ==
  /\ kid[k].state = "hung"
  /\ kid' = [kid EXCEPT ![k].state = "deaf"]
  /\ UNCHANGED <<phase, todo, inflight, handles, sock, watch, own, faults>>

KidDies(k) ==
  /\ Alive(k) /\ faults < MaxFaults
  /\ kid' = [kid EXCEPT ![k].state = "none"]
  /\ faults' = faults + 1
  /\ UNCHANGED <<phase, todo, inflight, handles, sock, watch, own>>

Init ==
  /\ phase = "off"
  /\ todo = {}
  /\ inflight = None
  /\ handles = NoHandles
  /\ sock = [p \in Manifest |-> "none"]
  /\ beat = [p \in Manifest |-> None]
  /\ monitor = [p \in Manifest |-> "none"]
  /\ restarts = [p \in Manifest |-> << >>]
  /\ kid = [k \in Kids |-> NoKid]
  /\ own = {}
  /\ faults = 0

(* What the daemon does without being told.                                 *)
Daemon ==
  \/ \E p \in Owners : Ensure(p)
  \/ EnsureFails \/ EnsureInsert \/ Respawned
  \/ \E p \in Autostart : AutostartBind(p) \/ AutostartSpawn(p) \/ AutostartPanics(p)
  \/ AutostartInsert \/ Autostarted
  \/ \E p \in Manifest : AcceptLoopEnds(p) \/ ShutdownKill(p)
  \/ Exit

Kid(k) == KidConnects(k) \/ ReadTimeout(k)

Next ==
  \/ Boot \/ Daemon \/ Shutdown \/ Crash
  \/ Tick \/ \E p \in Manifest : Monitor(p)
  \/ \E k \in Kids : Kid(k) \/ KidHangs(k) \/ KidDies(k) \/ AcceptPanics(k)

Spec == Init /\ [][Next]_vars

(* The processes run and time passes.                                       *)
FairSpec ==
  /\ Spec
  /\ WF_vars(Daemon)
  /\ WF_vars(Tick)
  /\ \A p \in Manifest : WF_vars(Monitor(p))
  /\ \A k \in Kids : WF_vars(Kid(k))

-----------------------------------------------------------------------------
(* Properties. *)

(* The part of the type invariant that is about processes and handles.      *)
HandlesTyped ==
  /\ phase \in {"off", "respawn", "autostart", "idle", "stopping"}
  /\ inflight \in Kids \cup {None}
  /\ handles \in [Manifest -> Kids \cup {None}]
  /\ kid \in [Kids -> [state : {"none", "starting", "connected", "hung", "deaf"},
                       of : Manifest \cup {None}]]
  /\ own \subseteq Kids

(* Type correctness of the supervisor's maps and of the children; the       *)
(* monitor's window holds at most the limit.                               *)
TypeOK ==
  /\ HandlesTyped
  /\ todo \subseteq Owners \cup Autostart
  /\ sock \in [Manifest -> {"none", "live", "stale"}]
  /\ beat \in [Manifest -> (0..StaleAfter) \cup {None}]
  /\ monitor \in [Manifest -> {"none", "asleep", "due", "done"}]
  /\ restarts \in [Manifest -> Seq(0..Window)]
  /\ \A p \in Manifest : Len(restarts[p]) <= MaxRestarts
  /\ faults \in 0..MaxFaults

(* The ages in a window never grow from one entry to the next.              *)
WindowOrdered ==
  \A p \in Manifest : \A i, j \in DOMAIN restarts[p] : i <= j => restarts[p][i] >= restarts[p][j]

(* The inductive invariant behind TypeOK.                                   *)
TypeInv == TypeOK /\ WindowOrdered

(* Every child that lives is one its daemon can still kill, a crash of the  *)
(* daemon aside: its handle is stored under its plugin, or about to be.    *)
(* So no failed boot, second spawn or shutdown leaves a process behind     *)
(* (kill_on_drop of RealPluginSpawner, PluginSupervisor::shutdown).        *)
KidsHeld ==
  \A k \in own : Alive(k) => k = inflight \/ handles[kid[k].of] = k

(* A child is spawned and not yet stored only while the daemon boots; it is *)
(* a plugin of the manifest, no handle names it, and restart_respawn never *)
(* has a second one for a plugin that has a handle.                        *)
InflightFresh ==
  inflight # None =>
    /\ phase \in {"respawn", "autostart"}
    /\ kid[inflight].of \in Manifest
    /\ inflight \notin Stored
    /\ phase = "respawn" => handles[kid[inflight].of] = None

(* A daemon that ended, by shutdown or because its boot failed, left no     *)
(* child of its own running.                                               *)
NoneLeft == phase = "off" => \A k \in own : ~Alive(k)

(* The inductive invariant behind KidsHeld and NoneLeft.                    *)
IInv ==
  /\ HandlesTyped /\ InflightFresh /\ KidsHeld
  /\ phase = "off" => handles = NoHandles
  /\ \A k \in Kids : Alive(k) => kid[k].of \in Manifest

(* plugin_supervisor.rs:230-231: shutdown ends, and with it every child.    *)
ShutdownKills == phase = "stopping" ~> (phase = "off" /\ \A k \in own : ~Alive(k))

(* plugin_supervisor.rs:195-196: the monitor of a plugin that stays stale   *)
(* "stops trying".                                                         *)
GivesUp == \A p \in Autostart : Stale(p) ~> (monitor[p] = "done" \/ phase = "off")

(* plugin_supervisor.rs:97-100: autostart binds the socket first "so the    *)
(* child process finds a ready socket when it tries to connect": unless a  *)
(* child or the daemon fails, a plugin it spawned gets connected, even     *)
(* when restart_respawn spawned, and lost, one before it.                  *)
AutostartConnects ==
  \A p \in Autostart :
    (phase = "idle" /\ monitor[p] # "none") ~>
      \/ phase # "idle" \/ faults > 0
      \/ \E k \in Kids : kid[k].of = p /\ kid[k].state = "connected"
=============================================================================
