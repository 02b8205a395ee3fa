--------------------------- MODULE OpencodeWatcher ---------------------------
(***************************************************************************)
(* The opencode plugin's watch loop (agent-plugin-opencode/src/watcher.rs) *)
(* between tmux, which changes under it, and the daemon, whose table it    *)
(* keeps up to date: scan and register, then a select over three timers    *)
(* whose arms poll the panes, re-scan tmux and send heartbeats.            *)
(*                                                                         *)
(* The daemon's side of a call is one step here (SessionService splits     *)
(* it); every await of the loop is a point where tmux and the user act.    *)
(* The rows are those of one plugin.  Tombstones are not collected.        *)
(***************************************************************************)
EXTENDS SessionTable, FiniteSets

CONSTANTS
  Plugin,     \* the plugin's name
  Name,       \* the display name its sessions get
  Texts,      \* statuses the programs in the panes print
  Every,      \* period of each arm of the loop, in ticks
  MaxFaults   \* bound on failed calls and commands, lost links and respawns

Arms == {"poll", "check", "beat"}

ASSUME PluginIsOne == Plugins = {Plugin} /\ Name \in Names

ASSUME EnoughIds == IsFiniteSet(Ids) /\ Cardinality(Ids) = Cardinality(Panes)

ASSUME PrintedTexts == Texts \subseteq {"working", "idle", "errored"}

ASSUME Periods == Every \in [Arms -> Nat \ {0}] /\ MaxFaults \in Nat

VARIABLES
  cmd,       \* what runs in each tmux pane
  text,      \* what parse_status makes of each pane's last line
  sessions,  \* the daemon's table
  link,      \* the plugin's connection is open at the daemon's end
  pc,        \* where the plugin process is
  panes,     \* the panes its initial scan found
  known,     \* pane -> session id and last status
  todo,      \* panes left in the loop under way
  found,     \* panes the re-scan saw opencode in
  seen,      \* the status just captured, and its pane
  timer,     \* ticks until each arm is ready
  faults     \* faults so far

tmux == <<cmd, text>>

local == <<panes, known, todo, found, seen, timer>>

vars == <<tmux, sessions, link, pc, local, faults>>

-----------------------------------------------------------------------------
(* tmux list-panes exits non-zero when no server runs, that is, when no     *)
(* pane is left.                                                           *)
Server == \E p \in Panes : cmd[p] # "gone"

Told == {"working", "idle", "errored"}

NotKnown == [id |-> None, status |-> None]

Known == {p \in Panes : known[p] # NotKnown}

(* A call fails for good once the daemon closed the connection: the plugin  *)
(* never reconnects.  It may also fail once, say when SQLite stays busy.   *)
CallOk == link /\ faults' = faults

CallFails == (~link /\ faults' = faults) \/ (faults < MaxFaults /\ faults' = faults + 1)

(* A tmux command that cannot be started because the binary is not there    *)
(* lists no pane, and shows nothing in one.                                *)
NoBinary == faults < MaxFaults /\ faults' = faults + 1

Finish(id) == sessions' = MarkFinished(sessions, id, "recent")

(* Bug: the slot is filled before the daemon answers. *)
BugSlotFirst(p) ==
  \E id \in Ids :
    /\ sessions[id].status = "absent"
    /\ known' = [known EXCEPT ![p] = [id |-> id, status |-> "starting"]]
    /\ \/ CallOk /\ BindingFree(sessions, p) /\ sessions' = Insert(sessions, id, NewRow(Plugin, p, Name))
       \/ ((CallOk /\ ~BindingFree(sessions, p)) \/ CallFails) /\ UNCHANGED sessions

(* session.discover: a fresh row, unless the pane is bound already.         *)
Discover(p) ==
  \/ /\ CallOk
     /\ BindingFree(sessions, p)
     /\ \E id \in Ids :
          /\ sessions[id].status = "absent"
          /\ sessions' = Insert(sessions, id, NewRow(Plugin, p, Name))
          /\ known' = [known EXCEPT ![p] = [id |-> id, status |-> "starting"]]
  \/ /\ (CallOk /\ ~BindingFree(sessions, p)) \/ CallFails
     /\ UNCHANGED <<sessions, known>>

(* Back to the select, which makes a new sleep for the poll arm.            *)
Select == pc' = "select" /\ timer' = [timer EXCEPT !["poll"] = Every["poll"]]

Fire(arm) ==
  /\ pc = "select"
  /\ timer[arm] = 0
  /\ timer' = [timer EXCEPT !["poll"] = Every["poll"], ![arm] = Every[arm]]

-----------------------------------------------------------------------------
(* main: the scan keeps panes by their command or by the process behind it; *)
(* if tmux fails, the plugin exits.                                        *)
Scan ==
  /\ pc = "scan"
  /\ \/ /\ panes' = {p \in Panes : cmd[p] \in {"opencode", "wrapped"}}
        /\ pc' = IF Server THEN "register" ELSE "dead"
        /\ UNCHANGED faults
     \/ NoBinary /\ panes' = {} /\ pc' = "register"
  /\ todo' = panes'
  /\ UNCHANGED <<tmux, sessions, link, known, found, seen, timer>>

Register(p) ==
  /\ pc = "register"
  /\ p \in todo
  /\ Discover(p)
  /\ todo' = todo \ {p}
  /\ UNCHANGED <<tmux, link, pc, panes, found, seen, timer>>

(* A tokio interval is ready at once the first time.                        *)
Registered ==
  /\ pc = "register"
  /\ todo = {}
  /\ pc' = "select"
  /\ timer' = [a \in Arms |-> IF a = "poll" THEN Every[a] ELSE 0]
  /\ UNCHANGED <<tmux, sessions, link, panes, known, todo, found, seen, faults>>

(* The loop sleeps until an arm is ready; an arm's own work takes less than *)
(* a tick.                                                                 *)
Sleep ==
  /\ pc = "select"
  /\ \A a \in Arms : timer[a] > 0
  /\ timer' = [a \in Arms |-> timer[a] - 1]
  /\ UNCHANGED <<tmux, sessions, link, pc, panes, known, todo, found, seen, faults>>

(* The poll arm goes through the panes of the initial scan.                 *)
PollArm ==
  /\ Fire("poll")
  /\ pc' = "poll"
  /\ todo' = panes
  /\ UNCHANGED <<tmux, sessions, link, panes, known, found, seen, faults>>

Capture(p) ==
  /\ pc = "poll"
  /\ p \in todo
  /\ todo' = todo \ {p}
  /\ \/ /\ IF p \in Known /\ cmd[p] # "gone" /\ text[p] \in Told \ {known[p].status}
           THEN pc' = "report" /\ seen' = [pane |-> p, status |-> text[p]]
           ELSE UNCHANGED <<pc, seen>>
        /\ UNCHANGED faults
     \/ NoBinary /\ UNCHANGED <<pc, seen>>
  /\ UNCHANGED <<tmux, sessions, link, panes, known, found, timer>>

(* Bug: the slot keeps its old status. *)
BugForgetStatus ==
  /\ pc = "report"
  /\ \/ CallOk /\ sessions' = UpdateStatus(sessions, known[seen.pane].id, seen.status)
     \/ CallFails /\ UNCHANGED sessions
  /\ pc' = "poll"
  /\ UNCHANGED <<tmux, link, panes, known, todo, found, seen, timer>>

(* Bug: the slot takes the status, the daemon is not told. *)
BugSlotOnly ==
  /\ pc = "report"
  /\ known' = [known EXCEPT ![seen.pane] = [@ EXCEPT !.status = seen.status]]
  /\ pc' = "poll"
  /\ UNCHANGED <<tmux, sessions, link, panes, todo, found, seen, timer, faults>>

(* The slot takes the new status whether or not the daemon took it.         *)
Report ==
  /\ pc = "report"
  /\ \/ CallOk /\ sessions' = UpdateStatus(sessions, known[seen.pane].id, seen.status)
     \/ CallFails /\ UNCHANGED sessions
  /\ known' = [known EXCEPT ![seen.pane] = [@ EXCEPT !.status = seen.status]]
  /\ pc' = "poll"
  /\ UNCHANGED <<tmux, link, panes, todo, found, seen, timer>>

PollDone ==
  /\ pc = "poll"
  /\ todo = {}
  /\ Select
  /\ UNCHANGED <<tmux, sessions, link, panes, known, todo, found, seen, faults>>

(* Bug: only panes that are gone count as vanished. *)
BugGoneOnly ==
  /\ Fire("check")
  /\ found' = {p \in Panes : cmd[p] = "opencode"}
  /\ todo' = Known \cap {p \in Panes : cmd[p] = "gone"}
  /\ pc' = "finish"
  /\ UNCHANGED <<tmux, sessions, link, panes, known, seen, faults>>

(* run_pane_check, diff_pane_states: a failing enumeration is skipped, an   *)
(* empty one counts.                                                       *)
CheckArm ==
  /\ Fire("check")
  /\ \/ ~Server /\ UNCHANGED <<found, todo, pc, faults>>
     \/ /\ \/ Server /\ found' = {p \in Panes : cmd[p] = "opencode"} /\ UNCHANGED faults
           \/ NoBinary /\ found' = {}
        /\ todo' = Known \ found'
        /\ pc' = "finish"
  /\ UNCHANGED <<tmux, sessions, link, panes, known, seen>>

(* Bug: a pane that is merely another program's is forgotten silently. *)
BugSilentForget(p) ==
  /\ pc = "finish"
  /\ p \in todo
  /\ todo' = todo \ {p}
  /\ known' = [known EXCEPT ![p] = NotKnown]
  /\ \/ cmd[p] = "gone" /\ CallOk /\ Finish(known[p].id)
     \/ cmd[p] # "gone" /\ UNCHANGED <<sessions, faults>>
  /\ UNCHANGED <<tmux, link, pc, panes, found, seen, timer>>

(* emit_finished_for_vanished forgets the pane before it reports.           *)
FinishVanished(p) ==
  /\ pc = "finish"
  /\ p \in todo
  /\ todo' = todo \ {p}
  /\ known' = [known EXCEPT ![p] = NotKnown]
  /\ \/ CallOk /\ Finish(known[p].id)
     \/ CallFails /\ UNCHANGED sessions
  /\ UNCHANGED <<tmux, link, pc, panes, found, seen, timer>>

(* Bug: the re-scan only looks at the panes of the initial scan. *)
BugInitialOnly ==
  /\ pc = "finish"
  /\ todo = {}
  /\ todo' = (found \cap panes) \ Known
  /\ pc' = "discover"
  /\ UNCHANGED <<tmux, sessions, link, panes, known, found, seen, timer, faults>>

Finished ==
  /\ pc = "finish"
  /\ todo = {}
  /\ todo' = found \ Known
  /\ pc' = "discover"
  /\ UNCHANGED <<tmux, sessions, link, panes, known, found, seen, timer, faults>>

DiscoverNew(p) ==
  /\ pc = "discover"
  /\ p \in todo
  /\ Discover(p)
  /\ todo' = todo \ {p}
  /\ UNCHANGED <<tmux, link, pc, panes, found, seen, timer>>

CheckDone ==
  /\ pc = "discover"
  /\ todo = {}
  /\ Select
  /\ UNCHANGED <<tmux, sessions, link, panes, known, todo, found, seen, faults>>

(* plugin.heartbeat changes nothing; a failure is logged.                   *)
BeatArm ==
  /\ Fire("beat")
  /\ UNCHANGED <<tmux, sessions, link, pc, panes, known, todo, found, seen, faults>>

-----------------------------------------------------------------------------
(* tmux and the programs in it.  Pane ids start over with a new server.     *)
PaneChanges(p) ==
  /\ \E c \in {"gone", "shell", "opencode", "wrapped"} \ {cmd[p]} :
       /\ cmd[p] = "shell" \/ c = "shell" \/ c = "gone"
       /\ cmd' = [cmd EXCEPT ![p] = c]
  /\ UNCHANGED <<text, sessions, link, pc, local, faults>>

Prints(p) ==
  /\ cmd[p] # "gone"
  /\ \E s \in Texts \cup {"none"} : text' = [text EXCEPT ![p] = s]
  /\ UNCHANGED <<cmd, sessions, link, pc, local, faults>>

(* The user's requests, served by other threads of the daemon.  The result  *)
(* of tmux kill-session is ignored.                                        *)
SessionKill(id) ==
  /\ id \in NonFinished(sessions)
  /\ Finish(id)
  /\ cmd' \in {cmd, [cmd EXCEPT ![sessions[id].pane] = "gone"]}
  /\ UNCHANGED <<text, link, pc, local, faults>>

SessionDismiss(id) ==
  /\ sessions[id].status = "errored"
  /\ sessions' = UpdateStatus(sessions, id, "idle")
  /\ UNCHANGED <<tmux, link, pc, local, faults>>

(* The daemon hears nothing for fifteen seconds, or dies.                   *)
LinkLost ==
  /\ link /\ faults < MaxFaults
  /\ link' = FALSE
  /\ faults' = faults + 1
  /\ UNCHANGED <<tmux, sessions, pc, local>>

(* A new daemon spawns a new plugin; nothing else ever does.                *)
Respawn ==
  /\ faults < MaxFaults
  /\ faults' = faults + 1
  /\ pc' = "scan"
  /\ link' = TRUE
  /\ known' = [p \in Panes |-> NotKnown]
  /\ UNCHANGED <<tmux, sessions, panes, todo, found, seen, timer>>

Init ==
  /\ cmd \in [Panes -> {"shell", "opencode"}]
  /\ text = [p \in Panes |-> "none"]
  /\ sessions = [id \in Ids |-> NoRow("absent")]
  /\ link = TRUE
  /\ pc = "scan"
  /\ panes = {} /\ todo = {} /\ found = {}
  /\ known = [p \in Panes |-> NotKnown]
  /\ seen = [pane |-> None, status |-> None]
  /\ timer = Every
  /\ faults = 0

Watch ==
  \/ Scan \/ Registered \/ Sleep
  \/ PollArm \/ Report \/ PollDone
  \/ CheckArm \/ Finished \/ CheckDone
  \/ BeatArm
  \/ \E p \in Panes : Register(p) \/ Capture(p) \/ FinishVanished(p) \/ DiscoverNew(p)

Next ==
  \/ Watch
  \/ \E p \in Panes : PaneChanges(p) \/ Prints(p)
  \/ \E id \in Ids : SessionKill(id) \/ SessionDismiss(id)
  \/ LinkLost \/ Respawn

Spec == Init /\ [][Next]_vars

(* The plugin process runs, and tokio::select! picks at random among the    *)
(* arms that are ready.                                                    *)
FairSpec == Spec /\ WF_vars(Watch) /\ SF_vars(PollArm) /\ SF_vars(CheckArm)

-----------------------------------------------------------------------------
(* Properties. *)

Slots == [id : Ids, status : Told \cup {"starting"}] \cup {NotKnown}

(* Type correctness of the plugin's state and of the rows it made.          *)
TypeOK ==
  /\ cmd \in [Panes -> {"gone", "shell", "opencode", "wrapped"}]
  /\ text \in [Panes -> Told \cup {"none"}]
  /\ sessions \in [Ids -> Row]
  /\ link \in BOOLEAN
  /\ pc \in {"scan", "dead", "register", "select", "poll", "report", "finish", "discover"}
  /\ panes \subseteq Panes /\ todo \subseteq Panes /\ found \subseteq Panes
  /\ known \in [Panes -> Slots]
  /\ seen \in [pane : Panes \cup {None}, status : Told \cup {None}]
  /\ timer \in [Arms -> Nat] /\ \A a \in Arms : timer[a] <= Every[a]
  /\ faults \in 0..MaxFaults

(* What the plugin takes for the session of a pane is the session the table *)
(* binds to that pane: reports about one pane never reach another's row,   *)
(* however panes vanish, come back and change hands.                       *)
KnownBound ==
  \A p \in Known :
    /\ Exists(sessions, known[p].id)
    /\ sessions[known[p].id].pane = p /\ sessions[known[p].id].owner = Plugin

(* As long as every call went through, the status the plugin believes it    *)
(* told is the one the row has, unless the user killed the session or      *)
(* dismissed the error: watcher.rs only reports transitions, so a belief   *)
(* that is wrong would stay wrong.                                         *)
BeliefsHold ==
  faults = 0 => \A p \in Known :
    LET row == sessions[known[p].id] IN
      \/ row.status \in {known[p].status, "finished"}
      \/ known[p].status = "errored" /\ row.status = "idle"

(* A row is bound to a pane once only: of the sessions of a pane none is    *)
(* active behind the plugin's back while no call or command failed and the *)
(* plugin was not restarted.                                               *)
ActiveIsKnown ==
  faults = 0 => \A id \in NonFinished(sessions) : known[sessions[id].pane].id = id

(* The rows are the plugin's, each is bound to a pane, and no two, finished *)
(* or not, to the same one.                                                *)
RowsBound ==
  \A id \in Ids : Exists(sessions, id) =>
    /\ sessions[id].owner = Plugin /\ sessions[id].pane \in Panes
    /\ \A j \in Ids :
         Exists(sessions, j) /\ sessions[j].pane = sessions[id].pane => j = id

(* What each stage of the loop relies on: a fresh process knows no pane, a  *)
(* discover never goes out for a pane that has a slot, and a report or a   *)
(* finish only for one that has.                                           *)
StagesAgree ==
  /\ pc = "scan" => Known = {}
  /\ pc \in {"register", "discover"} => todo \cap Known = {}
  /\ pc = "finish" => todo \subseteq Known
  /\ pc = "report" => seen.pane \in Known /\ seen.status \in Told

(* The inductive invariant behind the three above.                          *)
IInv ==
  /\ TypeOK /\ RowsBound /\ StagesAgree
  /\ faults = 0 => link
  /\ KnownBound /\ BeliefsHold /\ ActiveIsKnown

(* A pane that opencode left is reported: its session finishes, unless a    *)
(* call fails.                                                             *)
VanishedFinished ==
  \A p \in Panes, id \in Ids :
    (known[p].id = id /\ cmd[p] = "shell") ~>
      (sessions[id].status = "finished" \/ cmd[p] # "shell" \/ faults > 0)

(* watcher.rs:266-268: "every `interval` captures the pane content and      *)
(* emits `session.status_changed` on change", for a pane of the initial    *)
(* scan, unless a call fails.                                              *)
Untold(p, s) == p \in Known /\ cmd[p] = "opencode" /\ text[p] = s /\ known[p].status # s

StatusReported ==
  \A p \in Panes, s \in Told, id \in Ids :
    (p \in panes /\ known[p].id = id /\ Untold(p, s)) ~>
      \/ sessions[id].status = s \/ text[p] # s \/ cmd[p] # "opencode"
      \/ p \notin Known \/ faults > 0

(* watcher.rs:270-271: "newly appeared panes get a fresh                    *)
(* `session.discover`", and so an active session, unless the pane had one  *)
(* before or a call fails.                                                 *)
FirstTracked ==
  \A p \in Panes :
    (pc = "select" /\ cmd[p] = "opencode" /\ BindingFree(sessions, p)) ~>
      \/ cmd[p] # "opencode" \/ faults > 0
      \/ \E id \in NonFinished(sessions) : sessions[id].pane = p
=============================================================================
