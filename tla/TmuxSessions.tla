---------------------------- MODULE TmuxSessions ----------------------------
(***************************************************************************)
(* Sessions in tmux and their rows: create_session (session_create.rs) and *)
(* session.kill (handlers/mutate.rs) over the tmux commands of RealTmux    *)
(* (tmux.rs), with the user at tmux, a plugin that discovers and finishes, *)
(* failing commands and the death of the daemon between any two steps.     *)
(*                                                                         *)
(* create_session is the library's way to create a session with its tmux   *)
(* session; the daemon's own handler only inserts a row (SessionService).  *)
(* A tmux session has one pane here.  SQL statements fail only by the      *)
(* unique index; OpencodeWatcher has the plugin's side in detail.          *)
(***************************************************************************)
EXTENDS SessionTable, FiniteSets

CONSTANTS
  Callers,    \* threads of the daemon
  Valid,      \* the names validate_session_name accepts
  Stored,     \* the name tmux gives a session: it replaces dots
  Longer,     \* the names that start with a name
  MaxPane,    \* bound on pane numbers
  MaxFaults   \* bound on failed tmux commands and deaths of the daemon

Numbers == 0..MaxPane

ASSUME TmuxNames ==
  /\ Valid \subseteq Names
  /\ Stored \in [Names -> Names] /\ \A n \in Names : Stored[Stored[n]] = Stored[n]
  /\ Longer \in [Names -> SUBSET Names]
  /\ Panes = Names \X Numbers

ASSUME NoneIsApart == None \notin Numbers /\ None \notin {"ok", "err", "leak"}

ASSUME TmuxBounds == MaxPane \in Nat /\ MaxFaults \in Nat /\ IsFiniteSet(Ids)

VARIABLES
  live,     \* the pane of each tmux session, by name
  next,     \* the number tmux gives the next pane
  sessions, \* the daemon's table
  job,      \* what each thread is doing
  outcome,  \* history: how the creation of each row ended
  wrong,    \* history: a kill took another session than the one it was for
  faults    \* faults so far

tmux == <<live, next>>

vars == <<tmux, sessions, job, outcome, wrong, faults>>

-----------------------------------------------------------------------------
(* A thread's step, its row, the tmux session's name and the pane it goes   *)
(* by; `made` is history: the session tmux made for the row.               *)
Idle == [step |-> "idle", id |-> None, name |-> None, pane |-> None, made |-> None]

Step(c, s) == job' = [job EXCEPT ![c].step = s]

Return(c) == job' = [job EXCEPT ![c] = Idle]

Live(pane) == pane # None /\ live[pane[1]] = pane[2]

(* A command fails on its own, say because it cannot be spawned.            *)
Fault == faults < MaxFaults /\ faults' = faults + 1

NoFault == faults' = faults

-----------------------------------------------------------------------------
(* tmux. *)

(* new-session -d -s: a duplicate name is an error; a new server starts     *)
(* numbering anew.                                                         *)
CanMake(name) == live[Stored[name]] = None /\ next \in Numbers

Make(name) ==
  /\ live' = [live EXCEPT ![Stored[name]] = next]
  /\ next' = next + 1

(* kill-session -t: the session of that name, or else the only one whose    *)
(* name starts with it.                                                    *)
Target(name) ==
  LET longer == {n \in Longer[name] : live[n] # None}
  IN  IF live[name] # None THEN {name} ELSE IF Cardinality(longer) = 1 THEN longer ELSE {}

Remove(names) ==
  /\ live' = [n \in Names |-> IF n \in names THEN None ELSE live[n]]
  /\ next' = IF \A n \in Names : live'[n] = None THEN 0 ELSE next

(* kill_session for the session `meant`; whatever it answers is ignored.    *)
KillSession(name, meant) ==
  \/ /\ NoFault
     /\ Remove(Target(name))
     /\ wrong' = (wrong \/ \E n \in Target(name) :
                             <<n, live[n]>> # meant /\ (meant = None \/ Live(meant)))
  \/ Fault /\ UNCHANGED <<tmux, wrong>>

-----------------------------------------------------------------------------
(* create_session. *)

(* The name is checked and the starting row inserted, without owner or pane.*)
CreateInsert(c) ==
  /\ job[c] = Idle
  /\ \E id \in Ids, name \in Valid :
       /\ sessions[id].status = "absent"
       /\ sessions' = Insert(sessions, id, NewRow(None, None, name))
       /\ job' = [job EXCEPT ![c] = [Idle EXCEPT !.step = "new", !.id = id, !.name = name]]
  /\ UNCHANGED <<tmux, outcome, wrong, faults>>

(* Bug: the rollback of a refused name kills the session that has it. *)
BugKillOnDuplicate(c) ==
  /\ job[c].step = "new"
  /\ \/ /\ CanMake(job[c].name) /\ NoFault
        /\ Make(job[c].name)
        /\ job' = [job EXCEPT ![c].step = "list", ![c].made = <<Stored[job[c].name], next>>]
     \/ /\ ~CanMake(job[c].name) /\ NoFault
        /\ Step(c, "kill")
        /\ UNCHANGED tmux
  /\ UNCHANGED <<sessions, outcome, wrong>>

(* RealTmux::new_session makes the session and then lists all panes to find *)
(* it by name; if either fails, only the row is taken back.                *)
CreateNew(c) ==
  /\ job[c].step = "new"
  /\ \/ /\ CanMake(job[c].name) /\ NoFault
        /\ Make(job[c].name)
        /\ job' = [job EXCEPT ![c].step = "list", ![c].made = <<Stored[job[c].name], next>>]
     \/ /\ (~CanMake(job[c].name) /\ NoFault) \/ Fault
        /\ Step(c, "delete")
        /\ UNCHANGED tmux
  /\ UNCHANGED <<sessions, outcome, wrong>>

CreateList(c) ==
  /\ job[c].step = "list"
  /\ LET name == job[c].name IN
       \/ /\ live[name] # None /\ NoFault
          /\ job' = [job EXCEPT ![c].step = "bind", ![c].pane = <<name, live[name]>>]
       \/ /\ (live[name] = None /\ NoFault) \/ Fault
          /\ Step(c, "delete")
  /\ UNCHANGED <<tmux, sessions, outcome, wrong>>

(* Bug: a row that cannot be bound is left behind. *)
BugLeaveRow(c) ==
  /\ job[c].step = "bind"
  /\ LET id == job[c].id free == BindingFree(sessions, job[c].pane) IN
       /\ sessions' = IF free THEN UpdateTmux(sessions, id, job[c].pane) ELSE sessions
       /\ outcome' = [outcome EXCEPT ![id] = IF free THEN "ok" ELSE "err"]
       /\ Return(c)
  /\ UNCHANGED <<tmux, wrong, faults>>

(* update_tmux and the reload, or else on to kill and delete.               *)
CreateBind(c) ==
  /\ job[c].step = "bind"
  /\ IF BindingFree(sessions, job[c].pane)
     THEN /\ sessions' = UpdateTmux(sessions, job[c].id, job[c].pane)
          /\ outcome' = [outcome EXCEPT ![job[c].id] = "ok"]
          /\ Return(c)
     ELSE Step(c, "kill") /\ UNCHANGED <<sessions, outcome>>
  /\ UNCHANGED <<tmux, wrong, faults>>

CreateUndoTmux(c) ==
  /\ job[c].step = "kill"
  /\ KillSession(job[c].name, job[c].made)
  /\ Step(c, "delete")
  /\ UNCHANGED <<sessions, outcome>>

CreateUndoRow(c) ==
  /\ job[c].step = "delete"
  /\ sessions' = DeleteRow(sessions, job[c].id)
  /\ outcome' = [outcome EXCEPT ![job[c].id] = IF Live(job[c].made) THEN "leak" ELSE "err"]
  /\ Return(c)
  /\ UNCHANGED <<tmux, wrong, faults>>

-----------------------------------------------------------------------------
(* session_kill: the row is looked up, its tmux session if it has one       *)
(* killed, the row marked.                                                 *)
KillGet(c, id) ==
  /\ job[c] = Idle
  /\ id \in NonFinished(sessions)
  /\ LET pane == sessions[id].pane IN
       job' = [job EXCEPT ![c] =
                 IF pane = None THEN [Idle EXCEPT !.step = "mark", !.id = id]
                 ELSE [Idle EXCEPT !.step = "take", !.id = id, !.name = pane[1], !.pane = pane]]
  /\ UNCHANGED <<tmux, sessions, outcome, wrong, faults>>

(* Bug: a tmux session that is gone is an error. *)
BugGoneIsError(c) ==
  /\ job[c].step = "take"
  /\ KillSession(job[c].name, job[c].pane)
  /\ IF Target(job[c].name) = {} THEN Return(c) ELSE Step(c, "mark")
  /\ UNCHANGED <<sessions, outcome>>

KillTake(c) ==
  /\ job[c].step = "take"
  /\ KillSession(job[c].name, job[c].pane)
  /\ Step(c, "mark")
  /\ UNCHANGED <<sessions, outcome>>

(* mark_finished fails when the row has been deleted meanwhile.             *)
KillMark(c) ==
  /\ job[c].step = "mark"
  /\ sessions' = IF Exists(sessions, job[c].id) THEN MarkFinished(sessions, job[c].id, "recent")
                                               ELSE sessions
  /\ Return(c)
  /\ UNCHANGED <<tmux, outcome, wrong, faults>>

-----------------------------------------------------------------------------
(* The plugin: a pane it sees gets a row, the row of a pane it no longer    *)
(* sees finishes.                                                          *)
PluginDiscovers ==
  /\ \E p \in Plugins, id \in Ids, n \in Names :
       /\ live[n] # None
       /\ sessions[id].status = "absent"
       /\ BindingFree(sessions, <<n, live[n]>>)
       /\ sessions' = Insert(sessions, id, NewRow(p, <<n, live[n]>>, n))
  /\ UNCHANGED <<tmux, job, outcome, wrong, faults>>

PluginFinishes ==
  /\ \E id \in NonFinished(sessions) :
       /\ sessions[id].owner # None /\ ~Live(sessions[id].pane)
       /\ sessions' = MarkFinished(sessions, id, "recent")
  /\ UNCHANGED <<tmux, job, outcome, wrong, faults>>

(* The user at tmux.                                                        *)
UserMakes ==
  /\ \E n \in Names : Stored[n] = n /\ CanMake(n) /\ Make(n)
  /\ UNCHANGED <<sessions, job, outcome, wrong, faults>>

UserEnds ==
  /\ \E n \in Names : live[n] # None /\ Remove({n})
  /\ UNCHANGED <<sessions, job, outcome, wrong, faults>>

(* The daemon dies with its threads; tmux and the table stay.               *)
Crash ==
  /\ Fault
  /\ \E c \in Callers : job[c] # Idle
  /\ job' = [c \in Callers |-> Idle]
  /\ UNCHANGED <<tmux, sessions, outcome, wrong>>

Init ==
  /\ live = [n \in Names |-> None] /\ next = 0
  /\ sessions = [id \in Ids |-> NoRow("absent")]
  /\ job = [c \in Callers |-> Idle]
  /\ outcome = [id \in Ids |-> None]
  /\ wrong = FALSE
  /\ faults = 0

Work(c) ==
  \/ CreateNew(c) \/ CreateList(c) \/ CreateBind(c) \/ CreateUndoTmux(c) \/ CreateUndoRow(c)
  \/ KillTake(c) \/ KillMark(c)

Next ==
  \/ \E c \in Callers : CreateInsert(c) \/ Work(c) \/ \E id \in Ids : KillGet(c, id)
  \/ PluginDiscovers \/ PluginFinishes \/ UserMakes \/ UserEnds \/ Crash

Spec == Init /\ [][Next]_vars

(* The threads run, and whoever wants a session killed asks again.          *)
RetrySpec ==
  /\ Spec
  /\ \A c \in Callers : WF_vars(Work(c))
  /\ \A id \in Ids : SF_vars(\E c \in Callers : KillGet(c, id))

-----------------------------------------------------------------------------
(* Properties. *)

Steps == {"idle", "new", "list", "bind", "kill", "delete", "take", "mark"}

Job == [ step : Steps, id : Ids \cup {None}, name : Names \cup {None},
         pane : Panes \cup {None}, made : Panes \cup {None} ]

(* Type correctness of tmux, the table and the threads.                     *)
TypeOK ==
  /\ live \in [Names -> Numbers \cup {None}] /\ next \in Nat
  /\ sessions \in [Ids -> Row]
  /\ job \in [Callers -> Job]
  /\ outcome \in [Ids -> {None, "ok", "err", "leak"}]
  /\ wrong \in BOOLEAN
  /\ faults \in 0..MaxFaults

(* A creation takes place or leaves no row: after an error the row is gone, *)
(* after success it is bound to a pane that no other row has, whatever the *)
(* plugin, other creations and failing commands did in between.            *)
CreateAtomic ==
  \A id \in Ids :
    /\ outcome[id] \in {"err", "leak"} => ~Exists(sessions, id)
    /\ outcome[id] = "ok" =>
         /\ Exists(sessions, id) /\ sessions[id].pane # None
         /\ \A o \in Ids \ {id} : Exists(sessions, o) => sessions[o].pane # sessions[id].pane

(* As long as the tmux session it is for is there, or when there is none, a *)
(* kill or a rollback takes no other: of two creations under one name the  *)
(* one that is refused leaves the other's session alone.                   *)
KillsOwn == ~wrong

(* tmux knows a session by the name it stored.                              *)
NamesStored == \A n \in Names : live[n] # None => Stored[n] = n

(* What a thread goes by: a kill the pane of its row, a creation that found *)
(* its session under the name it asked for the session tmux made for it.   *)
JobAgrees(j) ==
  /\ j.step # "idle" => j.id \in Ids
  /\ j.step \notin {"idle", "mark"} => j.name \in Names
  /\ j.step \in {"take", "bind"} => j.pane # None
  /\ j.step = "take" => j.name = j.pane[1]
  /\ j.step \in {"list", "bind", "kill"} => j.made # None /\ j.made[1] = Stored[j.name]
  /\ j.step \in {"bind", "kill"} => Stored[j.name] = j.name

JobsAgree == \A c \in Callers : JobAgrees(job[c])

(* A creation under way has its row, whose outcome is open, to itself.      *)
Creating(c) == job[c].step \in {"new", "list", "bind", "kill", "delete"}

CreatorsHoldRows ==
  \A c \in Callers : Creating(c) =>
    /\ Exists(sessions, job[c].id) /\ outcome[job[c].id] = None
    /\ \A d \in Callers : Creating(d) /\ job[d].id = job[c].id => d = c

(* The unique index: no two rows, finished or not, have one pane.           *)
OneRowAPane ==
  \A i, j \in Ids :
    Exists(sessions, i) /\ Exists(sessions, j) /\ sessions[i].pane = sessions[j].pane =>
      i = j \/ sessions[i].pane = None

(* A row whose creation failed never comes back; one whose creation         *)
(* succeeded stays bound.                                                  *)
Settled ==
  \A id \in Ids :
    /\ outcome[id] \in {"err", "leak"} => sessions[id].status = "gone"
    /\ outcome[id] = "ok" => Exists(sessions, id) /\ sessions[id].pane # None

(* The inductive invariant behind CreateAtomic and KillsOwn.                *)
IInv ==
  /\ TypeOK /\ NamesStored /\ JobsAgree
  /\ CreatorsHoldRows /\ OneRowAPane /\ Settled
  /\ KillsOwn

(* A kill that was cut short can be asked for again and in the end the      *)
(* session is finished, also when tmux has long lost it (kill_session      *)
(* takes "can't find session" for success).                                *)
KillRetries ==
  \A id \in Ids : (outcome[id] = "ok") ~> (sessions[id].status = "finished")

(* session_create.rs:29-31: "On any failure after step 2, the row is        *)
(* deleted and the tmux session is killed (rollback)."                     *)
RollbackComplete ==
  \A id \in Ids : outcome[id] # "leak"
=============================================================================
