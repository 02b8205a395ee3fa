------------------------------ MODULE DaemonCli ------------------------------
(***************************************************************************)
(* The command line (main.rs) as the daemon's clients: `daemon stop` and   *)
(* `daemon restart`, the commands that make one call (list, new, jump,     *)
(* rename, kill) and the dashboard, which holds its connection.  A call    *)
(* opens a connection of its own (control_client.rs), waits for one line   *)
(* without a timeout, and closes it.                                       *)
(*                                                                         *)
(* Every step is a step of DaemonLifecycle or leaves it alone; what the    *)
(* calls do in the daemon is SessionService's, what they print is left out.*)
(***************************************************************************)
EXTENDS DaemonLifecycle

CONSTANT Polls   \* how often `daemon stop` looks for the socket: a hundred

ASSUME PollBound == Polls \in Nat \ {0}

VARIABLE cli   \* the command each client runs

cliVars == <<vars, cli>>

-----------------------------------------------------------------------------
Calls == {"call", "stop", "restart"}

(* Where a command is, the process it asked to stop, the looks it has left; *)
(* `stopped`: the last one was a stop that reported success.               *)
NoCommand == [op |-> None, step |-> "idle", at |-> None, left |-> 0, stopped |-> FALSE]

Asking(o) == [NoCommand EXCEPT !.op = o, !.step = "await"]

Looking(o, p, n) == [op |-> o, step |-> "poll", at |-> p, left |-> n, stopped |-> FALSE]

End(c, ok) ==
  cli' = [cli EXCEPT ![c] = [NoCommand EXCEPT !.stopped = (ok /\ cli[c].op = "stop")]]

(* ensure_daemon_running tests whether ControlClient::connect succeeds,     *)
(* which only stores the path: no daemon is ever started from here, and    *)
(* `daemon stop`, which calls connect itself, is no different.  A command  *)
(* with nobody to talk to fails at once and changes nothing; while a       *)
(* stopping daemon drops its listener a connection may be taken or reset.  *)
EnsureDaemonRunning == sock \in Procs

(* ControlClient::call connects by path.                                    *)
Invoke(c) ==
  /\ cli[c].step = "idle"
  /\ EnsureDaemonRunning
  /\ Connect(c)
  /\ \E op \in Calls \cup {"tui"} :
       cli' = [cli EXCEPT ![c] = Asking(op)]

(* The handler's thread answers.                                            *)
Answer(c) ==
  /\ cli[c].step = "await"
  /\ \E p \in Procs :
       /\ c \in handling[p]
       /\ \/ cli[c].op = "call" /\ End(c, TRUE) /\ UNCHANGED vars
          \/ /\ cli[c].op \in {"stop", "restart"}
             /\ AskShutdown(c)
             /\ cli' = [cli EXCEPT ![c] = Looking(cli[c].op, p, Polls)]

(* Bug: the end of the stream is not told from an empty line. *)
BugIgnoreEof(c) ==
  /\ cli[c].step = "await" /\ cli[c].op = "tui"
  /\ \A p \in Procs : c \notin handling[p]
  /\ End(c, FALSE)
  /\ UNCHANGED vars

(* The daemon closes the connection without an answer: into_std leaves it   *)
(* non-blocking, and a request not there at the first read is no request.  *)
CloseQuietly(c) ==
  /\ cli[c].step = "await"
  /\ Disconnect(c)
  /\ UNCHANGED cli

(* The process died or closed: read_line returns nothing, "connection       *)
(* closed".                                                                *)
CutOff(c) ==
  /\ cli[c].step = "await"
  /\ \A p \in Procs : c \notin handling[p]
  /\ End(c, FALSE)
  /\ UNCHANGED vars

(* The dashboard is left.                                                   *)
Leave(c) ==
  /\ cli[c].step = "await" /\ cli[c].op = "tui"
  /\ \E p \in Procs : c \in handling[p]
  /\ End(c, TRUE)
  /\ UNCHANGED vars

(* The connection's thread ends, having answered or, for the dashboard,     *)
(* when it reads the end of the stream.                                    *)
HangUp(c) ==
  /\ cli[c].step # "await"
  /\ Disconnect(c)
  /\ UNCHANGED cli

LookAgain(c) ==
  /\ cli[c].left > 1
  /\ cli' = [cli EXCEPT ![c] = Looking(cli[c].op, cli[c].at, cli[c].left - 1)]

(* Bug: after the last look the daemon is taken for stopped. *)
BugAssumeStopped(c) ==
  /\ cli[c].step = "poll"
  /\ \/ (sock = None \/ cli[c].left = 1) /\ End(c, TRUE)
     \/ sock # None /\ LookAgain(c)
  /\ UNCHANGED vars

(* restart goes on as a daemon in the foreground, in the same process: one  *)
(* of the model's, if one is left.                                         *)
Restart ==
  LET idle == {p \in Procs \ Detached : pc[p] = "off"}
  IN  IF idle = {} THEN UNCHANGED vars ELSE \E p \in idle : Start(p)

(* stop_daemon looks for the socket every 50 ms, up to 5 s.                 *)
Poll(c) ==
  /\ cli[c].step = "poll"
  /\ \/ sock = None /\ cli[c].op = "stop" /\ End(c, TRUE) /\ UNCHANGED vars
     \/ sock = None /\ cli[c].op = "restart" /\ End(c, TRUE) /\ Restart
     \/ sock # None /\ LookAgain(c) /\ UNCHANGED vars
     \/ sock # None /\ cli[c].left = 1 /\ End(c, FALSE) /\ UNCHANGED vars

CliInit == Init /\ cli = [c \in Clients |-> NoCommand]

Command(c) ==
  Answer(c) \/ CutOff(c) \/ HangUp(c) \/ Poll(c)

CliNext ==
  \/ \E p \in Procs : (Start(p) \/ Run(p) \/ Signal(p) \/ Crash(p)) /\ UNCHANGED cli
  \/ \E c \in Clients : Invoke(c) \/ Command(c) \/ Leave(c) \/ CloseQuietly(c)

CliSpec == CliInit /\ [][CliNext]_cliVars

(* Processes and commands run, and the handlers' threads answer.            *)
CliFairSpec ==
  /\ CliSpec
  /\ \A p \in Procs : WF_cliVars(Run(p) /\ UNCHANGED cli)
  /\ \A c \in Clients : WF_cliVars(Command(c))

(* Moreover somebody keeps starting daemons and none stays broken at boot.  *)
CliRetrySpec ==
  /\ CliFairSpec
  /\ \A p \in Procs : /\ WF_cliVars(Start(p) /\ UNCHANGED cli)
                      /\ SF_cliVars(Collect(p) /\ pc'[p] = "bind" /\ UNCHANGED cli)

-----------------------------------------------------------------------------
(* Properties. *)

(* Every command but the dashboard comes to an end, whatever becomes of the *)
(* daemon it is connected to, although no call has a timeout.              *)
CommandsEnd ==
  \A c \in Clients : (cli[c].op \in Calls) ~> (cli[c].step = "idle")

(* `daemon stop` reports success only once the daemon it asked no longer    *)
(* has the control address (main.rs waits for the socket, which another    *)
(* daemon may have taken by then).                                         *)
StopHonest ==
  [][\A c \in Clients :
       cli[c].op = "stop" /\ cli[c].step = "poll" /\ cli'[c].stopped =>
         pc[cli[c].at] \notin Bound]_cliVars

(* methods.rs:45: "Gracefully shut down the daemon."                        *)
StopStops ==
  \A p \in Procs : asked[p] ~> (pc[p] \notin Bound)
=============================================================================
