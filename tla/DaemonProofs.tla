---------------------------- MODULE DaemonProofs ----------------------------
(***************************************************************************)
(* Proofs about DaemonLifecycle, for any number of processes, connections, *)
(* inodes and crashes, and about DaemonCli: the command line implements    *)
(* the free clients of DaemonLifecycle, so that what is proved of the      *)
(* daemon holds under every command.                                       *)
(***************************************************************************)
EXTENDS DaemonCli, TLAPS

(* A process that is about to lock has the file open.                      *)
FileOpen == \A p \in Procs : pc[p] = "flock" => fd[p] \in Inodes

IInv == TypeOK /\ FileOpen /\ HoldersHold /\ SocketNamesServer

LEMMA InitIInv == Init => IInv
  BY SpecialValues, FaultBound DEF Init, IInv, TypeOK, FileOpen, HoldersHold,
     SocketNamesServer, Pcs, Locked, Bound

LEMMA TypeStep ==
  ASSUME TypeOK, FileOpen, HoldersHold, [Next]_vars
  PROVE  TypeOK'
  <1> USE DEF TypeOK, Goto, files, flags
  <1>1. ASSUME NEW p \in Procs, Start(p) PROVE TypeOK'
    BY <1>1 DEF Start, Pcs
  <1>2. ASSUME NEW p \in Procs, OpenLock(p) PROVE TypeOK'
    BY <1>2 DEF OpenLock, Pcs
  <1>3. ASSUME NEW p \in Procs, FlockOk(p) PROVE TypeOK'
    BY <1>3 DEF FlockOk, Pcs
  <1>4. ASSUME NEW p \in Procs, FlockHeld(p) PROVE TypeOK'
    BY <1>4 DEF FlockHeld, Off, Pcs
  <1>5. ASSUME NEW p \in Procs, Collect(p) PROVE TypeOK'
    BY <1>5 DEF Collect, Pcs
  <1>6. ASSUME NEW p \in Procs, Bind(p) PROVE TypeOK'
    <2>1. faults' \in 0..MaxFaults
      BY <1>6, FaultBound DEF Bind
    <2> QED
      BY <1>6, <2>1 DEF Bind, Pcs
  <1>7. ASSUME NEW p \in Procs, LeaveLoop(p) \/ RemoveSocket(p) \/ RemoveLock(p) \/ RemovePid(p)
        PROVE  TypeOK'
    BY <1>7 DEF LeaveLoop, RemoveSocket, RemoveLock, RemovePid, Pcs
  <1>8. ASSUME NEW p \in Procs, Unlock(p) \/ Unlink(p) PROVE TypeOK'
    BY <1>8 DEF Unlock, Unlink, Pcs
  <1>9. ASSUME NEW p \in Procs, Exit(p) PROVE TypeOK'
    BY <1>9 DEF Exit, Off, Pcs
  <1>10. ASSUME NEW p \in Procs, Signal(p) PROVE TypeOK'
    BY <1>10 DEF Signal
  <1>11. ASSUME NEW p \in Procs, Crash(p) PROVE TypeOK'
    <2>1. faults' \in 0..MaxFaults
      BY <1>11, FaultBound DEF Crash
    <2> QED
      BY <1>11, <2>1 DEF Crash, Off, Pcs
  <1>12. ASSUME NEW c \in Clients, Connect(c) \/ Disconnect(c) \/ AskShutdown(c) PROVE TypeOK'
    <2>1. handling' \in [Procs -> SUBSET Clients]
      <3>1. CASE Connect(c)
        <4>1. handling[sock] \cup {c} \in SUBSET Clients
          BY <3>1 DEF Connect
        <4> QED
          BY <3>1, <4>1 DEF Connect
      <3>2. CASE Disconnect(c)
        BY <3>2 DEF Disconnect
      <3>3. CASE AskShutdown(c)
        BY <3>3 DEF AskShutdown
      <3> QED
        BY <1>12, <3>1, <3>2, <3>3
    <2> QED
      BY <1>12, <2>1 DEF Connect, Disconnect, AskShutdown
  <1>13. CASE UNCHANGED vars
    BY <1>13 DEF vars
  <1> QED
    BY <1>1, <1>2, <1>3, <1>4, <1>5, <1>6, <1>7, <1>8, <1>9, <1>10, <1>11, <1>12, <1>13
       DEF Next, Run

(* The lock file's bookkeeping.                                            *)
LEMMA HoldersStep ==
  ASSUME TypeOK, FileOpen, HoldersHold, [Next]_vars
  PROVE  FileOpen' /\ HoldersHold'
  <1> USE SpecialValues DEF TypeOK, FileOpen, HoldersHold, Locked, Goto, files, flags
  <1>1. ASSUME NEW p \in Procs, Start(p) PROVE FileOpen' /\ HoldersHold'
    BY <1>1 DEF Start
  <1>2. ASSUME NEW p \in Procs, OpenLock(p) PROVE FileOpen' /\ HoldersHold'
    BY <1>2 DEF OpenLock
  <1>3. ASSUME NEW p \in Procs, FlockOk(p) PROVE FileOpen' /\ HoldersHold'
    BY <1>3 DEF FlockOk
  <1>4. ASSUME NEW p \in Procs, FlockHeld(p) PROVE FileOpen' /\ HoldersHold'
    BY <1>4 DEF FlockHeld, Off
  <1>5. ASSUME NEW p \in Procs, Collect(p) \/ Bind(p) PROVE FileOpen' /\ HoldersHold'
    BY <1>5 DEF Collect, Bind
  <1>6. ASSUME NEW p \in Procs, LeaveLoop(p) \/ RemoveSocket(p) \/ RemoveLock(p) \/ RemovePid(p)
        PROVE  FileOpen' /\ HoldersHold'
    BY <1>6 DEF LeaveLoop, RemoveSocket, RemoveLock, RemovePid
  <1>7. ASSUME NEW p \in Procs, Unlock(p) PROVE FileOpen' /\ HoldersHold'
    BY <1>7 DEF Unlock
  <1>8. ASSUME NEW p \in Procs, Unlink(p) \/ Exit(p) PROVE FileOpen' /\ HoldersHold'
    BY <1>8 DEF Unlink, Exit, Off
  <1>9. ASSUME NEW p \in Procs, Crash(p) PROVE FileOpen' /\ HoldersHold'
    BY <1>9 DEF Crash, Off
  <1>10. CASE \/ \E p \in Procs : Signal(p)
              \/ \E c \in Clients : Connect(c) \/ Disconnect(c) \/ AskShutdown(c)
              \/ UNCHANGED vars
    BY <1>10 DEF Signal, Connect, Disconnect, AskShutdown, vars
  <1> QED
    BY <1>1, <1>2, <1>3, <1>4, <1>5, <1>6, <1>7, <1>8, <1>9, <1>10 DEF Next, Run

(* The socket's bookkeeping, which owes nothing to the lock.                *)
LEMMA SocketStep ==
  ASSUME TypeOK, SocketNamesServer, [Next]_vars
  PROVE  SocketNamesServer'
  <1> USE SpecialValues DEF TypeOK, SocketNamesServer, Bound, Goto, files, flags
  <1>1. ASSUME NEW p \in Procs,
               Start(p) \/ OpenLock(p) \/ FlockOk(p) \/ FlockHeld(p) \/ Collect(p)
        PROVE  SocketNamesServer'
    BY <1>1 DEF Start, OpenLock, FlockOk, FlockHeld, Collect, Off
  <1>2. ASSUME NEW p \in Procs, Bind(p) PROVE SocketNamesServer'
    BY <1>2 DEF Bind
  <1>3. ASSUME NEW p \in Procs, LeaveLoop(p) \/ RemoveSocket(p) PROVE SocketNamesServer'
    BY <1>3 DEF LeaveLoop, RemoveSocket
  <1>4. ASSUME NEW p \in Procs,
               RemoveLock(p) \/ RemovePid(p) \/ Unlock(p) \/ Unlink(p) \/ Exit(p)
        PROVE  SocketNamesServer'
    BY <1>4 DEF RemoveLock, RemovePid, Unlock, Unlink, Exit, Off
  <1>5. ASSUME NEW p \in Procs, Crash(p) PROVE SocketNamesServer'
    BY <1>5 DEF Crash, Off
  <1>6. CASE \/ \E p \in Procs : Signal(p)
             \/ \E c \in Clients : Connect(c) \/ Disconnect(c) \/ AskShutdown(c)
             \/ UNCHANGED vars
    BY <1>6 DEF Signal, Connect, Disconnect, AskShutdown, vars
  <1> QED
    BY <1>1, <1>2, <1>3, <1>4, <1>5, <1>6 DEF Next, Run

LEMMA IInvStep == IInv /\ [Next]_vars => IInv'
  BY TypeStep, HoldersStep, SocketStep DEF IInv

LEMMA IInvHolds == Spec => []IInv
  BY InitIInv, IInvStep, PTL DEF Spec

(* The state of processes and files is well typed (daemon.rs, main.rs).    *)
THEOREM TypeCorrect == Spec => []TypeOK
  <1>1. IInv => TypeOK
    BY DEF IInv
  <1> QED
    BY <1>1, IInvHolds, PTL

(* flock on an inode is exclusive, through unlinks and re-creations of the  *)
(* lock file (acquire_flock, FlockGuard::drop).                            *)
THEOREM FlockSound == Spec => []HoldersHold
  <1>1. IInv => HoldersHold
    BY DEF IInv
  <1> QED
    BY <1>1, IInvHolds, PTL

(* A serving daemon is always the one that control.sock names.             *)
THEOREM SocketSafe == Spec => []SocketNamesServer
  <1>1. IInv => SocketNamesServer
    BY DEF IInv
  <1> QED
    BY <1>1, IInvHolds, PTL

(* The daemon implements the single-server abstraction: one process at a    *)
(* time answers on the control socket, although the lock file does not     *)
(* guarantee it.                                                           *)
THEOREM Refinement == Spec => OneServer
  <1>1. Init => SS!Init
    BY SpecialValues DEF Init, SS!Init, Answering
  <1>2. IInv /\ [Next]_vars => [SS!Next]_Answering
    <2> SUFFICES ASSUME IInv, [Next]_vars PROVE [SS!Next]_Answering
      OBVIOUS
    <2> USE SpecialValues DEF IInv, TypeOK, SocketNamesServer, Bound, Answering, SS!Next,
        SS!TakeOver, SS!Leave
    <2>1. ASSUME NEW p \in Procs, Bind(p) PROVE [SS!Next]_Answering
      BY <2>1 DEF Bind
    <2>2. ASSUME NEW p \in Procs, RemoveSocket(p) PROVE [SS!Next]_Answering
      BY <2>2 DEF RemoveSocket
    <2>3. ASSUME NEW p \in Procs, Crash(p) PROVE [SS!Next]_Answering
      BY <2>3 DEF Crash
    <2>4. CASE UNCHANGED sock
      BY <2>4
    <2> QED
      BY <2>1, <2>2, <2>3, <2>4 DEF Next, Run, Start, OpenLock, FlockOk, FlockHeld, Collect,
         LeaveLoop, RemoveLock, RemovePid, Unlock, Unlink, Exit, Signal, Connect, Disconnect,
         AskShutdown, vars
  <1> QED
    BY <1>1, <1>2, IInvHolds, PTL DEF Spec, OneServer, SS!Spec

-----------------------------------------------------------------------------
(* The command line. *)

(* A step of a command is a client's step, a start or no step of the daemon. *)
LEMMA CommandStep ==
  ASSUME NEW c \in Clients, Invoke(c) \/ Command(c) \/ Leave(c) \/ CloseQuietly(c)
  PROVE  [Next]_vars
<1>1. CASE Invoke(c)
  BY <1>1 DEF Invoke, Next
<1>2. CASE Answer(c)
  BY <1>2 DEF Answer, Next
<1>3. CASE CutOff(c) \/ Leave(c)
  BY <1>3 DEF CutOff, Leave
<1>4. CASE HangUp(c) \/ CloseQuietly(c)
  BY <1>4 DEF HangUp, CloseQuietly, Next
<1>5. CASE Poll(c)
  BY <1>5 DEF Poll, Restart, Next
<1> QED
  BY <1>1, <1>2, <1>3, <1>4, <1>5 DEF Command

(* Every behaviour of daemon and commands is one of the daemon with clients *)
(* that connect, ask and leave as they like (main.rs, control_client.rs).  *)
THEOREM CliImplements == CliSpec => Spec
<1>1. CliInit => Init
  BY DEF CliInit
<1>2. [CliNext]_cliVars => [Next]_vars
  <2> SUFFICES ASSUME [CliNext]_cliVars PROVE [Next]_vars
    OBVIOUS
  <2>1. CASE UNCHANGED cliVars
    BY <2>1 DEF cliVars
  <2>2. ASSUME NEW p \in Procs, Start(p) \/ Run(p) \/ Signal(p) \/ Crash(p)
        PROVE  [Next]_vars
    BY <2>2 DEF Next
  <2> QED
    BY <2>1, <2>2, CommandStep DEF CliNext
<1> QED
  BY <1>1, <1>2, PTL DEF CliSpec, Spec

(* Under every command control.sock names a live process exactly while that *)
(* process serves or is about to remove it.                                *)
THEOREM CliSocketSafe == CliSpec => []SocketNamesServer
  BY CliImplements, SocketSafe, PTL

(* With the command line the daemon still implements the single server.     *)
THEOREM CliRefinement == CliSpec => OneServer
  BY CliImplements, Refinement, PTL

-----------------------------------------------------------------------------
(* What StopHonest rests on besides the daemon's own invariant: a command   *)
(* that looks for the socket remembers the daemon it asked, and only an    *)
(* idle one has reported a stop.                                           *)
Commands ==
  [op : Calls \cup {"tui", None}, step : {"idle", "await", "poll"},
   at : Procs \cup {None}, left : Nat, stopped : BOOLEAN]

CliInv ==
  /\ cli \in [Clients -> Commands]
  /\ \A c \in Clients : cli[c].step = "poll" => cli[c].at \in Procs /\ ~cli[c].stopped

LEMMA CliInvInit == CliInit => CliInv
  BY DEF CliInit, CliInv, Commands, NoCommand

(* The records a command can be in. *)
LEMMA CommandRecords ==
  /\ \A o \in Calls \cup {"tui", None} :
       Asking(o) \in Commands /\ Asking(o).step = "await"
  /\ \A o \in Calls \cup {"tui", None}, p \in Procs, n \in Nat :
       /\ Looking(o, p, n) \in Commands
       /\ Looking(o, p, n).at = p
       /\ Looking(o, p, n).stopped = FALSE
  /\ \A b \in BOOLEAN :
       /\ [NoCommand EXCEPT !.stopped = b] \in Commands
       /\ [NoCommand EXCEPT !.stopped = b].step = "idle"
  BY DEF Asking, Looking, Commands, NoCommand

(* A step that gives one command another such record keeps the invariant.   *)
LEMMA CliInvUpdate ==
  ASSUME CliInv, NEW c \in Clients, NEW r \in Commands,
         r.step = "poll" => r.at \in Procs /\ ~r.stopped,
         cli' = [cli EXCEPT ![c] = r]
  PROVE  CliInv'
  BY DEF CliInv

LEMMA CliInvStep == CliInv /\ [CliNext]_cliVars => CliInv'
<1> SUFFICES ASSUME CliInv, [CliNext]_cliVars PROVE CliInv'
  OBVIOUS
<1>1. CASE UNCHANGED cli
  BY <1>1 DEF CliInv
<1>2. ASSUME NEW c \in Clients, Invoke(c) PROVE CliInv'
  <2>1. PICK o \in Calls \cup {"tui"} : cli' = [cli EXCEPT ![c] = Asking(o)]
    BY <1>2 DEF Invoke
  <2> QED
    BY <2>1, CommandRecords, CliInvUpdate
<1>3. ASSUME NEW c \in Clients, NEW ok \in BOOLEAN, End(c, ok) PROVE CliInv'
  <2> DEFINE b == ok /\ cli[c].op = "stop"
  <2>1. b \in BOOLEAN
    OBVIOUS
  <2>2. cli' = [cli EXCEPT ![c] = [NoCommand EXCEPT !.stopped = b]]
    BY <1>3 DEF End
  <2> HIDE DEF b
  <2> QED
    BY <2>1, <2>2, CommandRecords, CliInvUpdate
<1>4. ASSUME NEW c \in Clients, Answer(c) PROVE CliInv'
  <2>1. PICK p \in Procs :
          End(c, TRUE) \/ cli' = [cli EXCEPT ![c] = Looking(cli[c].op, p, Polls)]
    BY <1>4 DEF Answer
  <2>2. cli[c].op \in Calls \cup {"tui", None} /\ Polls \in Nat
    BY PollBound DEF CliInv, Commands
  <2>3. CASE cli' = [cli EXCEPT ![c] = Looking(cli[c].op, p, Polls)]
    <3> DEFINE r == Looking(cli[c].op, p, Polls)
    <3>1. r \in Commands /\ r.at = p /\ r.stopped = FALSE
      BY <2>2, CommandRecords
    <3> HIDE DEF r
    <3> QED
      BY <2>3, <3>1, CliInvUpdate DEF r
  <2> QED
    BY <1>3, <2>1, <2>3
<1>5. ASSUME NEW c \in Clients, Poll(c) PROVE CliInv'
  <2>1. CASE LookAgain(c)
    <3>1. /\ cli[c].op \in Calls \cup {"tui", None}
          /\ cli[c].at \in Procs
          /\ cli[c].left - 1 \in Nat
      BY <1>5, <2>1 DEF Poll, LookAgain, CliInv, Commands
    <3> QED
      BY <2>1, <3>1, CommandRecords, CliInvUpdate DEF LookAgain
  <2> QED
    BY <1>3, <1>5, <2>1 DEF Poll
<1>6. ASSUME NEW c \in Clients, CutOff(c) \/ Leave(c) PROVE CliInv'
  BY <1>3, <1>6 DEF CutOff, Leave
<1> QED
  BY <1>1, <1>2, <1>4, <1>5, <1>6 DEF CliNext, Command, HangUp, CloseQuietly, cliVars

(* Only a look that finds no socket makes a stop report success.            *)
LEMMA StopSeesNoSocket ==
  ASSUME CliInv, CliNext, NEW c \in Clients,
         cli[c].op = "stop", cli[c].step = "poll", cli'[c].stopped
  PROVE  sock = None
<1> SUFFICES ASSUME sock # None PROVE FALSE
  OBVIOUS
<1>1. CASE UNCHANGED cli
  BY <1>1 DEF CliInv
<1>2. ASSUME NEW d \in Clients, d # c,
             Invoke(d) \/ Answer(d) \/ CutOff(d) \/ Leave(d) \/ Poll(d)
      PROVE  FALSE
  <2>1. PICK r : cli' = [cli EXCEPT ![d] = r]
    BY <1>2 DEF Invoke, Answer, CutOff, Leave, Poll, LookAgain, End
  <2> QED
    BY <1>2, <2>1 DEF CliInv
<1>3. CASE Poll(c)
  <2>1. CASE LookAgain(c)
    <3>1. /\ cli[c].op \in Calls \cup {"tui", None}
          /\ cli[c].at \in Procs
          /\ cli[c].left - 1 \in Nat
      BY <2>1 DEF LookAgain, CliInv, Commands
    <3>2. cli'[c] = Looking(cli[c].op, cli[c].at, cli[c].left - 1)
      BY <2>1 DEF LookAgain, CliInv
    <3> QED
      BY <3>1, <3>2, CommandRecords
  <2>2. CASE End(c, FALSE)
    <3>1. cli'[c].stopped = FALSE
      BY <2>2 DEF End, NoCommand, CliInv
    <3> QED
      BY <3>1
  <2> QED
    BY <1>3, <2>1, <2>2 DEF Poll
<1>4. CASE Invoke(c) \/ Answer(c) \/ CutOff(c) \/ Leave(c)
  BY <1>4 DEF Invoke, Answer, CutOff, Leave
<1> QED
  BY <1>1, <1>2, <1>3, <1>4 DEF CliNext, Command, HangUp, CloseQuietly

(* A stop that reports success has the daemon it asked off the control      *)
(* address (stop_daemon in main.rs): the socket it finds missing cannot be *)
(* missing while that daemon serves.                                       *)
THEOREM StopIsHonest == CliSpec => StopHonest
<1>1. CliInv /\ SocketNamesServer /\ [CliNext]_cliVars
        => [\A c \in Clients :
              cli[c].op = "stop" /\ cli[c].step = "poll" /\ cli'[c].stopped =>
                pc[cli[c].at] \notin Bound]_cliVars
  <2> SUFFICES ASSUME CliInv, SocketNamesServer, CliNext, NEW c \in Clients,
                      cli[c].op = "stop", cli[c].step = "poll", cli'[c].stopped
               PROVE  pc[cli[c].at] \notin Bound
    OBVIOUS
  <2>1. cli[c].at \in Procs
    BY DEF CliInv
  <2>2. sock = None
    BY StopSeesNoSocket
  <2> QED
    BY <2>1, <2>2, SpecialValues DEF SocketNamesServer
<1>2. CliSpec => []CliInv
  BY CliInvInit, CliInvStep, PTL DEF CliSpec
<1> QED
  BY <1>1, <1>2, CliSocketSafe, PTL DEF CliSpec, StopHonest
=============================================================================
