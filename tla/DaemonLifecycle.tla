-------------------------- MODULE DaemonLifecycle --------------------------
(***************************************************************************)
(* Daemon processes competing for one runtime directory: the lock file,    *)
(* the control socket and the pid file (daemon.rs, main.rs,                *)
(* ipc/control.rs), with signals, the daemon.shutdown RPC, crashes and     *)
(* client connections that outlive the shutdown.                           *)
(*                                                                         *)
(* A path and the file it names are different things: flock locks an       *)
(* inode, and `remove_file` takes a name away from an inode that others    *)
(* may have open.  An open of a missing path creates a fresh inode.        *)
(***************************************************************************)
EXTENDS Naturals

CONSTANTS
  Procs,      \* daemon processes
  Detached,   \* those started with --detach
  Clients,    \* control connections
  Inodes,     \* lock file inodes
  MaxFaults,  \* bound on the crashes and failed chmods of one behavior
  ChmodFails, \* whether the chmod of a freshly bound socket may fail
  None,
  Stale       \* a socket file whose listener is dead

ASSUME SpecialValues == None \notin Procs \cup Inodes /\ Stale \notin Procs /\ Stale # None

ASSUME DetachedProcs == Detached \subseteq Procs

ASSUME FaultBound == MaxFaults \in Nat

VARIABLES
  pc,        \* control state of each process
  fd,        \* the lock file inode each process has open
  holder,    \* the process that holds the flock on each inode
  lockPath,  \* the inode that daemon.lock names
  sock,      \* the process whose listener control.sock names
  pidFile,   \* the process daemon.pid names
  signalled, \* Daemon::shutdown, the flag that SIGINT and SIGTERM set
  asked,     \* mutate.rs SHUTDOWN, the flag that daemon.shutdown sets
  handling,  \* connections whose handler thread runs in each process
  faults     \* crashes and failed chmods so far

vars == <<pc, fd, holder, lockPath, sock, pidFile, signalled, asked, handling, faults>>

files == <<fd, holder, lockPath>>

flags == <<signalled, asked>>

-----------------------------------------------------------------------------
Pcs == {"off", "open", "flock", "collect", "bind", "serve", "rm_socket", "rm_lock",
        "rm_pid", "unlock", "unlink", "drain"}

(* Between a successful flock and its release by FlockGuard::drop.         *)
Locked == {"collect", "bind", "serve", "rm_socket", "rm_lock", "rm_pid", "unlock"}

(* Between binding the control socket and removing it.                     *)
Bound == {"serve", "rm_socket"}

Goto(p, l) == pc' = [pc EXCEPT ![p] = l]

(* `agentd daemon start`.  With --detach the grandchild writes its pid      *)
(* before it execs, hence before it knows whether it gets the lock.        *)
Start(p) ==
  /\ pc[p] = "off"
  /\ Goto(p, "open")
  /\ pidFile' = IF p \in Detached THEN p ELSE pidFile
  /\ UNCHANGED <<files, sock, flags, handling, faults>>

(* acquire_flock opens the file, creating it if the name is not there.     *)
OpenLock(p) ==
  /\ pc[p] = "open"
  /\ Goto(p, "flock")
  /\ \E i \in Inodes :
       /\ IF lockPath = None THEN \A q \in Procs : fd[q] # i ELSE i = lockPath
       /\ fd' = [fd EXCEPT ![p] = i]
       /\ lockPath' = i
  /\ UNCHANGED <<holder, sock, pidFile, flags, handling, faults>>

(* Bug: the result of flock is not looked at. *)
BugBreakLock(p) ==
  /\ pc[p] = "flock"
  /\ holder' = [holder EXCEPT ![fd[p]] = p]
  /\ Goto(p, "collect")
  /\ UNCHANGED <<fd, lockPath, sock, pidFile, flags, handling, faults>>

(* LockExclusiveNonblock: the process gets the lock or exits with LockHeld,*)
(* leaving the files alone.                                                *)
FlockOk(p) ==
  /\ pc[p] = "flock"
  /\ holder[fd[p]] = None
  /\ holder' = [holder EXCEPT ![fd[p]] = p]
  /\ Goto(p, "collect")
  /\ UNCHANGED <<fd, lockPath, sock, pidFile, flags, handling, faults>>

Off(p) ==
  /\ Goto(p, "off")
  /\ fd' = [fd EXCEPT ![p] = None]
  /\ signalled' = [signalled EXCEPT ![p] = FALSE]
  /\ asked' = [asked EXCEPT ![p] = FALSE]

FlockHeld(p) ==
  /\ pc[p] = "flock"
  /\ holder[fd[p]] # None
  /\ Off(p)
  /\ UNCHANGED <<holder, lockPath, sock, pidFile, handling, faults>>

(* tombstone_gc and restart_respawn; an error of either ends run, which     *)
(* drops the guard and nothing else.                                       *)
Collect(p) ==
  /\ pc[p] = "collect"
  /\ Goto(p, "bind") \/ Goto(p, "unlock")
  /\ UNCHANGED <<files, sock, pidFile, flags, handling, faults>>

(* Bug: unlink whatever is at the path before binding. *)
BugBindOver(p) ==
  /\ pc[p] = "bind"
  /\ sock' = p
  /\ Goto(p, "serve")
  /\ UNCHANGED <<files, pidFile, flags, handling, faults>>

(* ControlServer::bind fails with AddrInUse whenever the path exists,       *)
(* whether or not anybody listens there.  When the chmod that follows      *)
(* fails the listener is dropped and its file stays.                       *)
Bind(p) ==
  /\ pc[p] = "bind"
  /\ \/ sock = None /\ sock' = p /\ Goto(p, "serve") /\ UNCHANGED faults
     \/ sock # None /\ Goto(p, "unlock") /\ UNCHANGED <<sock, faults>>
     \/ /\ ChmodFails /\ sock = None /\ faults < MaxFaults
        /\ sock' = Stale /\ faults' = faults + 1
        /\ Goto(p, "unlock")
  /\ UNCHANGED <<files, pidFile, flags, handling>>

(* A client connects by path; every connection gets a blocking thread of    *)
(* its own, which ends when the request is answered or, for a subscriber,  *)
(* when the client goes away.                                              *)
Connect(c) ==
  /\ sock \in Procs
  /\ \A p \in Procs : c \notin handling[p]
  /\ handling' = [handling EXCEPT ![sock] = @ \cup {c}]
  /\ UNCHANGED <<pc, files, sock, pidFile, flags, faults>>

Disconnect(c) ==
  /\ \E p \in Procs :
       /\ c \in handling[p]
       /\ handling' = [handling EXCEPT ![p] = @ \ {c}]
  /\ UNCHANGED <<pc, files, sock, pidFile, flags, faults>>

(* daemon.shutdown stores true in a static that nobody reads. *)
AskShutdown(c) ==
  /\ \E p \in Procs : c \in handling[p] /\ asked' = [asked EXCEPT ![p] = TRUE]
  /\ UNCHANGED <<pc, files, sock, pidFile, signalled, handling, faults>>

(* SIGINT or SIGTERM; the handler is installed before run.                 *)
Signal(p) ==
  /\ pc[p] # "off" /\ ~signalled[p]
  /\ signalled' = [signalled EXCEPT ![p] = TRUE]
  /\ UNCHANGED <<pc, files, sock, pidFile, asked, handling, faults>>

(* Bug: the socket is left behind. *)
BugKeepSocket(p) ==
  /\ pc[p] = "rm_socket"
  /\ Goto(p, "rm_lock")
  /\ UNCHANGED <<files, sock, pidFile, flags, handling, faults>>

(* Bug: the idle loop does not look at the flag. *)
BugDeafToSignals(p) ==
  /\ pc[p] = "serve"
  /\ asked[p]
  /\ Goto(p, "rm_socket")
  /\ UNCHANGED <<files, sock, pidFile, flags, handling, faults>>

(* The idle loop sees the flag within 200ms and leaves.                    *)
LeaveLoop(p) ==
  /\ pc[p] = "serve"
  /\ signalled[p]
  /\ Goto(p, "rm_socket")
  /\ UNCHANGED <<files, sock, pidFile, flags, handling, faults>>

RemoveSocket(p) ==
  /\ pc[p] = "rm_socket"
  /\ sock' = None
  /\ Goto(p, "rm_lock")
  /\ UNCHANGED <<files, pidFile, flags, handling, faults>>

RemoveLock(p) ==
  /\ pc[p] = "rm_lock"
  /\ lockPath' = None
  /\ Goto(p, "rm_pid")
  /\ UNCHANGED <<fd, holder, sock, pidFile, flags, handling, faults>>

RemovePid(p) ==
  /\ pc[p] = "rm_pid"
  /\ pidFile' = None
  /\ Goto(p, "unlock")
  /\ UNCHANGED <<files, sock, flags, handling, faults>>

(* FlockGuard::drop: unlock, then remove the name, whatever inode it names  *)
(* by now.                                                                 *)
Unlock(p) ==
  /\ pc[p] = "unlock"
  /\ holder' = [holder EXCEPT ![fd[p]] = None]
  /\ Goto(p, "unlink")
  /\ UNCHANGED <<fd, lockPath, sock, pidFile, flags, handling, faults>>

Unlink(p) ==
  /\ pc[p] = "unlink"
  /\ lockPath' = None
  /\ fd' = [fd EXCEPT ![p] = None]
  /\ Goto(p, "drain")
  /\ UNCHANGED <<holder, sock, pidFile, flags, handling, faults>>

(* Dropping the runtime waits for the blocking threads.                    *)
Exit(p) ==
  /\ pc[p] = "drain"
  /\ handling[p] = {}
  /\ Off(p)
  /\ UNCHANGED <<holder, lockPath, sock, pidFile, handling, faults>>

(* The kernel releases the flock and closes the connections; the names     *)
(* stay.                                                                   *)
Crash(p) ==
  /\ pc[p] # "off"
  /\ faults < MaxFaults
  /\ faults' = faults + 1
  /\ Off(p)
  /\ holder' = [i \in Inodes |-> IF holder[i] = p THEN None ELSE holder[i]]
  /\ sock' = IF sock = p THEN Stale ELSE sock
  /\ handling' = [handling EXCEPT ![p] = {}]
  /\ UNCHANGED <<lockPath, pidFile>>

Init ==
  /\ pc = [p \in Procs |-> "off"]
  /\ fd = [p \in Procs |-> None]
  /\ holder = [i \in Inodes |-> None]
  /\ lockPath = None
  /\ sock = None
  /\ pidFile = None
  /\ signalled = [p \in Procs |-> FALSE]
  /\ asked = [p \in Procs |-> FALSE]
  /\ handling = [p \in Procs |-> {}]
  /\ faults = 0

(* What a process does on its own once it was started.                     *)
Run(p) ==
  \/ OpenLock(p) \/ FlockOk(p) \/ FlockHeld(p) \/ Collect(p) \/ Bind(p)
  \/ LeaveLoop(p) \/ RemoveSocket(p) \/ RemoveLock(p) \/ RemovePid(p)
  \/ Unlock(p) \/ Unlink(p) \/ Exit(p)

Next ==
  \/ \E p \in Procs : Start(p) \/ Run(p) \/ Signal(p) \/ Crash(p)
  \/ \E c \in Clients : Connect(c) \/ Disconnect(c) \/ AskShutdown(c)

Spec == Init /\ [][Next]_vars

(* The scheduler runs every process; users, signals and crashes are free.  *)
FairSpec == Spec /\ \A p \in Procs : WF_vars(Run(p))

(* Moreover somebody keeps starting daemons and none stays broken at boot. *)
RetrySpec ==
  FairSpec /\ \A p \in Procs : WF_vars(Start(p)) /\ SF_vars(Collect(p) /\ pc'[p] = "bind")

-----------------------------------------------------------------------------
(* Properties. *)

(* Type correctness of the processes' state and of the files.              *)
TypeOK ==
  /\ pc \in [Procs -> Pcs]
  /\ fd \in [Procs -> Inodes \cup {None}]
  /\ holder \in [Inodes -> Procs \cup {None}]
  /\ lockPath \in Inodes \cup {None}
  /\ sock \in Procs \cup {None, Stale}
  /\ pidFile \in Procs \cup {None}
  /\ signalled \in [Procs -> BOOLEAN]
  /\ asked \in [Procs -> BOOLEAN]
  /\ handling \in [Procs -> SUBSET Clients]
  /\ faults \in 0..MaxFaults

(* A process past flock and before its release holds the lock of the inode *)
(* it opened, and nobody else holds a lock: flock itself never fails, it   *)
(* is the name that is lost.                                               *)
HoldersHold ==
  /\ \A p \in Procs : pc[p] \in Locked => fd[p] \in Inodes /\ holder[fd[p]] = p
  /\ \A i \in Inodes : holder[i] # None => pc[holder[i]] \in Locked /\ fd[holder[i]] = i

(* A daemon in its idle loop is reachable, and control.sock never names a   *)
(* live process that left it: no shutdown, failed start or crash of        *)
(* another process takes the socket of a serving daemon away, even when    *)
(* several of them believe to hold the lock (Daemon::run removes the path, *)
(* not its own socket).                                                    *)
SocketNamesServer == \A p \in Procs : pc[p] \in Bound <=> sock = p

(* Who answers at the control address.                                      *)
Answering == IF sock \in Procs THEN sock ELSE None

SS == INSTANCE SingleServer WITH server <- Answering

(* At most one process is ever addressed, whatever happens to the lock.     *)
OneServer == SS!Spec

(* A signalled daemon gives up socket, lock and pid file, whatever its      *)
(* clients do; only its exit may wait for them (Daemon::run).              *)
SignalReleases ==
  \A p \in Procs : signalled[p] ~> (pc[p] \in {"drain", "off"} \/ ~signalled[p])

(* After any shutdown, failed start or failed boot the system comes back,   *)
(* as long as somebody keeps starting it: only the socket file of a        *)
(* crashed process, or of one whose chmod failed, can be in the way        *)
(* (Daemon::run removes its own).                                          *)
ComesBack ==
  (\A p \in Procs : pc[p] = "off") ~> ((\E p \in Procs : pc[p] = "serve") \/ sock = Stale)

(* From nothing running to a daemon that serves, as long as somebody keeps *)
(* starting it: "restart re-validates",                                    *)
(* docs/superpowers/specs/2026-06-18-agentd-design.md:687.  It holds after *)
(* shutdowns; it fails after a crash, whose socket nobody removes.         *)
Recovers == (\A p \in Procs : pc[p] = "off") ~> (\E p \in Procs : pc[p] = "serve")

(* daemon.rs:71-74: the guard on success, "or `LockHeld` if another process *)
(* already holds the lock".                                                *)
LockExclusive ==
  \A p, q \in Procs : pc[p] \in Locked /\ pc[q] \in Locked => p = q

=============================================================================
