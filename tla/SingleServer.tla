---------------------------- MODULE SingleServer ----------------------------
(***************************************************************************)
(* What the daemon promises its clients: at any time the control address   *)
(* is answered by at most one process, and it passes from one process to   *)
(* the next only through being unanswered.  ("no double-daemon",           *)
(* docs/superpowers/specs/2026-06-18-agentd-design.md:215.)                *)
(***************************************************************************)
CONSTANTS
  Procs,  \* daemon processes
  None    \* nobody

VARIABLE server   \* the process that answers, or None

Init == server = None

TakeOver(p) == server = None /\ server' = p

Leave(p) == server = p /\ server' = None

Next == \E p \in Procs : TakeOver(p) \/ Leave(p)

Spec == Init /\ [][Next]_server
=============================================================================
