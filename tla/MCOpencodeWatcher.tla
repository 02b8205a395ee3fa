-------------------------- MODULE MCOpencodeWatcher --------------------------
(* OpencodeWatcher on small instances; the constants come from the .cfg. *)
EXTENDS OpencodeWatcher, TLC

Beats(poll, check) == [a \in Arms |-> CASE a = "poll" -> poll [] a = "check" -> check [] OTHER -> 3]

(* A poll period shorter than the re-scan period, and the ratio of the      *)
(* defaults of cli.rs: 2000 ms and 1000 ms.                                *)
PollFaster == Beats(1, 2)
DefaultPeriods == Beats(2, 1)

EveryTick == [a \in Arms |-> 1]

PaneSymmetry == Permutations(Panes) \cup Permutations(Ids)
=============================================================================
