--------------------------- MODULE MCTmuxSessions ---------------------------
(* TmuxSessions on a small instance; the other constants come from the .cfg. *)
EXTENDS TmuxSessions

(* "a" is the beginning of "a_b", which is what tmux makes of "a.b". *)
Titles == {"a", "a.b", "a_b"}
Undotted == [n \in Titles |-> IF n = "a.b" THEN "a_b" ELSE n]
Starts == [n \in Titles |-> IF n = "a" THEN Titles \ {"a"} ELSE {}]
Pairs == Titles \X (0..MaxPane)
=============================================================================
