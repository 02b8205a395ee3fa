---------------------------- MODULE MCDashboard ----------------------------
(* Dashboard on a small instance; the constants come from the .cfg. *)
EXTENDS Dashboard

(* The empty query, and one that is part of a single path. *)
Typed == {"", "c"}

Substring == [q \in Typed |-> IF q = "" THEN Dirs ELSE {3}]

At(d, t) == [dir |-> d, at |-> t]

(* Several sessions in a directory, ties, and more directories than fit: in *)
(* the first answer directory 3 is cut off, in the second 1 is.            *)
Answers == {<<At(3, 2), At(1, 1), At(2, 2), At(1, 3)>>,
            <<At(1, 1), At(3, 3), At(2, 3), At(1, 2)>>}
=============================================================================
