--------------------------- MODULE MCTaskRegistry ---------------------------
(* Instances of TaskRegistry small enough for TLC. *)
EXTENDS TaskRegistry

CONSTANTS a1, t1, t2, t3, c1, c2

OneAgent     == {a1}
ThreeTasks   == {t1, t2, t3}
TwoCallers   == {c1, c2}
OneDroppable == {c1}
=============================================================================
