-------------------------- MODULE MCOperationalChat --------------------------
(* Instances of OperationalChat small enough for TLC. *)
EXTENDS OperationalChat

CONSTANTS r1, r2, n1, a1, old1

TwoTurns   == {r1, r2}
OneNotice  == {n1}
OneArchiving == {a1}
OneDroppable == {r1}
OneEarlier   == <<old1>>
OneSecond    == {0}

Says(positive, negative, proposes, meant) ==
  [positive |-> positive, negative |-> negative, proposes |-> proposes, meant |-> meant]

\* "confirm"; "cancel"; "create agent Bob"; "hi".
HonestMessages == {Says(TRUE, TRUE, FALSE, "confirm"),
                   Says(FALSE, TRUE, FALSE, "cancel"),
                   Says(FALSE, TRUE, TRUE, "other"),
                   Says(FALSE, FALSE, FALSE, "other")}

\* "no way", whose y outweighs the rest; "schedule a job every day".
AllMessages == HonestMessages \cup {Says(TRUE, TRUE, FALSE, "cancel"),
                                    Says(TRUE, TRUE, TRUE, "other")}
=============================================================================
