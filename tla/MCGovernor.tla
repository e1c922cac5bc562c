----------------------------- MODULE MCGovernor -----------------------------
(* Instances of Governor small enough for TLC. *)
EXTENDS Governor, TLC

TwoTools == {"write", "check"}
TwoKinds == {"denied", "timeout"}

\* One call, an action followed by the call that verifies it, and the two with a
\* retry between them: after two failures it can end on two calls that work.
ShortReplies == {<<"write">>, <<"write", "check">>, <<"write", "write", "check">>}

Frame(criteria, risks, rounds, timed) ==
  [criteria |-> criteria, risks |-> risks, rounds |-> rounds, timed |-> timed]

\* A plan with a verifiable criterion and no foresight, the same with one
\* predicted failure, a timed one, the degenerate ones that validate() warns
\* about but lets through.
ManyFrames == {Frame({"check"}, {}, 3, FALSE),
               Frame({"check"}, {"denied"}, 3, FALSE),
               Frame({"check"}, {"denied"}, 2, TRUE),
               Frame({}, {}, 2, FALSE),
               Frame({"check"}, {}, 0, FALSE)}
=============================================================================
