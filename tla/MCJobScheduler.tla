--------------------------- MODULE MCJobScheduler ---------------------------
(* Instances of JobScheduler small enough for TLC. *)
EXTENDS JobScheduler, TLC

CONSTANTS j1, j2, c1, scheduler

TwoJobs   == {j1, j2}
OneClient == {c1}

\* One job of each mode; the check flags high findings to the mentor and
\* escalates medium ones.
BothModes  == (j1 :> "id_check") @@ (j2 :> "agentic_run")
Escalating == [j \in TwoJobs |-> [escalateMedium |-> TRUE, flagHigh |-> TRUE]]
=============================================================================
