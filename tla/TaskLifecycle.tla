---------------------------- MODULE TaskLifecycle ----------------------------
(***************************************************************************)
(* What one autonomous run promises to everyone outside its loop: the      *)
(* status endpoint, the mentor who is asked a question, the operator who   *)
(* cancels, and the audit trail on disk.  Nothing here says how a turn     *)
(* works; AgenticTask shows that the loop of crates/orion-api/src/         *)
(* agentic.rs keeps these promises.                                        *)
(***************************************************************************)

CONSTANT Reported   \* words a model may give as the status of its task_complete

VARIABLES
  status,       \* AgenticTaskStatus as the handlers read it
  answered,     \* the pending question has been answered
  cancelAsked,  \* a cancel request was acknowledged
  record        \* word written to agentic_runs/<id>.json, "none" without the file,
                \* "torn" in a file cut short

vars == <<status, answered, cancelAsked, record>>

Waiting  == {"WaitingForMentor", "WaitingForConfirmation"}
Terminal == {"Completed", "Failed", "Cancelled"}
Statuses == {"Running"} \cup Waiting \cup Terminal

\* The words a run may record for each final status: the model's own, or partial
\* at the turn limit, when it is Completed; the other two have one word each.
Labels(s) == CASE s = "Completed" -> Reported \cup {"partial"}
               [] s = "Failed"    -> {"failed"}
               [] s = "Cancelled" -> {"cancelled"}
               [] OTHER           -> {}

Init == /\ status = "Running"
        /\ answered = FALSE
        /\ cancelAsked = FALSE
        /\ record = "none"

\* The run stops for the mentor.
Pause == /\ status = "Running"
         /\ status' \in Waiting
         /\ UNCHANGED <<answered, cancelAsked, record>>

\* The mentor answers: one answer per question.
Answer == /\ status \in Waiting
          /\ ~answered
          /\ answered' = TRUE
          /\ UNCHANGED <<status, cancelAsked, record>>

\* A paused run goes on only with an answer.
Resume == /\ status \in Waiting
          /\ answered
          /\ status' = "Running"
          /\ answered' = FALSE
          /\ UNCHANGED <<cancelAsked, record>>

AskCancel == /\ status \notin Terminal
             /\ cancelAsked' = TRUE
             /\ UNCHANGED <<status, answered, record>>

\* A run that is not paused may come to its own end ...
Conclude == /\ status = "Running"
            /\ status' \in {"Completed", "Failed"}
            /\ UNCHANGED <<answered, cancelAsked, record>>

\* ... and any unfinished run may be cancelled, but only on request.
Cancel == /\ status \notin Terminal
          /\ cancelAsked
          /\ status' = "Cancelled"
          /\ answered' = FALSE
          /\ UNCHANGED <<cancelAsked, record>>

\* The audit record is written at most once, after the end, and agrees with it
\* if it was written whole.
WriteRecord == /\ status \in Terminal
               /\ record = "none"
               /\ record' \in Labels(status) \cup {"torn"}
               /\ UNCHANGED <<status, answered, cancelAsked>>

Next == \/ Pause \/ Answer \/ Resume \/ AskCancel
        \/ Conclude \/ Cancel \/ WriteRecord

Spec == Init /\ [][Next]_vars
=============================================================================
