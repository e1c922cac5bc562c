----------------------------- MODULE AgenticTask -----------------------------
(***************************************************************************)
(* One autonomous run: `run_agentic_loop` (crates/orion-api/src/agentic.rs)*)
(* and the three handlers that talk to it while it works, respond, confirm *)
(* and cancel (crates/orion-api/src/routes/agent_runs.rs).                 *)
(*                                                                         *)
(* The loop and the handlers run on different threads.  They share the     *)
(* AgenticTask record, locked for one assignment at a time, two oneshot    *)
(* channels for the mentor's answers and a one-slot channel for the cancel *)
(* signal.  Every point at which the loop awaits is a value of `pc`, so a  *)
(* handler may run between any two of the loop's steps.                    *)
(*                                                                         *)
(* The language model is external: it returns any text in Contents with    *)
(* any list of tool calls in Plans, or fails.  Tool calls are told apart   *)
(* by what the loop does with them:                                        *)
(*   task_complete, ask_mentor   end the turn at once                      *)
(*   synthetic   register_mcp_skill, manage_job, ...: done before the tool *)
(*               phase, skipped in it                                      *)
(*   inline      store_provider_key, store_vault_secret, an unknown tool   *)
(*               or one the capability policy blocks: no skill runs        *)
(*   plain       a skill tool                                              *)
(*   gated       a skill tool whose descriptor or policy gate asks for     *)
(*               confirmation                                              *)
(***************************************************************************)
EXTENDS Naturals, Sequences

CONSTANTS
  MaxTurns,     \* the turn limit, after launch has clamped it
  AutoApprove,  \* auto_approve_safe_tools of the request
  Contents,     \* response texts the model may return
  Reported,     \* words the model may give as the status of its task_complete
  Plans         \* lists of tool calls a response may carry

ToolKinds == {"task_complete", "ask_mentor", "synthetic", "inline", "plain", "gated"}

ASSUME MaxTurnsAssumption == MaxTurns \in 1 .. 50
ASSUME AutoApproveAssumption == AutoApprove \in BOOLEAN
ASSUME PlansAssumption == Plans \subseteq Seq(ToolKinds)
ASSUME ReportedAssumption == Reported \cap {"none", "torn"} = {}

VARIABLES
  pc,          \* where the loop stands
  status,      \* task.status
  turn,        \* the loop's turn counter
  shownTurn,   \* task.turn, the counter the API shows
  streak,      \* no_tool_streak
  seen,        \* seen_states: response texts received so far
  todo,        \* tool calls of this turn not yet handled
  why,         \* which exit the loop took
  final,       \* outcome word of the closing Done or Error event
  completedAt, \* task.completed_at is set
  record,      \* outcome word in agentic_runs/<id>.json: "none" without the file,
               \* "torn" in a file cut short
  mentorTx,    \* task.mentor_response_tx is Some
  mentorMsg,   \* an answer sits in the mentor oneshot
  confirmTx,   \* task.confirmation_tx is Some
  confirmMsg,  \* the decision in the confirmation oneshot
  cancelSlot,  \* the one-slot cancel channel is full
  prompts,     \* what the mentor was asked so far, oldest first
  cancelAsked, \* history: a cancel request was answered with ok
  approvals,   \* history: approvals that reached a oneshot
  approvedFor, \* history: the prompt the last such decision was meant for
  gatedRuns    \* history: executions of gated tools

loopVars    == <<pc, turn, streak, seen, todo, why, final, record, prompts, gatedRuns>>
taskVars    == <<status, shownTurn, completedAt>>
mentorVars  == <<mentorTx, mentorMsg>>
confirmVars == <<confirmTx, confirmMsg, approvals, approvedFor>>
cancelVars  == <<cancelSlot, cancelAsked>>
vars == <<loopVars, taskVars, mentorVars, confirmVars, cancelVars>>

Waiting  == {"WaitingForMentor", "WaitingForConfirmation"}
Terminal == {"Completed", "Failed", "Cancelled"}
Statuses == {"Running"} \cup Waiting \cup Terminal
Outcomes == Reported \cup {"partial", "failed", "cancelled"}
Exits    == {"preflight", "max_turns", "llm_error", "duplicate", "no_tools",
             "complete", "cancel"}
PCs      == {"preflight", "top", "llm", "policy", "tools", "exec",
             "ask", "mentor", "resume", "gate", "confirm", "decided",
             "ending", "persist", "exited"}

\* The status that goes with each way out of the loop, and the outcome words
\* its closing event may carry: a run that completes repeats the model's own.
ExitStatus(w) == CASE w \in {"complete", "max_turns"} -> "Completed"
                   [] w = "cancel"                    -> "Cancelled"
                   [] OTHER                           -> "Failed"
ExitLabels(w) == CASE w = "complete"  -> Reported
                   [] w = "max_turns" -> {"partial"}
                   [] w = "cancel"    -> {"cancelled"}
                   [] OTHER           -> {"failed"}

Has(plan, kind) == \E i \in DOMAIN plan : plan[i] = kind

Init ==
  /\ pc = "preflight" /\ status = "Running"
  /\ turn = 0 /\ shownTurn = 0 /\ streak = 0
  /\ seen = {} /\ todo = <<>>
  /\ why = "none" /\ final = "none" /\ completedAt = FALSE /\ record = "none"
  /\ mentorTx = FALSE /\ mentorMsg = FALSE
  /\ confirmTx = FALSE /\ confirmMsg = "none"
  /\ cancelSlot = FALSE /\ cancelAsked = FALSE
  /\ prompts = <<>>
  /\ approvals = 0 /\ approvedFor = 0 /\ gatedRuns = 0

-----------------------------------------------------------------------------
(* Leaving the loop: the closing event, then update_status, then the audit *)
(* record.  Other threads run in between.                                  *)

\* The Done or Error event of exit w is sent; nothing is sent after it.
Leave(w) == /\ why' = w
            /\ final' \in ExitLabels(w)
            /\ pc' = "ending"

-----------------------------------------------------------------------------
(* Mutants: plausible slips, each caught by the property named with it.    *)

\* NoTurnAfterCancel: the top of the loop does not poll the cancel channel.
LoopTopNoCancelCheck ==
  /\ pc = "top"
  /\ \/ turn >= MaxTurns /\ Leave("max_turns") /\ UNCHANGED turn
     \/ turn < MaxTurns /\ turn' = turn + 1 /\ pc' = "llm" /\ UNCHANGED <<why, final>>
  /\ UNCHANGED <<streak, seen, todo, record, prompts, gatedRuns,
                 taskVars, mentorVars, confirmVars, cancelVars>>

\* CancelledOnlyOnRequest: giving up on a slow mentor is reported as a cancel.
MentorCancelledOnTimeout ==
  /\ pc = "mentor"
  /\ Leave("cancel")
  /\ UNCHANGED <<turn, streak, seen, todo, record, prompts, gatedRuns,
                 taskVars, mentorVars, confirmVars, cancelVars>>

\* LifecycleSpec: the status is not set back after an answer.
ResumeForgetsStatus ==
  /\ pc = "resume"
  /\ pc' = "top"
  /\ UNCHANGED <<turn, streak, seen, todo, why, final, record, prompts, gatedRuns,
                 taskVars, mentorVars, confirmVars, cancelVars>>

\* WaitingIsAnswerable: the sender is not stored with the waiting status.
OpenGateNoSender ==
  /\ pc = "gate"
  /\ status' = "WaitingForConfirmation"
  /\ confirmMsg' = "none"
  /\ pc' = "confirm"
  /\ UNCHANGED <<turn, streak, seen, todo, why, final, record, prompts, gatedRuns,
                 shownTurn, completedAt, mentorVars, confirmTx, approvals,
                 approvedFor, cancelVars>>

\* SettlesOrWaits: the select's pattern is Ok(true), which a denial disables.
GateAnsweredYesOnly ==
  /\ pc = "confirm"
  /\ confirmMsg = "yes"
  /\ pc' = "decided"
  /\ UNCHANGED <<turn, streak, seen, todo, why, final, record, prompts, gatedRuns,
                 taskVars, mentorVars, confirmVars, cancelVars>>

\* OneApprovalPerGatedRun: a denial is reported but the tool runs all the same.
GateSettledIgnoresDenial ==
  /\ pc = "decided"
  /\ status' = "Running"
  /\ confirmMsg' = "none"
  /\ pc' = "exec"
  /\ UNCHANGED <<turn, streak, seen, todo, why, final, record, prompts, gatedRuns, shownTurn,
                 completedAt, mentorVars, confirmTx, approvals, approvedFor, cancelVars>>

\* CancelEndsRun: the signal is only sent to a run that is working.
RequestCancelRunningOnly ==
  /\ status \notin Terminal
  /\ cancelSlot' = (cancelSlot \/ status = "Running")
  /\ cancelAsked' = TRUE
  /\ UNCHANGED <<loopVars, taskVars, mentorVars, confirmVars>>

\* AuditTrailAgrees: every exit is stored as Completed.
UpdateStatusAlwaysCompleted ==
  /\ pc = "ending"
  /\ status' = "Completed"
  /\ shownTurn' = turn
  /\ completedAt' = TRUE
  /\ pc' = "persist"
  /\ UNCHANGED <<turn, streak, seen, todo, why, final, record, prompts,
                 gatedRuns, mentorVars, confirmVars, cancelVars>>

-----------------------------------------------------------------------------
UpdateStatus ==
  /\ pc = "ending"
  /\ status' = ExitStatus(why)
  /\ shownTurn' = turn
  /\ completedAt' = TRUE
  /\ pc' = "persist"
  /\ UNCHANGED <<turn, streak, seen, todo, why, final, record, prompts,
                 gatedRuns, mentorVars, confirmVars, cancelVars>>

\* The error of create_dir_all or of the write is dropped: then there is no
\* file, or one that was truncated and not filled.
PersistRunSummary ==
  /\ pc = "persist"
  /\ record' \in {final, "none", "torn"}
  /\ pc' = "exited"
  /\ UNCHANGED <<turn, streak, seen, todo, why, final, prompts, gatedRuns,
                 taskVars, mentorVars, confirmVars, cancelVars>>

-----------------------------------------------------------------------------
(* The turn.                                                               *)

\* Ego present and heartbeat answered, or the run fails before its first turn.
Preflight ==
  /\ pc = "preflight"
  /\ \/ pc' = "top" /\ UNCHANGED <<why, final>>
     \/ Leave("preflight")
  /\ UNCHANGED <<turn, streak, seen, todo, record, prompts, gatedRuns,
                 taskVars, mentorVars, confirmVars, cancelVars>>

\* Turn limit first, then the cancel signal, then a new turn.
LoopTop ==
  /\ pc = "top"
  /\ \/ /\ turn >= MaxTurns
        /\ Leave("max_turns")
        /\ UNCHANGED <<turn, cancelSlot>>
     \/ /\ turn < MaxTurns
        /\ cancelSlot
        /\ cancelSlot' = FALSE
        /\ Leave("cancel")
        /\ UNCHANGED turn
     \/ /\ turn < MaxTurns
        /\ ~cancelSlot
        /\ turn' = turn + 1
        /\ pc' = "llm"
        /\ UNCHANGED <<why, final, cancelSlot>>
  /\ UNCHANGED <<streak, seen, todo, record, prompts, gatedRuns, cancelAsked,
                 taskVars, mentorVars, confirmVars>>

LlmFails ==
  /\ pc = "llm"
  /\ Leave("llm_error")
  /\ UNCHANGED <<turn, streak, seen, todo, record, prompts, gatedRuns,
                 taskVars, mentorVars, confirmVars, cancelVars>>

\* What the loop does with a response whose text it has not seen before.
\* task_complete wins over everything, ask_mentor over the other tools; an
\* ask_mentor turn leaves no_tool_streak as it was.
HandlePlan(plan) ==
  \/ /\ Has(plan, "task_complete")
     /\ Leave("complete")
     /\ UNCHANGED <<streak, todo, prompts>>
  \/ /\ ~Has(plan, "task_complete")
     /\ Has(plan, "ask_mentor")
     /\ prompts' = Append(prompts, "mentor")
     /\ pc' = "ask"
     /\ UNCHANGED <<streak, todo, why, final>>
  \/ /\ plan = <<>>
     /\ streak' = streak + 1
     /\ IF streak + 1 >= 3 THEN Leave("no_tools")
                           ELSE pc' = "top" /\ UNCHANGED <<why, final>>
     /\ UNCHANGED <<todo, prompts>>
  \/ /\ plan # <<>>
     /\ ~Has(plan, "task_complete")
     /\ ~Has(plan, "ask_mentor")
     /\ streak' = 0
     /\ todo' = plan
     /\ pc' = "policy"
     /\ UNCHANGED <<why, final, prompts>>

\* A response arrives.  The duplicate breaker compares its text only.
LlmAnswers ==
  /\ pc = "llm"
  /\ \E content \in Contents, plan \in Plans :
       /\ seen' = seen \cup {content}
       /\ IF content \in seen
            THEN Leave("duplicate") /\ UNCHANGED <<streak, todo, prompts>>
            ELSE HandlePlan(plan)
  /\ UNCHANGED <<turn, record, gatedRuns, taskVars, mentorVars, confirmVars, cancelVars>>

-----------------------------------------------------------------------------
(* ask_mentor: the event is out before the status says so.                 *)

OpenQuestion ==
  /\ pc = "ask"
  /\ status' = "WaitingForMentor"
  /\ mentorTx' = TRUE
  /\ mentorMsg' = FALSE
  /\ shownTurn' = turn
  /\ pc' = "mentor"
  /\ UNCHANGED <<turn, streak, seen, todo, why, final, record, prompts,
                 gatedRuns, completedAt, confirmVars, cancelVars>>

\* The select between answer and cancel picks either when both are ready.
MentorAnswered ==
  /\ pc = "mentor"
  /\ mentorMsg
  /\ mentorMsg' = FALSE
  /\ pc' = "resume"
  /\ UNCHANGED <<turn, streak, seen, todo, why, final, record, prompts,
                 gatedRuns, taskVars, mentorTx, confirmVars, cancelVars>>

MentorCancelled ==
  /\ pc = "mentor"
  /\ cancelSlot
  /\ cancelSlot' = FALSE
  /\ Leave("cancel")
  /\ UNCHANGED <<turn, streak, seen, todo, record, prompts, gatedRuns,
                 taskVars, mentorVars, confirmVars, cancelAsked>>

Resume ==
  /\ pc = "resume"
  /\ status' = "Running"
  /\ pc' = "top"
  /\ UNCHANGED <<turn, streak, seen, todo, why, final, record, prompts, gatedRuns,
                 shownTurn, completedAt, mentorVars, confirmVars, cancelVars>>

-----------------------------------------------------------------------------
(* The tool phase.                                                         *)

\* superego_check of the newest user message, which may ask a second model;
\* its advice goes into the capability envelope that makes a call inline.
CheckPolicy ==
  /\ pc = "policy"
  /\ pc' = "tools"
  /\ UNCHANGED <<turn, streak, seen, todo, why, final, record, prompts, gatedRuns,
                 taskVars, mentorVars, confirmVars, cancelVars>>

NeedsConfirmation == Head(todo) = "gated" /\ ~AutoApprove

\* Synthetic calls are skipped, inline ones finished here without a skill.
HandleInline ==
  /\ pc = "tools"
  /\ todo # <<>>
  /\ Head(todo) \in {"synthetic", "inline"}
  /\ todo' = Tail(todo)
  /\ UNCHANGED <<pc, turn, streak, seen, why, final, record, prompts, gatedRuns,
                 taskVars, mentorVars, confirmVars, cancelVars>>

StartTool ==
  /\ pc = "tools"
  /\ todo # <<>>
  /\ Head(todo) \in {"plain", "gated"}
  /\ ~NeedsConfirmation
  /\ pc' = "exec"
  /\ UNCHANGED <<turn, streak, seen, todo, why, final, record, prompts, gatedRuns,
                 taskVars, mentorVars, confirmVars, cancelVars>>

\* ConfirmationNeeded is sent and the step recorded.
AskConfirmation ==
  /\ pc = "tools"
  /\ todo # <<>>
  /\ NeedsConfirmation
  /\ prompts' = Append(prompts, "confirm")
  /\ pc' = "gate"
  /\ UNCHANGED <<turn, streak, seen, todo, why, final, record, gatedRuns,
                 taskVars, mentorVars, confirmVars, cancelVars>>

OpenGate ==
  /\ pc = "gate"
  /\ status' = "WaitingForConfirmation"
  /\ confirmTx' = TRUE
  /\ confirmMsg' = "none"
  /\ pc' = "confirm"
  /\ UNCHANGED <<turn, streak, seen, todo, why, final, record, prompts, gatedRuns,
                 shownTurn, completedAt, mentorVars, approvals, approvedFor, cancelVars>>

GateAnswered ==
  /\ pc = "confirm"
  /\ confirmMsg # "none"
  /\ pc' = "decided"
  /\ UNCHANGED <<turn, streak, seen, todo, why, final, record, prompts, gatedRuns,
                 taskVars, mentorVars, confirmVars, cancelVars>>

GateCancelled ==
  /\ pc = "confirm"
  /\ cancelSlot
  /\ cancelSlot' = FALSE
  /\ Leave("cancel")
  /\ UNCHANGED <<turn, streak, seen, todo, record, prompts, gatedRuns,
                 taskVars, mentorVars, confirmVars, cancelAsked>>

\* Status goes back to Running; a denied tool is skipped.
GateSettled ==
  /\ pc = "decided"
  /\ status' = "Running"
  /\ confirmMsg' = "none"
  /\ \/ confirmMsg = "yes" /\ pc' = "exec" /\ UNCHANGED todo
     \/ confirmMsg = "no" /\ pc' = "tools" /\ todo' = Tail(todo)
  /\ UNCHANGED <<turn, streak, seen, why, final, record, prompts, gatedRuns, shownTurn,
                 completedAt, mentorVars, confirmTx, approvals, approvedFor, cancelVars>>

\* The skill returns, fails or times out; either way the loop goes on.
ToolReturns ==
  /\ pc = "exec"
  /\ todo' = Tail(todo)
  /\ pc' = "tools"
  /\ gatedRuns' = gatedRuns + (IF Head(todo) = "gated" THEN 1 ELSE 0)
  /\ UNCHANGED <<turn, streak, seen, why, final, record, prompts,
                 taskVars, mentorVars, confirmVars, cancelVars>>

SyncCounters ==
  /\ pc = "tools"
  /\ todo = <<>>
  /\ shownTurn' = turn
  /\ pc' = "top"
  /\ UNCHANGED <<turn, streak, seen, todo, why, final, record, prompts, gatedRuns,
                 status, completedAt, mentorVars, confirmVars, cancelVars>>

-----------------------------------------------------------------------------
(* The handlers.  A request names the task, never the question: p is the   *)
(* prompt its sender was looking at, which the code cannot see.  A request *)
(* the status rejects changes nothing.                                     *)

\* The sender is taken; after a cancel won the select, sending goes nowhere.
Respond ==
  /\ status = "WaitingForMentor"
  /\ mentorTx
  /\ mentorTx' = FALSE
  /\ mentorMsg' = (pc = "mentor")
  /\ UNCHANGED <<loopVars, taskVars, confirmVars, cancelVars>>

Confirm(p, decision) ==
  /\ status = "WaitingForConfirmation"
  /\ confirmTx
  /\ confirmTx' = FALSE
  /\ IF pc = "confirm"
       THEN /\ confirmMsg' = decision
            /\ approvedFor' = p
            /\ approvals' = approvals + (IF decision = "yes" THEN 1 ELSE 0)
       ELSE UNCHANGED <<confirmMsg, approvedFor, approvals>>
  /\ UNCHANGED <<loopVars, taskVars, mentorVars, cancelVars>>

\* try_send: a second signal finds the slot full and is dropped.
RequestCancel ==
  /\ status \notin Terminal
  /\ cancelSlot' = TRUE
  /\ cancelAsked' = TRUE
  /\ UNCHANGED <<loopVars, taskVars, mentorVars, confirmVars>>

-----------------------------------------------------------------------------
LoopStep ==
  \/ Preflight \/ LoopTop \/ LlmFails \/ LlmAnswers
  \/ OpenQuestion \/ MentorAnswered \/ MentorCancelled \/ Resume
  \/ CheckPolicy \/ HandleInline \/ StartTool \/ AskConfirmation
  \/ OpenGate \/ GateAnswered \/ GateCancelled \/ GateSettled
  \/ ToolReturns \/ SyncCounters
  \/ UpdateStatus \/ PersistRunSummary

PromptsOf(kind) == {p \in DOMAIN prompts : prompts[p] = kind}

HandlerStep ==
  \/ Respond
  \/ \E p \in PromptsOf("confirm"), decision \in {"yes", "no"} : Confirm(p, decision)
  \/ RequestCancel

\* The run is over and the handlers reject everything.
Over == pc = "exited" /\ UNCHANGED vars

Next == LoopStep \/ HandlerStep \/ Over

Spec == Init /\ [][Next]_vars

\* The runtime polls the loop whenever it can move, and a skill's tool comes
\* back within the executor's time limit.  The mentor owes nothing, and neither
\* does a model: async_openai's client sets no limit to a request, so the
\* heartbeat, a turn's call and the second safety check may hang.
AwaitsModel == pc \in {"preflight", "llm", "policy"}
OwnStep     == ~AwaitsModel /\ LoopStep
FairSpec    == Spec /\ WF_vars(OwnStep)

-----------------------------------------------------------------------------
(* Properties.                                                             *)

\* Each variable stays in its range.
TypeOK ==
  /\ pc \in PCs
  /\ status \in Statuses
  /\ turn \in 0 .. MaxTurns
  /\ shownTurn \in 0 .. MaxTurns
  /\ streak \in 0 .. 3
  /\ seen \subseteq Contents
  /\ todo \in Seq(ToolKinds)
  /\ why \in Exits \cup {"none"}
  /\ final \in Outcomes \cup {"none"}
  /\ completedAt \in BOOLEAN
  /\ record \in Outcomes \cup {"none", "torn"}
  /\ mentorTx \in BOOLEAN /\ mentorMsg \in BOOLEAN
  /\ confirmTx \in BOOLEAN /\ confirmMsg \in {"none", "yes", "no"}
  /\ cancelSlot \in BOOLEAN /\ cancelAsked \in BOOLEAN
  /\ prompts \in Seq({"mentor", "confirm"})
  /\ approvals \in Nat /\ approvedFor \in Nat /\ gatedRuns \in Nat

\* A run that waits for the mentor can always be moved on: its sender is still
\* in the task record, or an answer is on its way to the loop, or the loop is
\* already leaving on an acknowledged cancel.  No wake-up is ever lost.
WaitingIsAnswerable ==
  /\ status = "WaitingForMentor" =>
       \/ pc = "mentor" /\ (mentorTx \/ mentorMsg)
       \/ pc = "resume"
       \/ pc = "ending" /\ why = "cancel"
  /\ status = "WaitingForConfirmation" =>
       \/ pc = "confirm" /\ (confirmTx \/ confirmMsg # "none")
       \/ pc = "decided" /\ confirmMsg # "none"
       \/ pc = "ending" /\ why = "cancel"

\* Nothing is cancelled unless somebody asked: the status never says so without
\* an acknowledged request, and where the closing event or the record does, it
\* repeats the word of a model that completed its run.
CancelledOnlyOnRequest ==
  /\ status = "Cancelled" => cancelAsked
  /\ "cancelled" \in {final, record} => cancelAsked \/ why = "complete"

\* Unless auto-approval is on, each execution of a confirmation-gated tool is
\* paid for by an approval of its own: one approval never opens two gates.
OneApprovalPerGatedRun == ~AutoApprove => gatedRuns <= approvals

\* The closing event, the status and the audit record tell one story, in that
\* order: a client that sees a terminal status finds the event sent, with a word
\* that fits it, and the completion time set; a record that can be read repeats
\* the event's word, and is never there before the status.
AuditTrailAgrees ==
  /\ status \in Terminal => /\ final \in ExitLabels(why)
                             /\ status = ExitStatus(why)
                             /\ completedAt
  /\ record \notin {"none", "torn"} => record = final /\ status \in Terminal

\* Once a cancel request has been acknowledged the loop starts no further turn,
\* wherever the signal found it.
NoTurnAfterCancel == [][cancelAsked => turn' = turn]_vars

\* An acknowledged cancel ends the run, even if the mentor never answers the
\* question it is waiting on, unless a model call never comes back.
CancelEndsRun == <>[]AwaitsModel \/ (cancelAsked ~> pc = "exited")

\* Left alone, a run comes to its end or stands waiting for the mentor or for
\* a model: the turn limit bounds every chain of turns, answered questions
\* included.
SettlesOrWaits ==
  <>[]( \/ pc = "exited"
        \/ AwaitsModel
        \/ pc = "mentor"  /\ ~mentorMsg /\ ~cancelSlot
        \/ pc = "confirm" /\ confirmMsg = "none" /\ ~cancelSlot )

\* The run keeps the promises of TaskLifecycle.
Lifecycle == INSTANCE TaskLifecycle WITH
  answered <- \/ status = "WaitingForMentor" /\ (mentorMsg \/ pc = "resume")
              \/ status = "WaitingForConfirmation" /\ confirmMsg # "none"
LifecycleSpec == Lifecycle!Spec

-----------------------------------------------------------------------------
(* What the documentation says and the code does not do.                   *)

\* tool_extraction.rs:200 lists success, partial and failed as the outcomes of
\* task_complete; the loop takes any word.
OutcomeAsListed == why = "complete" => final \in {"success", "partial", "failed"}

\* "Mentor confirmation is available for risky tool actions in agentic mode":
\* the decision that opens a gate was given for the prompt of that gate.
DecisionMatchesPrompt ==
  pc = "decided" => approvedFor = Len(prompts)
=============================================================================
