-------------------------- MODULE AgenticTask_proofs --------------------------
(***************************************************************************)
(* What AgenticTask promises for every turn limit, every set of response   *)
(* texts and every set of plans; and what ModelCalls, whose calls a run's  *)
(* turns are, promises for every set of callers, answers and events.       *)
(***************************************************************************)
EXTENDS AgenticTask, ModelCalls, FiniteSetTheorems, SequenceTheorems, WellFoundedInduction,
        TLAPS

Working == {"preflight", "top", "llm", "policy", "tools", "exec", "ask", "gate"}
Leaving == {"ending", "persist", "exited"}

\* The status follows the program counter ...
StatusFollowsPc ==
  /\ pc \in Working => status = "Running"
  /\ pc \in {"mentor", "resume"} => status = "WaitingForMentor"
  /\ pc \in {"confirm", "decided"} => status = "WaitingForConfirmation"
  /\ pc = "ending" => status = "Running" \/ (status \in Waiting /\ why = "cancel")
  /\ pc \in {"persist", "exited"} => status = ExitStatus(why) /\ completedAt

\* ... an exit is chosen once, and its closing event fits it ...
ExitChosenOnce ==
  /\ pc \in Leaving => why \in Exits /\ final \in ExitLabels(why)
  /\ pc \notin Leaving => why = "none" /\ final = "none" /\ streak <= 2
  /\ record # "none" => pc = "exited" /\ record \in {final, "torn"}

\* ... a oneshot holds its sender or its message, never both ...
OneshotsHold ==
  /\ pc = "mentor" => mentorTx \/ mentorMsg
  /\ status = "WaitingForMentor" /\ mentorTx => ~mentorMsg /\ pc # "resume"
  /\ pc = "confirm" => confirmTx \/ confirmMsg # "none"
  /\ pc = "decided" => confirmMsg # "none"
  /\ status = "WaitingForConfirmation" /\ confirmTx => confirmMsg = "none"
  /\ pc \in {"exec", "gate", "confirm", "decided"} => todo # <<>>

\* ... a cancel signal comes from an acknowledged request, and stays in its slot
\* until the loop leaves ...
CancelWasAsked ==
  /\ cancelSlot \/ why = "cancel" => cancelAsked
  /\ cancelAsked => cancelSlot \/ pc \in Leaving

\* ... and an approval still in the channel has not been spent.
UnspentApproval ==
  \/ pc \in {"confirm", "decided"} /\ confirmMsg = "yes"
  \/ pc = "exec" /\ Head(todo) = "gated"
ApprovalsCover ==
  ~AutoApprove => /\ gatedRuns <= approvals
                  /\ UnspentApproval => gatedRuns + 1 <= approvals

IInv == /\ TypeOK
        /\ StatusFollowsPc
        /\ ExitChosenOnce
        /\ OneshotsHold
        /\ CancelWasAsked
        /\ ApprovalsCover

-----------------------------------------------------------------------------
(* Types.                                                                  *)

\* The Boolean variables, which need a prover of their own.
Flags == /\ completedAt \in BOOLEAN
         /\ mentorTx \in BOOLEAN /\ mentorMsg \in BOOLEAN
         /\ confirmTx \in BOOLEAN
         /\ cancelSlot \in BOOLEAN /\ cancelAsked \in BOOLEAN

LEMMA FlagStep == ASSUME Flags, [Next]_vars PROVE Flags'
<1> USE DEF Flags, loopVars, taskVars, mentorVars, confirmVars, cancelVars
<1>1. CASE Preflight
  BY <1>1, Zenon DEF Preflight, Leave
<1>2. CASE LoopTop
  BY <1>2, Zenon DEF LoopTop, Leave
<1>3. CASE LlmFails
  BY <1>3, Zenon DEF LlmFails, Leave
<1>4. CASE LlmAnswers
  BY <1>4, Zenon DEF LlmAnswers, Leave, HandlePlan
<1>5. CASE OpenQuestion
  BY <1>5, Zenon DEF OpenQuestion
<1>6. CASE MentorAnswered
  BY <1>6, Zenon DEF MentorAnswered
<1>7. CASE MentorCancelled
  BY <1>7, Zenon DEF MentorCancelled, Leave
<1>8. CASE Resume
  BY <1>8, Zenon DEF Resume
<1>9. CASE HandleInline
  BY <1>9, Zenon DEF HandleInline
<1>10. CASE CheckPolicy \/ StartTool
  BY <1>10, Zenon DEF CheckPolicy, StartTool, NeedsConfirmation
<1>11. CASE AskConfirmation
  BY <1>11, Zenon DEF AskConfirmation, NeedsConfirmation
<1>12. CASE OpenGate
  BY <1>12, Zenon DEF OpenGate
<1>13. CASE GateAnswered
  BY <1>13, Zenon DEF GateAnswered
<1>14. CASE GateCancelled
  BY <1>14, Zenon DEF GateCancelled, Leave
<1>15. CASE GateSettled
  BY <1>15, Zenon DEF GateSettled
<1>16. CASE ToolReturns
  BY <1>16, Zenon DEF ToolReturns
<1>17. CASE SyncCounters
  BY <1>17, Zenon DEF SyncCounters
<1>18. CASE UpdateStatus
  BY <1>18, Zenon DEF UpdateStatus
<1>19. CASE PersistRunSummary
  BY <1>19, Zenon DEF PersistRunSummary
<1>20. CASE Respond
  BY <1>20, Zenon DEF Respond
<1>21. ASSUME NEW p \in PromptsOf("confirm"), NEW decision \in {"yes", "no"},
             Confirm(p, decision)
      PROVE  Flags'
  BY <1>21, Zenon DEF Confirm, PromptsOf
<1>22. CASE RequestCancel
  BY <1>22, Zenon DEF RequestCancel
<1>23. CASE Over \/ UNCHANGED vars
  BY <1>23, Zenon DEF Over, vars
<1> QED
  BY <1>1, <1>2, <1>3, <1>4, <1>5, <1>6, <1>7, <1>8, <1>9, <1>10, <1>11, <1>12,
     <1>13, <1>14, <1>15, <1>16, <1>17, <1>18, <1>19, <1>20, <1>21, <1>22, <1>23
     DEF Next, LoopStep, HandlerStep

LEMMA TypeStep ==
  ASSUME TypeOK, Flags', pc = "llm" => streak <= 2,
         pc \in {"exec", "gate", "confirm", "decided"} => todo # <<>>,
         [Next]_vars
  PROVE  TypeOK'
<1> USE MaxTurnsAssumption
    DEF TypeOK, Flags, PCs, Statuses, Waiting, Terminal, Exits, Outcomes, ExitLabels,
        loopVars, taskVars, mentorVars, confirmVars, cancelVars
<1>1. CASE Preflight
  BY <1>1 DEF Preflight, Leave
<1>2. CASE LoopTop
  <2>1. turn' \in 0 .. MaxTurns
    BY <1>2 DEF LoopTop
  <2>2. pc' \in PCs /\ why' \in Exits \cup {"none"} /\ final' \in Outcomes \cup {"none"}
    BY <1>2 DEF LoopTop, Leave
  <2> QED
    BY <1>2, <2>1, <2>2 DEF LoopTop
<1>3. CASE LlmFails
  BY <1>3 DEF LlmFails, Leave
<1>4. CASE LlmAnswers
  <2> PICK content \in Contents, plan \in Plans :
         /\ seen' = seen \cup {content}
         /\ IF content \in seen
              THEN Leave("duplicate") /\ UNCHANGED <<streak, todo, prompts>>
              ELSE HandlePlan(plan)
    BY <1>4 DEF LlmAnswers
  <2>1. seen' \subseteq Contents
    OBVIOUS
  <2>2. todo' \in Seq(ToolKinds)
    BY PlansAssumption DEF HandlePlan
  <2>3. prompts' \in Seq({"mentor", "confirm"})
    BY SMTT(30) DEF HandlePlan, Leave
  <2>4. streak' \in 0 .. 3
    BY <1>4 DEF HandlePlan, LlmAnswers
  <2>5. /\ pc' \in PCs
        /\ why' \in Exits \cup {"none"}
        /\ final' \in Outcomes \cup {"none"}
    BY DEF HandlePlan, Leave
  <2> QED
    BY <1>4, <2>1, <2>2, <2>3, <2>4, <2>5 DEF LlmAnswers
<1>5. CASE OpenQuestion
  BY <1>5 DEF OpenQuestion
<1>6. CASE MentorAnswered
  BY <1>6 DEF MentorAnswered
<1>7. CASE MentorCancelled
  BY <1>7 DEF MentorCancelled, Leave
<1>8. CASE Resume
  BY <1>8 DEF Resume
<1>9. CASE HandleInline
  BY <1>9 DEF HandleInline
<1>10. CASE CheckPolicy \/ StartTool
  BY <1>10 DEF CheckPolicy, StartTool, NeedsConfirmation
<1>11. CASE AskConfirmation
  BY <1>11 DEF AskConfirmation, NeedsConfirmation
<1>12. CASE OpenGate
  BY <1>12 DEF OpenGate
<1>13. CASE GateAnswered
  BY <1>13 DEF GateAnswered
<1>14. CASE GateCancelled
  BY <1>14 DEF GateCancelled, Leave
<1>15. CASE GateSettled
  <2>1. todo' \in Seq(ToolKinds)
    BY <1>15 DEF GateSettled
  <2>2. pc' \in PCs /\ status' \in Statuses
    BY <1>15 DEF GateSettled
  <2> QED
    BY <1>15, <2>1, <2>2 DEF GateSettled
<1>16. CASE ToolReturns
  BY <1>16 DEF ToolReturns
<1>17. CASE SyncCounters
  BY <1>17 DEF SyncCounters
<1>18. CASE UpdateStatus
  <2>1. status' \in Statuses
    BY <1>18 DEF UpdateStatus, ExitStatus
  <2> QED
    BY <1>18, <2>1 DEF UpdateStatus
<1>19. CASE PersistRunSummary
  BY <1>19 DEF PersistRunSummary
<1>20. CASE Respond
  BY <1>20 DEF Respond
<1>21. ASSUME NEW p \in PromptsOf("confirm"), NEW decision \in {"yes", "no"},
             Confirm(p, decision)
      PROVE  TypeOK'
  BY <1>21 DEF Confirm, PromptsOf
<1>22. CASE RequestCancel
  BY <1>22 DEF RequestCancel
<1>23. CASE Over \/ UNCHANGED vars
  <2>1. /\ UNCHANGED <<pc, turn, streak, seen, todo, why, final, record, prompts, gatedRuns>>
        /\ UNCHANGED <<status, shownTurn, confirmMsg, approvals, approvedFor>>
    BY <1>23 DEF Over, vars
  <2> QED
    BY <2>1
<1> QED
  BY <1>1, <1>2, <1>3, <1>4, <1>5, <1>6, <1>7, <1>8, <1>9, <1>10, <1>11, <1>12,
     <1>13, <1>14, <1>15, <1>16, <1>17, <1>18, <1>19, <1>20, <1>21, <1>22, <1>23
     DEF Next, LoopStep, HandlerStep

-----------------------------------------------------------------------------
(* Control: what the conjuncts of the invariant say of pc, step by step.    *)

LEMMA ControlStep ==
  ASSUME IInv, [Next]_vars
  PROVE  StatusFollowsPc' /\ ExitChosenOnce' /\ OneshotsHold'
<1> USE DEF IInv, StatusFollowsPc, ExitChosenOnce, OneshotsHold, Working, Leaving,
            Waiting, Terminal, Exits, ExitStatus, ExitLabels,
            loopVars, taskVars, mentorVars, confirmVars, cancelVars
<1>1. CASE Preflight
  BY <1>1 DEF Preflight, Leave
<1>2. CASE LoopTop
  BY <1>2 DEF LoopTop, Leave
<1>3. CASE LlmFails
  BY <1>3 DEF LlmFails, Leave
<1>4. CASE LlmAnswers
  <2> PICK content \in Contents, plan \in Plans :
         IF content \in seen
           THEN Leave("duplicate") /\ UNCHANGED <<streak, todo, prompts>>
           ELSE HandlePlan(plan)
    BY <1>4 DEF LlmAnswers
  <2>1. CASE content \in seen
    BY <1>4, <2>1 DEF LlmAnswers, Leave
  <2>2. CASE content \notin seen /\ pc' \in Leaving
    BY <1>4, <2>2 DEF LlmAnswers, HandlePlan, Leave
  <2>3. CASE content \notin seen /\ pc' \notin Leaving
    <3>0. pc = "llm"
      BY <1>4 DEF LlmAnswers
    <3>1. HandlePlan(plan)
      BY <2>3
    <3>2. /\ pc' \in {"ask", "top", "policy"}
          /\ why' = "none" /\ final' = "none"
      BY <2>3, <3>0, <3>1 DEF HandlePlan, Leave
    <3>3. streak' <= 2
      BY <2>3, <3>0, <3>1 DEF HandlePlan, Leave, TypeOK
    <3>4. UNCHANGED <<status, record, completedAt, mentorVars, confirmTx, confirmMsg>>
      BY <1>4 DEF LlmAnswers
    <3> QED
      BY <3>0, <3>2, <3>3, <3>4
  <2> QED
    BY <2>1, <2>2, <2>3
<1>5. CASE OpenQuestion
  BY <1>5 DEF OpenQuestion
<1>6. CASE MentorAnswered
  BY <1>6 DEF MentorAnswered
<1>7. CASE MentorCancelled
  BY <1>7 DEF MentorCancelled, Leave
<1>8. CASE Resume
  BY <1>8 DEF Resume
<1>9. CASE HandleInline
  BY <1>9 DEF HandleInline
<1>10. CASE CheckPolicy \/ StartTool
  BY <1>10 DEF CheckPolicy, StartTool, NeedsConfirmation
<1>11. CASE AskConfirmation
  BY <1>11 DEF AskConfirmation, NeedsConfirmation
<1>12. CASE OpenGate
  BY <1>12 DEF OpenGate
<1>13. CASE GateAnswered
  BY <1>13 DEF GateAnswered
<1>14. CASE GateCancelled
  BY <1>14 DEF GateCancelled, Leave
<1>15. CASE GateSettled
  BY <1>15 DEF GateSettled
<1>16. CASE ToolReturns
  BY <1>16 DEF ToolReturns
<1>17. CASE SyncCounters
  BY <1>17 DEF SyncCounters
<1>18. CASE UpdateStatus
  BY <1>18 DEF UpdateStatus
<1>19. CASE PersistRunSummary
  BY <1>19 DEF PersistRunSummary
<1>20. CASE Respond
  BY <1>20 DEF Respond
<1>21. ASSUME NEW p \in PromptsOf("confirm"), NEW decision \in {"yes", "no"},
             Confirm(p, decision)
      PROVE  StatusFollowsPc' /\ ExitChosenOnce' /\ OneshotsHold'
  BY <1>21 DEF Confirm, PromptsOf
<1>22. CASE RequestCancel
  BY <1>22 DEF RequestCancel
<1>23. CASE Over \/ UNCHANGED vars
  BY <1>23 DEF Over, vars
<1> QED
  BY <1>1, <1>2, <1>3, <1>4, <1>5, <1>6, <1>7, <1>8, <1>9, <1>10, <1>11, <1>12,
     <1>13, <1>14, <1>15, <1>16, <1>17, <1>18, <1>19, <1>20, <1>21, <1>22, <1>23
     DEF Next, LoopStep, HandlerStep

LEMMA CancelStep == ASSUME IInv, [Next]_vars PROVE CancelWasAsked'
<1> USE DEF IInv, CancelWasAsked, ExitChosenOnce, Leaving,
            loopVars, taskVars, mentorVars, confirmVars, cancelVars
<1>1. CASE Preflight
  BY <1>1 DEF Preflight, Leave
<1>2. CASE LoopTop
  BY <1>2 DEF LoopTop, Leave
<1>3. CASE LlmFails
  BY <1>3 DEF LlmFails, Leave
<1>4. CASE LlmAnswers
  BY <1>4 DEF LlmAnswers, Leave, HandlePlan
<1>5. CASE OpenQuestion
  BY <1>5 DEF OpenQuestion
<1>6. CASE MentorAnswered
  BY <1>6 DEF MentorAnswered
<1>7. CASE MentorCancelled
  BY <1>7 DEF MentorCancelled, Leave
<1>8. CASE Resume
  BY <1>8 DEF Resume
<1>9. CASE HandleInline
  BY <1>9 DEF HandleInline
<1>10. CASE CheckPolicy \/ StartTool
  BY <1>10 DEF CheckPolicy, StartTool, NeedsConfirmation
<1>11. CASE AskConfirmation
  BY <1>11 DEF AskConfirmation, NeedsConfirmation
<1>12. CASE OpenGate
  BY <1>12 DEF OpenGate
<1>13. CASE GateAnswered
  BY <1>13 DEF GateAnswered
<1>14. CASE GateCancelled
  BY <1>14 DEF GateCancelled, Leave
<1>15. CASE GateSettled
  BY <1>15 DEF GateSettled
<1>16. CASE ToolReturns
  BY <1>16 DEF ToolReturns
<1>17. CASE SyncCounters
  BY <1>17 DEF SyncCounters
<1>18. CASE UpdateStatus
  BY <1>18 DEF UpdateStatus
<1>19. CASE PersistRunSummary
  BY <1>19 DEF PersistRunSummary
<1>20. CASE Respond
  BY <1>20 DEF Respond
<1>21. ASSUME NEW p \in PromptsOf("confirm"), NEW decision \in {"yes", "no"},
             Confirm(p, decision)
      PROVE  CancelWasAsked'
  BY <1>21 DEF Confirm, PromptsOf
<1>22. CASE RequestCancel
  BY <1>22 DEF RequestCancel
<1>23. CASE Over \/ UNCHANGED vars
  BY <1>23 DEF Over, vars
<1> QED
  BY <1>1, <1>2, <1>3, <1>4, <1>5, <1>6, <1>7, <1>8, <1>9, <1>10, <1>11, <1>12,
     <1>13, <1>14, <1>15, <1>16, <1>17, <1>18, <1>19, <1>20, <1>21, <1>22, <1>23
     DEF Next, LoopStep, HandlerStep

LEMMA ApprovalStep == ASSUME IInv, [Next]_vars PROVE ApprovalsCover'
<1> USE DEF IInv, TypeOK, ApprovalsCover, UnspentApproval,
            loopVars, taskVars, mentorVars, confirmVars, cancelVars
<1>1. CASE Preflight
  BY <1>1 DEF Preflight, Leave
<1>2. CASE LoopTop
  BY <1>2 DEF LoopTop, Leave
<1>3. CASE LlmFails
  BY <1>3 DEF LlmFails, Leave
<1>4. CASE LlmAnswers
  BY <1>4 DEF LlmAnswers, Leave, HandlePlan
<1>5. CASE OpenQuestion
  BY <1>5 DEF OpenQuestion
<1>6. CASE MentorAnswered
  BY <1>6 DEF MentorAnswered
<1>7. CASE MentorCancelled
  BY <1>7 DEF MentorCancelled, Leave
<1>8. CASE Resume
  BY <1>8 DEF Resume
<1>9. CASE HandleInline
  BY <1>9 DEF HandleInline
<1>10. CASE CheckPolicy \/ StartTool
  BY <1>10 DEF CheckPolicy, StartTool, NeedsConfirmation
<1>11. CASE AskConfirmation
  BY <1>11 DEF AskConfirmation, NeedsConfirmation
<1>12. CASE OpenGate
  BY <1>12 DEF OpenGate
<1>13. CASE GateAnswered
  BY <1>13 DEF GateAnswered
<1>14. CASE GateCancelled
  BY <1>14 DEF GateCancelled, Leave
<1>15. CASE GateSettled
  BY <1>15 DEF GateSettled
<1>16. CASE ToolReturns
  BY <1>16 DEF ToolReturns
<1>17. CASE SyncCounters
  BY <1>17 DEF SyncCounters
<1>18. CASE UpdateStatus
  BY <1>18 DEF UpdateStatus
<1>19. CASE PersistRunSummary
  BY <1>19 DEF PersistRunSummary
<1>20. CASE Respond
  BY <1>20 DEF Respond
<1>21. ASSUME NEW p \in PromptsOf("confirm"), NEW decision \in {"yes", "no"},
             Confirm(p, decision)
      PROVE  ApprovalsCover'
  BY <1>21 DEF Confirm, PromptsOf
<1>22. CASE RequestCancel
  BY <1>22 DEF RequestCancel
<1>23. CASE Over \/ UNCHANGED vars
  BY <1>23 DEF Over, vars
<1> QED
  BY <1>1, <1>2, <1>3, <1>4, <1>5, <1>6, <1>7, <1>8, <1>9, <1>10, <1>11, <1>12,
     <1>13, <1>14, <1>15, <1>16, <1>17, <1>18, <1>19, <1>20, <1>21, <1>22, <1>23
     DEF Next, LoopStep, HandlerStep

-----------------------------------------------------------------------------

LEMMA InitInv == Init => IInv
<1> SUFFICES ASSUME Init PROVE IInv
  OBVIOUS
<1>1. Flags
  BY Zenon DEF Init, Flags
<1>2. TypeOK
  BY <1>1, MaxTurnsAssumption DEF Init, Flags, TypeOK, PCs, Statuses, Exits, Outcomes
<1>3. StatusFollowsPc /\ ExitChosenOnce /\ OneshotsHold
  BY DEF Init, StatusFollowsPc, ExitChosenOnce, OneshotsHold, Working, Leaving
<1>4. CancelWasAsked /\ ApprovalsCover
  BY DEF Init, CancelWasAsked, ApprovalsCover, UnspentApproval
<1> QED
  BY <1>2, <1>3, <1>4 DEF IInv

LEMMA StepInv == IInv /\ [Next]_vars => IInv'
<1> SUFFICES ASSUME IInv, [Next]_vars PROVE IInv'
  OBVIOUS
<1>1. Flags'
  BY FlagStep DEF IInv, TypeOK, Flags
<1>2. TypeOK'
  BY <1>1, TypeStep DEF IInv, ExitChosenOnce, OneshotsHold, Leaving
<1> QED
  BY <1>2, ControlStep, CancelStep, ApprovalStep DEF IInv

-----------------------------------------------------------------------------
(* The theorems.                                                           *)

\* The inductive invariant: status, program counter, channels and counters of
\* the loop agree in every reachable state.
THEOREM Invariance == Spec => []IInv
  BY InitInv, StepInv, PTL DEF Spec

\* Every variable keeps its type, whatever the model answers and however the
\* handlers interleave with the loop; in particular no run passes its limit.
THEOREM TypeCorrect == Spec => []TypeOK
  BY Invariance, PTL DEF IInv

\* A run waiting for the mentor can always be moved on: the sender, the answer
\* or the cancel that ends the wait is there.
THEOREM NoLostWakeup == Spec => []WaitingIsAnswerable
<1>1. IInv => WaitingIsAnswerable
  BY DEF IInv, TypeOK, StatusFollowsPc, OneshotsHold, ExitStatus, PCs, Waiting,
         WaitingIsAnswerable, Working
<1> QED
  BY <1>1, Invariance, PTL

\* The status says "cancelled" only after a cancel request was acknowledged, and
\* event and record only then or where the model itself chose the word.
THEOREM NoSpuriousCancel == Spec => []CancelledOnlyOnRequest
<1>1. IInv => CancelledOnlyOnRequest
  BY DEF IInv, TypeOK, StatusFollowsPc, ExitChosenOnce, CancelWasAsked, ExitStatus,
         ExitLabels, PCs, Waiting, CancelledOnlyOnRequest, Working, Leaving, Exits
<1> QED
  BY <1>1, Invariance, PTL

\* Confirmation-gated tools run at most once per approval.
THEOREM GatedRunsApproved == Spec => []OneApprovalPerGatedRun
<1>1. IInv => OneApprovalPerGatedRun
  BY DEF IInv, ApprovalsCover, OneApprovalPerGatedRun
<1> QED
  BY <1>1, Invariance, PTL

\* Closing event, status and audit record agree, and appear in that order.
THEOREM OneStory == Spec => []AuditTrailAgrees
<1>1. IInv => AuditTrailAgrees
  BY DEF IInv, TypeOK, StatusFollowsPc, ExitChosenOnce, ExitStatus, PCs, Waiting,
         Terminal, AuditTrailAgrees, Working, Leaving, Exits, ExitLabels
<1> QED
  BY <1>1, Invariance, PTL

\* After an acknowledged cancel the loop starts no further turn.
THEOREM CancelStopsTurns == Spec => NoTurnAfterCancel
<1>1. IInv /\ [Next]_vars => [cancelAsked => turn' = turn]_vars
  <2> SUFFICES ASSUME IInv, [Next]_vars, cancelAsked PROVE turn' = turn
    OBVIOUS
  <2> USE DEF IInv, loopVars, taskVars, mentorVars, confirmVars, cancelVars
  <2>1. CASE LoopTop
    BY <2>1 DEF LoopTop, CancelWasAsked, Leaving
  <2>2. CASE Preflight \/ LlmFails \/ LlmAnswers \/ OpenQuestion \/ MentorAnswered
             \/ MentorCancelled \/ Resume \/ CheckPolicy \/ HandleInline \/ StartTool
    BY <2>2 DEF Preflight, LlmFails, LlmAnswers, OpenQuestion, MentorAnswered,
                MentorCancelled, Resume, CheckPolicy, HandleInline, StartTool
  <2>3. CASE AskConfirmation \/ OpenGate \/ GateAnswered \/ GateCancelled \/ GateSettled
             \/ ToolReturns \/ SyncCounters \/ UpdateStatus \/ PersistRunSummary
    BY <2>3 DEF AskConfirmation, OpenGate, GateAnswered, GateCancelled, GateSettled,
                ToolReturns, SyncCounters, UpdateStatus, PersistRunSummary
  <2>4. CASE HandlerStep \/ Over \/ UNCHANGED vars
    BY <2>4 DEF HandlerStep, Respond, Confirm, RequestCancel, Over, vars
  <2> QED
    BY <2>1, <2>2, <2>3, <2>4 DEF Next, LoopStep
<1> QED
  BY <1>1, Invariance, PTL DEF Spec, NoTurnAfterCancel

-----------------------------------------------------------------------------
(* Refinement: which promise of TaskLifecycle each step makes good.        *)

LEMMA LifecycleInit == Init => Lifecycle!Init
BY DEF Init, Lifecycle!Init

\* Steps the outside world does not see.
LEMMA SilentStep ==
  ASSUME IInv,
         \/ Preflight \/ LoopTop \/ LlmFails \/ LlmAnswers \/ MentorAnswered
         \/ MentorCancelled \/ CheckPolicy \/ HandleInline \/ StartTool
         \/ AskConfirmation \/ GateAnswered \/ GateCancelled \/ ToolReturns \/ SyncCounters
         \/ Over \/ UNCHANGED vars
  PROVE  UNCHANGED Lifecycle!vars
<1> USE DEF IInv, StatusFollowsPc, Working, Leaving, Waiting, Lifecycle!vars,
            loopVars, taskVars, mentorVars, confirmVars, cancelVars
<1>1. CASE Preflight \/ LoopTop \/ LlmFails
  BY <1>1 DEF Preflight, LoopTop, LlmFails, Leave
<1>2. CASE LlmAnswers
  BY <1>2 DEF LlmAnswers
<1>3. CASE MentorAnswered \/ MentorCancelled
  BY <1>3 DEF MentorAnswered, MentorCancelled, Leave
<1>4. CASE CheckPolicy \/ HandleInline \/ StartTool \/ AskConfirmation \/ ToolReturns
             \/ SyncCounters
  BY <1>4 DEF CheckPolicy, HandleInline, StartTool, AskConfirmation, ToolReturns, SyncCounters
<1>5. CASE GateAnswered \/ GateCancelled
  BY <1>5 DEF GateAnswered, GateCancelled, Leave
<1>6. CASE Over \/ UNCHANGED vars
  BY <1>6 DEF Over, vars
<1> QED
  BY <1>1, <1>2, <1>3, <1>4, <1>5, <1>6

LEMMA LifecycleStep ==
  ASSUME IInv, [Next]_vars
  PROVE  [Lifecycle!Next]_(Lifecycle!vars)
<1> USE DEF IInv, Lifecycle!Next, loopVars, taskVars, mentorVars, confirmVars, cancelVars
<1>1. CASE OpenQuestion \/ OpenGate
  BY <1>1 DEF OpenQuestion, OpenGate, StatusFollowsPc, Working, Waiting, Lifecycle!Pause,
              Lifecycle!Waiting
<1>2. CASE Resume
  BY <1>2 DEF Resume, StatusFollowsPc, Lifecycle!Resume, Lifecycle!Waiting
<1>3. CASE GateSettled
  BY <1>3 DEF GateSettled, StatusFollowsPc, OneshotsHold, Lifecycle!Resume, Lifecycle!Waiting
<1>4. CASE UpdateStatus
  <2>1. CASE why = "cancel"
    BY <1>4, <2>1 DEF UpdateStatus, ExitStatus, StatusFollowsPc, ExitChosenOnce, Leaving,
                      CancelWasAsked, Waiting, Lifecycle!Cancel, Lifecycle!Terminal
  <2>2. CASE why # "cancel"
    BY <1>4, <2>2 DEF UpdateStatus, ExitStatus, StatusFollowsPc, ExitChosenOnce, Leaving,
                      Exits, Lifecycle!Conclude
  <2> QED
    BY <2>1, <2>2
<1>5. CASE PersistRunSummary
  BY <1>5 DEF PersistRunSummary, StatusFollowsPc, ExitChosenOnce, Leaving, Exits, ExitStatus, Lifecycle!vars,
              ExitLabels, Lifecycle!WriteRecord, Lifecycle!Terminal, Lifecycle!Labels
<1>6. CASE Respond
  BY <1>6 DEF Respond, OneshotsHold, Lifecycle!Answer, Lifecycle!Waiting, Lifecycle!vars
<1>7. ASSUME NEW p \in PromptsOf("confirm"), NEW decision \in {"yes", "no"},
             Confirm(p, decision)
      PROVE  [Lifecycle!Next]_(Lifecycle!vars)
  BY <1>7 DEF Confirm, OneshotsHold, Lifecycle!Answer, Lifecycle!Waiting, Lifecycle!vars
<1>8. CASE RequestCancel
  BY <1>8 DEF RequestCancel, Terminal, Lifecycle!AskCancel, Lifecycle!Terminal
<1> QED
  BY SilentStep, <1>1, <1>2, <1>3, <1>4, <1>5, <1>6, <1>7, <1>8
     DEF Next, LoopStep, HandlerStep

\* The loop and its handlers implement TaskLifecycle: a run pauses only from
\* Running, goes on only with an answer, is cancelled only on request, and writes
\* at most one audit record, after the end, that fits its final status if it can
\* be read.
THEOREM Implements == Spec => LifecycleSpec
<1>1. IInv /\ [Next]_vars => [Lifecycle!Next]_(Lifecycle!vars)
  BY LifecycleStep
<1> QED
  BY <1>1, LifecycleInit, Invariance, PTL DEF Spec, LifecycleSpec, Lifecycle!Spec

------------------------------------------------------------------------------
(* The calls of ModelCalls. *)

\* Records keep their fields; the council is a sequence.
CallFields == {"op", "pc", "msg", "failed", "shown", "stream", "heard"}
LastFields == {"op", "ok", "by", "reply", "failed", "shown", "msg"}
CouncilFields == {"draft", "crit", "score", "ranked", "phase"}
LoopFields == {"turn", "streak", "seen", "heard", "kinds", "hist", "sent", "newest", "stop"}

CallsTyped ==
  /\ setup \in Setups
  /\ N \in Nat
  /\ DOMAIN call = CallFields
  /\ DOMAIN last = LastFields
  /\ DOMAIN council = CouncilFields
  /\ DOMAIN loop = LoopFields
  /\ strays \in Nat /\ dropped \in Nat

\* A caller makes one call at a time and takes its result before the next;
\* a run that has stopped makes none.
OneCallAtATime ==
  /\ call.pc # "idle" => last.op = "none"
  /\ loop.stop # "no" => call.pc = "idle" /\ last.op = "none"
  /\ council.phase # "off" <=> call.pc = "council"
  /\ call.pc = "council" => call.op = "tools" /\ setup.who \in {"loop", "chat"}

\* The streak counts the idle turns.
StreakIsCounted ==
  /\ loop.kinds \in Seq({"none", "asked", "tools"})
  /\ IsFiniteSet(IdleTurns)
  /\ loop.streak = Cardinality(IdleTurns)
  /\ loop.stop = "no_tools" => loop.streak >= 3

\* Whoever is asked as a fallback is asked because the other has failed.
EgoWasTried ==
  /\ call.pc \in {"check", "safety"} => call.op # "heartbeat"
  /\ call.pc = "classify" => ~FallsBack(call.op)
  /\ call.pc = "ego" /\ call.op = "heartbeat" => "id" \in call.failed
  /\ call.pc = "id" /\ FallsBack(call.op) /\ HasEgo /\ call.op # "heartbeat" => "ego" \in call.failed
  /\ call.pc = "id_last" => {"ego", "id"} \subseteq call.failed

\* The tasks of the council in progress, phase by phase.
TasksOfPhase ==
  /\ council.phase = "off" => council = NoCouncil
  /\ council.phase = "draft" => DOMAIN council.draft = 1 .. N /\ DOMAIN council.crit = {}
  /\ council.phase = "critique" => Running(council.draft) = {} /\ DOMAIN council.crit \subseteq 1 .. N
                                    /\ DOMAIN council.draft = 1 .. N
  /\ council.phase = "synthesis" => Running(council.draft) = {} /\ Running(council.crit) = {}
  /\ council.phase \in {"off", "draft", "critique", "synthesis"}

CallsInv ==
  /\ CallsTyped
  /\ OneCallAtATime
  /\ StreakIsCounted
  /\ EgoWasTried
  /\ TasksOfPhase
  /\ EgoFailureIsCovered
  /\ StraysWereDropped

------------------------------------------------------------------------------
\* An arrangement of a finite set is a sequence.
LEMMA ArrangementIsSeq ==
  ASSUME NEW S, IsFiniteSet(S), NEW s \in SetToSeqs(S)
  PROVE  s \in Seq(S)
  <1>1. Cardinality(S) \in Nat
    BY FS_CardinalityType
  <1>2. s \in [1 .. Cardinality(S) -> S]
    BY DEF SetToSeqs
  <1> QED BY <1>1, <1>2

\* A council has a length.
LEMMA CouncilHasLength ==
  ASSUME NEW keys, NEW pref, NEW m \in CouncilsOf(keys, pref)
  PROVE  Len(m) \in Nat
  <1> DEFINE A == CouncilNames \cap keys
             B == ({NormalName(k) : k \in keys} \cap CouncilNames) \ keys
  <1>1. PICK b \in SetToSeqs(A), t \in SetToSeqs(B) : m = FirstThree(b \o t)
    <2> DEFINE base == {s \in SetToSeqs(A) : \A i \in 1 .. Len(s) - 1 :
                          PlaceOf(s[i], NormalName(pref)) < PlaceOf(s[i + 1], NormalName(pref))}
    <2>1. CouncilsOf(keys, pref) = {FirstThree(b \o t) : b \in base, t \in SetToSeqs(B)}
      BY DEF CouncilsOf
    <2>2. base \subseteq SetToSeqs(A)
      OBVIOUS
    <2> HIDE DEF base, A, B
    <2> QED BY <2>1, <2>2
  <1>2. IsFiniteSet(CouncilNames)
    <2> DEFINE n == <<"openai", "anthropic", "perplexity", "xai", "google">>
    <2>1. IsFiniteSet({"openai"}) /\ IsFiniteSet({"anthropic"}) /\ IsFiniteSet({"perplexity"})
            /\ IsFiniteSet({"xai"}) /\ IsFiniteSet({"google"})
      BY FS_Singleton
    <2>2. IsFiniteSet({"openai"} \cup {"anthropic"})
      BY <2>1, FS_Union
    <2>3. IsFiniteSet({"openai"} \cup {"anthropic"} \cup {"perplexity"})
      BY <2>1, <2>2, FS_Union
    <2>4. IsFiniteSet({"openai"} \cup {"anthropic"} \cup {"perplexity"} \cup {"xai"})
      BY <2>1, <2>3, FS_Union
    <2>5. IsFiniteSet({"openai"} \cup {"anthropic"} \cup {"perplexity"} \cup {"xai"} \cup {"google"})
      BY <2>1, <2>4, FS_Union
    <2>6. CouncilNames = {"openai"} \cup {"anthropic"} \cup {"perplexity"} \cup {"xai"} \cup {"google"}
      BY DEF CouncilNames
    <2> QED BY <2>5, <2>6
  <1>3. A \in SUBSET CouncilNames /\ B \in SUBSET CouncilNames
    OBVIOUS
  <1>4. IsFiniteSet(A) /\ IsFiniteSet(B)
    BY <1>2, <1>3, FS_Subset
  <1>5. b \in Seq(A) /\ t \in Seq(B)
    BY <1>4, ArrangementIsSeq
  <1>6. b \o t \in Seq(A \cup B)
    BY <1>5
  <1>7. \A s \in Seq(A \cup B) : FirstThree(s) \in Seq(A \cup B)
    BY DEF FirstThree
  <1> HIDE DEF A, B
  <1>8. m \in Seq(A \cup B)
    BY <1>1, <1>6, <1>7
  <1> QED BY <1>8

LEMMA CallsInitInv == CallsInit => CallsInv
  <1> SUFFICES ASSUME CallsInit PROVE CallsInv
    OBVIOUS
  <1> USE DEF CallsInit
  <1>1. CallsTyped
    <2>1. N \in Nat
      BY CouncilHasLength DEF N
    <2> QED BY <2>1 DEF CallsTyped, NoCall, NoResult, NoCouncil, NewLoop, CallFields, LastFields,
                        CouncilFields, LoopFields
  <1>2. OneCallAtATime
    BY DEF OneCallAtATime, NoCall, NoResult, NoCouncil, NewLoop
  <1>3. StreakIsCounted
    <2>1. loop.kinds = << >> /\ loop.streak = 0 /\ loop.stop = "no"
      BY DEF NewLoop
    <2>2. IdleTurns = {}
      BY <2>1 DEF IdleTurns
    <2> QED BY <2>1, <2>2, FS_EmptySet DEF StreakIsCounted
  <1>4. EgoWasTried
    BY DEF EgoWasTried, NoCall
  <1>5. TasksOfPhase
    BY DEF TasksOfPhase, NoCouncil
  <1>6. EgoFailureIsCovered
    BY DEF EgoFailureIsCovered, NoResult
  <1>7. StraysWereDropped
    BY <1>1 DEF StraysWereDropped, CallsTyped
  <1> QED BY <1>1, <1>2, <1>3, <1>4, <1>5, <1>6, <1>7 DEF CallsInv

------------------------------------------------------------------------------
\* What a routed call starts with.
Routable(c) ==
  /\ DOMAIN c = CallFields
  /\ c.pc \in {"check", "classify", "ego", "id"}
  /\ c.failed = {} /\ c.shown = << >> /\ c.stream = NoStream
  /\ c.pc \in {"check", "ego"} => c.op # "heartbeat"
  /\ c.pc = "classify" => ~FallsBack(c.op)
  /\ c.pc = "id" /\ FallsBack(c.op) /\ HasEgo => c.op = "heartbeat"

LEMMA RoutedIsSound ==
  ASSUME NEW op, op # "heartbeat"
  PROVE  /\ Routed(op) \in {"classify", "ego", "id"}
         /\ Routed(op) = "classify" => ~FallsBack(op)
         /\ Routed(op) = "id" => ~FallsBack(op) \/ ~HasEgo
  BY DEF Routed, FallsBack

LEMMA StartedCall ==
  ASSUME NEW op, NEW msg, NEW next, Start(op, msg, next)
  PROVE  /\ DOMAIN call' = CallFields
         /\ call'.op = op /\ call'.pc = next
         /\ call'.failed = {} /\ call'.shown = << >> /\ call'.stream = NoStream
  BY DEF Start, NoCall, CallFields

LEMMA RouteStarts ==
  ASSUME NEW op, NEW msg, Route(op, msg)
  PROVE  Routable(call') /\ call'.op = op
  <1> DEFINE next == IF Checked(op, msg) THEN "check"
                   ELSE IF op = "heartbeat" THEN "id" ELSE Routed(op)
  <1>1. Start(op, msg, next)
    BY DEF Route
  <1>2. next \in {"check", "classify", "ego", "id"}
    BY RoutedIsSound
  <1>3. next \in {"check", "ego"} => op # "heartbeat"
    BY RoutedIsSound DEF Checked
  <1>4. next = "classify" => ~FallsBack(op)
    BY RoutedIsSound
  <1>5. next = "id" /\ FallsBack(op) /\ HasEgo => op = "heartbeat"
    BY RoutedIsSound
  <1> HIDE DEF next
  <1> QED BY <1>1, <1>2, <1>3, <1>4, <1>5, StartedCall DEF Routable

\* What a finished call leaves.
LEMMA Finished ==
  ASSUME NEW ok, NEW by, NEW reply, NEW shown, Finish(ok, by, reply, shown)
  PROVE  /\ call' = NoCall /\ DOMAIN last' = LastFields
         /\ last'.op = call.op /\ last'.ok = ok /\ last'.by = by
         /\ last'.reply = reply /\ last'.failed = call.failed /\ last'.shown = shown
  BY DEF Finish, LastFields

------------------------------------------------------------------------------
\* Nothing but the call and its result changes.
Beside == UNCHANGED <<setup, ego, members, council, strays, dropped, loop>>

\* A call in progress that goes on keeps the invariant.
LEMMA CallGoesOn ==
  ASSUME CallsInv, Beside, UNCHANGED last,
         call.pc \notin {"idle", "council"}, call'.pc \notin {"idle", "council"},
         DOMAIN call' = CallFields, EgoWasTried'
  PROVE  CallsInv'
  <1> USE DEF CallsInv, Beside
  <1>1. CallsTyped'
    BY DEF CallsTyped, N
  <1>2. OneCallAtATime'
    BY DEF OneCallAtATime
  <1>3. StreakIsCounted'
    BY DEF StreakIsCounted, IdleTurns
  <1>4. TasksOfPhase'
    BY DEF TasksOfPhase, N, Running
  <1>5. EgoFailureIsCovered'
    BY DEF EgoFailureIsCovered, FallsBack, HasEgo
  <1>6. StraysWereDropped'
    BY DEF StraysWereDropped, N
  <1> QED BY <1>1, <1>2, <1>3, <1>4, <1>5, <1>6

\* A call in progress that ends keeps it, if a failure is covered.
LEMMA CallComesToAnEnd ==
  ASSUME CallsInv, Beside, call' = NoCall,
         call.pc \notin {"idle", "council"},
         DOMAIN last' = LastFields, EgoFailureIsCovered'
  PROVE  CallsInv'
  <1> USE DEF CallsInv, Beside
  <1>1. CallsTyped'
    BY DEF CallsTyped, N, NoCall, CallFields
  <1>2. OneCallAtATime'
    BY DEF OneCallAtATime, NoCall
  <1>3. StreakIsCounted'
    BY DEF StreakIsCounted, IdleTurns
  <1>4. EgoWasTried'
    BY DEF EgoWasTried, NoCall
  <1>5. TasksOfPhase'
    BY DEF TasksOfPhase, N, Running
  <1>6. StraysWereDropped'
    BY DEF StraysWereDropped, N
  <1> QED BY <1>1, <1>2, <1>3, <1>4, <1>5, <1>6

\* An answer ends a call without anything to cover.
LEMMA CallIsAnswered ==
  ASSUME CallsInv, Beside, call.pc \notin {"idle", "council"},
         NEW by, NEW reply, NEW shown, Finish(TRUE, by, reply, shown)
  PROVE  CallsInv'
  <1>1. /\ call' = NoCall
        /\ DOMAIN last' = LastFields
        /\ last'.ok = TRUE
    BY Finished
  <1>2. EgoFailureIsCovered'
    BY <1>1 DEF EgoFailureIsCovered
  <1> QED BY <1>1, <1>2, CallComesToAnEnd

\* What a call asks after the checks.
LEMMA PastTheChecks ==
  ASSUME CallsInv, Beside, call.pc \in {"check", "safety"},
         call' = [call EXCEPT !.pc = Routed(call.op)], UNCHANGED last
  PROVE  CallsInv'
  <1>1. /\ DOMAIN call = CallFields
        /\ call.op # "heartbeat"
    BY DEF CallsInv, CallsTyped, EgoWasTried
  <1>2. /\ call'.pc = Routed(call.op) /\ call'.op = call.op /\ DOMAIN call' = CallFields
    BY <1>1 DEF CallFields
  <1>3. EgoWasTried'
    BY <1>1, <1>2, RoutedIsSound DEF EgoWasTried, FallsBack, HasEgo, Beside
  <1> QED BY <1>2, <1>3, <1>1, RoutedIsSound, CallGoesOn

LEMMA PrecheckKeeps ==
  ASSUME CallsInv, RunSuperegoPrecheck
  PROVE  CallsInv'
  <1> DEFINE code == CheckUserMessage(call.msg)
  <1>0. Beside /\ call.pc = "check"
    BY DEF RunSuperegoPrecheck, Beside
  <1>1. CASE code # "ALLOW"
    <2>1. Deny(code)
      BY <1>1 DEF RunSuperegoPrecheck
    <2> QED BY <2>1, <1>0, CallIsAnswered DEF Deny
  <1>2. CASE code = "ALLOW" /\ AsksL2(setup.l2, HasSuperego, call.msg)
    <2>1. call' = [call EXCEPT !.pc = "safety"] /\ UNCHANGED last
      BY <1>2 DEF RunSuperegoPrecheck
    <2>2. /\ DOMAIN call' = CallFields /\ call'.pc = "safety" /\ call'.op = call.op
      BY <2>1 DEF CallsInv, CallsTyped, CallFields
    <2>3. EgoWasTried'
      BY <1>0, <2>2 DEF CallsInv, EgoWasTried
    <2> QED BY <1>0, <2>1, <2>2, <2>3, CallGoesOn
  <1>3. CASE code = "ALLOW" /\ ~AsksL2(setup.l2, HasSuperego, call.msg)
    <2>1. call' = [call EXCEPT !.pc = Routed(call.op)] /\ UNCHANGED last
      BY <1>3 DEF RunSuperegoPrecheck
    <2> QED BY <1>0, <2>1, PastTheChecks
  <1> QED BY <1>1, <1>2, <1>3

LEMMA SecondCheckKeeps ==
  ASSUME CallsInv, SuperegoAnswers
  PROVE  CallsInv'
  <1>0. Beside /\ call.pc = "safety"
    BY DEF SuperegoAnswers, Beside
  <1>1. PICK reply \in L2Replies :
          IF L2Verdict(setup.l2, reply) \in Codes THEN Deny(reply)
          ELSE call' = [call EXCEPT !.pc = Routed(call.op)] /\ UNCHANGED last
    BY DEF SuperegoAnswers
  <1>2. CASE Deny(reply)
    BY <1>0, <1>2, CallIsAnswered DEF Deny
  <1>3. CASE call' = [call EXCEPT !.pc = Routed(call.op)] /\ UNCHANGED last
    BY <1>0, <1>3, PastTheChecks
  <1> QED BY <1>1, <1>2, <1>3

LEMMA ClassifyKeeps ==
  ASSUME CallsInv, Classify
  PROVE  CallsInv'
  <1>0. /\ Beside /\ call.pc = "classify" /\ ~FallsBack(call.op) /\ call.op # "heartbeat"
    BY DEF Classify, Beside, CallsInv, EgoWasTried, FallsBack
  <1>1. CASE Finish(FALSE, "classify", Failure, << >>)
    <2>1. call' = NoCall /\ DOMAIN last' = LastFields /\ last'.op = call.op
      BY <1>1, Finished
    <2>2. EgoFailureIsCovered'
      BY <2>1, <1>0 DEF EgoFailureIsCovered, FallsBack, Beside
    <2> QED BY <1>0, <2>1, <2>2, CallComesToAnEnd
  <1>2. ASSUME NEW complex \in BOOLEAN, UNCHANGED last,
               call' = [call EXCEPT !.pc = IF complex /\ HasEgo THEN "ego" ELSE "id"]
        PROVE  CallsInv'
    <2>1. /\ DOMAIN call' = CallFields /\ call'.pc \in {"ego", "id"} /\ call'.op = call.op
      BY <1>2 DEF CallsInv, CallsTyped, CallFields
    <2>2. EgoWasTried'
      BY <1>0, <2>1 DEF EgoWasTried, FallsBack, Beside
    <2> QED BY <1>0, <1>2, <2>1, <2>2, CallGoesOn
  <1> QED BY <1>1, <1>2 DEF Classify

LEMMA AnsweredKeeps ==
  ASSUME CallsInv, NEW p \in {"ego", "id"}, Answered(p)
  PROVE  CallsInv'
  <1>1. Beside /\ call.pc \notin {"idle", "council"}
    BY DEF Answered, Asking, Beside
  <1>2. PICK reply, shown : Finish(TRUE, p, reply, shown)
    BY DEF Answered
  <1> QED BY <1>1, <1>2, CallIsAnswered

LEMMA StreamEndsKeeps ==
  ASSUME CallsInv, NEW p \in {"ego", "id"}, StreamEnds(p)
  PROVE  CallsInv'
  <1>1. Beside /\ call.pc \notin {"idle", "council"}
    BY DEF StreamEnds, Beside
  <1>2. PICK reply, shown : Finish(TRUE, p, reply, shown)
    BY DEF StreamEnds
  <1> QED BY <1>1, <1>2, CallIsAnswered

LEMMA StreamChunkKeeps ==
  ASSUME CallsInv, NEW p \in {"ego", "id"}, StreamChunk(p)
  PROVE  CallsInv'
  <1>1. Beside /\ call.pc \notin {"idle", "council"} /\ UNCHANGED last /\ call.pc = p
    BY DEF StreamChunk, Beside
  <1>2. PICK n, s, t : call' = [call EXCEPT !.heard = n, !.stream = s, !.shown = t]
    <2>1. PICK e \in Events :
            call' = [call EXCEPT
              !.heard = @ + 1,
              !.stream = StreamEvent(Client(p), @, e),
              !.shown = IF e.kind = "text" /\ ~HeldBack(p) THEN @ \o Words(<<e.value>>, p) ELSE @]
      BY DEF StreamChunk
    <2> QED BY <2>1, Zenon
  <1>3. /\ DOMAIN call' = CallFields
        /\ call'.pc = call.pc /\ call'.op = call.op /\ call'.failed = call.failed
    BY <1>2 DEF CallsInv, CallsTyped, CallFields
  <1>4. EgoWasTried'
    BY <1>1, <1>3 DEF CallsInv, EgoWasTried, FallsBack, HasEgo, Beside
  <1> QED BY <1>1, <1>3, <1>4, CallGoesOn

\* A failure is passed on or ends the call; either way it is on record.
LEMMA FailedKeeps ==
  ASSUME CallsInv, NEW p \in {"ego", "id"}, Failed(p)
  PROVE  CallsInv'
  <1>1. /\ Beside /\ Asking(p) /\ DOMAIN call = CallFields /\ EgoWasTried
        /\ call.pc \notin {"idle", "council"}
    BY DEF Failed, Asking, Beside, CallsInv, CallsTyped
  <1>2. CASE Next1(p) = "error"
    <2>1. /\ call' = NoCall
          /\ last' = [NoResult EXCEPT !.op = call.op, !.ok = FALSE, !.by = p, !.reply = Failure,
                        !.failed = call.failed \cup {p}, !.shown = call.shown, !.msg = call.msg]
      BY <1>1, <1>2 DEF Failed, CallFields
    <2>2. /\ DOMAIN last' = LastFields
          /\ last'.op = call.op /\ last'.failed = call.failed \cup {p}
      BY <2>1 DEF NoResult, LastFields
    <2>3. FallsBack(call.op) => "id" \in call.failed \cup {p}
                                  /\ (HasEgo => "ego" \in call.failed \cup {p})
      <3>1. CASE call.op = "heartbeat"
        BY <3>1, <1>1, <1>2 DEF Next1, Asking, EgoWasTried, FallsBack
      <3>2. CASE call.op # "heartbeat" /\ p = "ego"
        BY <3>2, <1>2 DEF Next1
      <3>3. CASE call.op # "heartbeat" /\ p = "id"
        BY <3>3, <1>1 DEF Asking, EgoWasTried
      <3> QED BY <3>1, <3>2, <3>3
    <2>4. EgoFailureIsCovered'
      BY <1>1, <2>2, <2>3 DEF EgoFailureIsCovered, FallsBack, HasEgo, Beside
    <2> QED BY <1>1, <2>1, <2>2, <2>4, CallComesToAnEnd
  <1>3. CASE Next1(p) # "error"
    <2>1. /\ call' = [call EXCEPT !.failed = call.failed \cup {p}, !.stream = NoStream,
                                  !.heard = 0, !.pc = Next1(p)]
          /\ UNCHANGED last
      BY <1>1, <1>3 DEF Failed, CallFields
    <2>2. /\ DOMAIN call' = CallFields
          /\ call'.op = call.op /\ call'.failed = call.failed \cup {p} /\ call'.pc = Next1(p)
      BY <1>1, <2>1 DEF CallFields
    <2>3. Next1(p) \in {"ego", "id", "id_last"}
      BY <1>3 DEF Next1
    <2>4. EgoWasTried'
      BY <1>1, <1>3, <2>2, <2>3 DEF EgoWasTried, Next1, FallsBack, HasEgo, Beside, Asking
    <2> QED BY <1>1, <2>1, <2>2, <2>3, <2>4, CallGoesOn
  <1> QED BY <1>2, <1>3

LEMMA ProviderKeeps ==
  ASSUME CallsInv, ProviderStep
  PROVE  CallsInv'
  BY AnsweredKeeps, StreamEndsKeeps, StreamChunkKeeps, FailedKeeps DEF ProviderStep

------------------------------------------------------------------------------
\* The tasks still at work are at most one for each member.
LEMMA RunningIsBounded ==
  ASSUME NEW n \in Nat, NEW tasks, DOMAIN tasks \subseteq 1 .. n
  PROVE  /\ IsFiniteSet(Running(tasks))
         /\ Cardinality(Running(tasks)) \in 0 .. n
  <1>1. IsFiniteSet(1 .. n) /\ Cardinality(1 .. n) = n
    BY FS_Interval
  <1>2. Running(tasks) \in SUBSET (1 .. n)
    BY DEF Running
  <1>3. IsFiniteSet(Running(tasks)) /\ Cardinality(Running(tasks)) <= n
    BY <1>1, <1>2, FS_Subset
  <1>4. Cardinality(Running(tasks)) \in Nat
    BY <1>3, FS_CardinalityType
  <1> QED BY <1>3, <1>4

LEMMA UnfinishedIsBounded ==
  ASSUME CallsInv
  PROVE  Unfinished \in 0 .. N
  <1>0. N \in Nat
    BY DEF CallsInv, CallsTyped
  <1>1. Cardinality({}) = 0
    BY FS_EmptySet
  <1>2. CASE council.phase = "off"
    <2>1. Running(council.draft) = {} /\ Running(council.crit) = {}
      BY <1>2 DEF CallsInv, TasksOfPhase, NoCouncil, Running
    <2> QED BY <1>0, <1>1, <2>1 DEF Unfinished
  <1>3. CASE council.phase = "draft"
    <2>1. DOMAIN council.draft \subseteq 1 .. N /\ Running(council.crit) = {}
      BY <1>3 DEF CallsInv, TasksOfPhase, Running
    <2> QED BY <1>0, <1>1, <2>1, RunningIsBounded DEF Unfinished
  <1>4. CASE council.phase = "critique"
    <2>1. DOMAIN council.crit \subseteq 1 .. N /\ Running(council.draft) = {}
      BY <1>4 DEF CallsInv, TasksOfPhase
    <2> QED BY <1>0, <1>1, <2>1, RunningIsBounded DEF Unfinished
  <1>5. CASE council.phase = "synthesis"
    <2>1. Running(council.draft) = {} /\ Running(council.crit) = {}
      BY <1>5 DEF CallsInv, TasksOfPhase
    <2> QED BY <1>0, <1>1, <2>1 DEF Unfinished
  <1> QED BY <1>2, <1>3, <1>4, <1>5 DEF CallsInv, TasksOfPhase

\* A council that goes on, phase by phase, keeps the invariant.
LEMMA CouncilGoesOn ==
  ASSUME CallsInv, council.phase # "off",
         UNCHANGED <<setup, ego, members, call, last, strays, dropped, loop>>,
         DOMAIN council' = CouncilFields, council'.phase # "off", TasksOfPhase'
  PROVE  CallsInv'
  <1> USE DEF CallsInv
  <1>1. CallsTyped'
    BY DEF CallsTyped, N
  <1>2. OneCallAtATime'
    BY DEF OneCallAtATime
  <1>3. StreakIsCounted'
    BY DEF StreakIsCounted, IdleTurns
  <1>4. EgoWasTried'
    BY DEF EgoWasTried, FallsBack, HasEgo
  <1>5. EgoFailureIsCovered'
    BY DEF EgoFailureIsCovered, FallsBack, HasEgo
  <1>6. StraysWereDropped'
    BY DEF StraysWereDropped, N
  <1> QED BY <1>1, <1>2, <1>3, <1>4, <1>5, <1>6

\* What a started call satisfies.
LEMMA RoutableWasTried ==
  ASSUME Routable(call'), UNCHANGED <<setup, ego>>
  PROVE  EgoWasTried'
  BY DEF Routable, EgoWasTried, FallsBack, HasEgo

\* The call of a council goes to the router: the synthesis is a user message
\* there, or the council came to nothing.
LEMMA CouncilIsLeft ==
  ASSUME CallsInv, council.phase # "off", NEW msg, Route("tools", msg),
         UNCHANGED <<setup, ego, members, last>>, council' = NoCouncil,
         DOMAIN loop' = LoopFields, loop'.stop = loop.stop,
         loop'.kinds = loop.kinds, loop'.streak = loop.streak,
         strays' \in Nat, dropped' \in Nat, strays' <= dropped' * N
  PROVE  CallsInv'
  <1> USE DEF CallsInv
  <1>0. Routable(call') /\ call'.op = "tools"
    BY RouteStarts
  <1>1. CallsTyped'
    BY <1>0 DEF CallsTyped, N, NoCouncil, CouncilFields, Routable
  <1>2. OneCallAtATime'
    BY <1>0 DEF OneCallAtATime, NoCouncil, Routable
  <1>3. StreakIsCounted'
    BY DEF StreakIsCounted, IdleTurns
  <1>4. EgoWasTried'
    BY <1>0, RoutableWasTried
  <1>5. EgoFailureIsCovered'
    BY DEF EgoFailureIsCovered, FallsBack, HasEgo
  <1>6. StraysWereDropped'
    BY DEF StraysWereDropped, N
  <1>7. TasksOfPhase'
    BY DEF TasksOfPhase, NoCouncil
  <1> QED BY <1>1, <1>2, <1>3, <1>4, <1>5, <1>6, <1>7

LEMMA DraftEndsKeeps ==
  ASSUME CallsInv, DraftEnds
  PROVE  CallsInv'
  <1>1. PICK i \in Running(council.draft), r \in {"ok", "failed"} :
          council' = [council EXCEPT !.draft[i] = r]
    BY DEF DraftEnds
  <1>2. /\ DOMAIN council' = CouncilFields /\ council'.phase = "draft"
        /\ DOMAIN council'.draft = DOMAIN council.draft /\ council'.crit = council.crit
    BY <1>1 DEF DraftEnds, CallsInv, CallsTyped, CouncilFields
  <1>3. TasksOfPhase'
    BY <1>2 DEF DraftEnds, CallsInv, TasksOfPhase, N
  <1> QED BY <1>2, <1>3, CouncilGoesOn DEF DraftEnds

LEMMA DraftsJoinedKeeps ==
  ASSUME CallsInv, DraftsJoined
  PROVE  CallsInv'
  <1>1. CASE Drafts = {}
    BY <1>1, CouncilIsLeft DEF DraftsJoined, FallBackToRoute, CallsInv, CallsTyped, StraysWereDropped
  <1>2. CASE Drafts # {}
    <2>1. council' = [council EXCEPT !.phase = "critique", !.crit = [i \in Drafts |-> "running"]]
      BY <1>2 DEF DraftsJoined
    <2>2. /\ DOMAIN council' = CouncilFields /\ council'.phase = "critique"
          /\ council'.draft = council.draft /\ DOMAIN council'.crit = Drafts
      BY <2>1 DEF CallsInv, CallsTyped, CouncilFields
    <2>3. TasksOfPhase'
      BY <2>2 DEF DraftsJoined, Drafts, CallsInv, TasksOfPhase, N, Running
    <2> QED BY <1>2, <2>2, <2>3, CouncilGoesOn DEF DraftsJoined
  <1> QED BY <1>1, <1>2

LEMMA CritiqueEndsKeeps ==
  ASSUME CallsInv, CritiqueEnds
  PROVE  CallsInv'
  <1>1. PICK i, f :
          council' = [council EXCEPT !.crit[i] = "ok", !.score = f]
    <2>1. PICK i \in Running(council.crit), score \in Scores :
            council' = [council EXCEPT !.crit[i] = "ok",
                          !.score = [j \in DOMAIN @ \cup {i} |-> IF j = i THEN score ELSE @[j]]]
      BY DEF CritiqueEnds
    <2> QED BY <2>1, Zenon
  <1>2. /\ DOMAIN council' = CouncilFields /\ council'.phase = "critique"
        /\ council'.draft = council.draft /\ DOMAIN council'.crit = DOMAIN council.crit
    BY <1>1 DEF CritiqueEnds, CallsInv, CallsTyped, CouncilFields
  <1>3. TasksOfPhase'
    BY <1>2 DEF CritiqueEnds, CallsInv, TasksOfPhase, N, Running
  <1> QED BY <1>2, <1>3, CouncilGoesOn DEF CritiqueEnds

LEMMA CritiquesJoinedKeeps ==
  ASSUME CallsInv, CritiquesJoined
  PROVE  CallsInv'
  <1>1. council' = [council EXCEPT !.phase = "synthesis", !.ranked = Ranking]
    BY DEF CritiquesJoined
  <1>2. /\ DOMAIN council' = CouncilFields /\ council'.phase = "synthesis"
        /\ council'.draft = council.draft /\ council'.crit = council.crit
    BY <1>1 DEF CallsInv, CallsTyped, CouncilFields
  <1>3. TasksOfPhase'
    BY <1>2 DEF CritiquesJoined, CallsInv, TasksOfPhase, Running
  <1> QED BY <1>2, <1>3, CouncilGoesOn DEF CritiquesJoined

LEMMA SynthesisedKeeps ==
  ASSUME CallsInv, Synthesised
  PROVE  CallsInv'
  <1> USE DEF Synthesised
  <1>1. CASE setup.who # "chat"
    <2>1. PICK plan \in Messages : Route("tools", plan)
      BY <1>1
    <2>2. loop' = [loop EXCEPT !.sent = Sent(Append(loop.hist, Plan))]
      BY <1>1
    <2>3. /\ DOMAIN loop' = LoopFields /\ loop'.stop = loop.stop
          /\ loop'.kinds = loop.kinds /\ loop'.streak = loop.streak
      BY <2>2 DEF CallsInv, CallsTyped, LoopFields
    <2> QED BY <1>1, <2>1, <2>3, CouncilIsLeft DEF CallsInv, CallsTyped, StraysWereDropped
  <1>2. CASE setup.who = "chat"
    <2>1. PICK a : Finish(TRUE, "council", a, << >>)
      BY <1>2
    <2>2. call' = NoCall /\ DOMAIN last' = LastFields /\ last'.ok
      BY <2>1, Finished
    <2> USE DEF CallsInv
    <2>3. CallsTyped'
      BY <2>2 DEF CallsTyped, N, NoCouncil, NoCall, CouncilFields, CallFields
    <2>4. OneCallAtATime'
      BY <2>2 DEF OneCallAtATime, NoCall, NoCouncil
    <2>5. StreakIsCounted'
      BY <1>2 DEF StreakIsCounted, IdleTurns
    <2>6. EgoWasTried'
      BY <2>2 DEF EgoWasTried, NoCall
    <2>7. TasksOfPhase'
      BY DEF TasksOfPhase, NoCouncil
    <2>8. EgoFailureIsCovered'
      BY <2>2 DEF EgoFailureIsCovered
    <2>9. StraysWereDropped'
      BY DEF StraysWereDropped, N
    <2> QED BY <2>3, <2>4, <2>5, <2>6, <2>7, <2>8, <2>9
  <1> QED BY <1>1, <1>2

\* A dropped council turns every task still at work into a stray, and counts
\* once.
LEMMA StraysAreCounted ==
  ASSUME CallsInv, strays' = strays + Unfinished, dropped' = dropped + 1
  PROVE  strays' \in Nat /\ dropped' \in Nat /\ strays' <= dropped' * N
  <1>1. Unfinished \in 0 .. N /\ N \in Nat /\ strays \in Nat /\ dropped \in Nat /\ strays <= dropped * N
    BY UnfinishedIsBounded DEF CallsInv, CallsTyped, StraysWereDropped
  <1>2. (dropped + 1) * N = dropped * N + N
    BY <1>1
  <1>3. dropped * N \in Nat
    BY <1>1
  <1> QED BY <1>1, <1>2, <1>3

LEMMA CouncilTimeoutKeeps ==
  ASSUME CallsInv, CouncilTimeout
  PROVE  CallsInv'
  <1>1. strays' \in Nat /\ dropped' \in Nat /\ strays' <= dropped' * N
    BY StraysAreCounted DEF CouncilTimeout
  <1>2. council.phase # "off" /\ DOMAIN loop' = LoopFields
    BY DEF CouncilTimeout, CallsInv, CallsTyped, OneCallAtATime
  <1> QED BY <1>1, <1>2, CouncilIsLeft DEF CouncilTimeout, FallBackToRoute

LEMMA ClientLeavesKeeps ==
  ASSUME CallsInv, ClientLeaves
  PROVE  CallsInv'
  <1> USE DEF CallsInv, ClientLeaves
  <1>0. strays' \in Nat /\ dropped' \in Nat /\ strays' <= dropped' * N
    <2>1. CASE call.pc = "council"
      BY <2>1, StraysAreCounted
    <2>2. CASE call.pc # "council"
      <3>1. Running(council.draft) = {} /\ Running(council.crit) = {}
        BY <2>2 DEF OneCallAtATime, TasksOfPhase, NoCouncil, Running
      <3>2. strays' = strays /\ dropped' = dropped
        BY <2>2, <3>1, FS_EmptySet DEF Unfinished, CallsTyped
      <3> QED BY <3>2 DEF CallsTyped, StraysWereDropped
    <2> QED BY <2>1, <2>2
  <1>1. CallsTyped'
    BY <1>0 DEF CallsTyped, N, NoCouncil, NoCall, CouncilFields, CallFields
  <1>2. OneCallAtATime'
    BY DEF OneCallAtATime, NoCall, NoCouncil
  <1>3. StreakIsCounted'
    BY DEF StreakIsCounted, IdleTurns
  <1>4. EgoWasTried'
    BY DEF EgoWasTried, NoCall
  <1>5. TasksOfPhase'
    BY DEF TasksOfPhase, NoCouncil
  <1>6. EgoFailureIsCovered'
    BY DEF EgoFailureIsCovered, FallsBack, HasEgo
  <1>7. StraysWereDropped'
    BY <1>0 DEF StraysWereDropped, N
  <1> QED BY <1>1, <1>2, <1>3, <1>4, <1>5, <1>6, <1>7

LEMMA CouncilKeeps ==
  ASSUME CallsInv, CouncilStep
  PROVE  CallsInv'
  <1>1. CASE SynthesisFails
    BY <1>1, CouncilIsLeft DEF SynthesisFails, FallBackToRoute, CallsInv, CallsTyped, StraysWereDropped
  <1> QED BY <1>1, DraftEndsKeeps, DraftsJoinedKeeps, CritiqueEndsKeeps, CritiquesJoinedKeeps,
             SynthesisedKeeps, CouncilTimeoutKeeps DEF CouncilStep

LEMMA StrayEndsKeeps ==
  ASSUME CallsInv, StrayEnds
  PROVE  CallsInv'
  <1> USE DEF CallsInv, StrayEnds
  <1>1. CallsTyped'
    BY DEF CallsTyped, N
  <1>2. OneCallAtATime'
    BY DEF OneCallAtATime
  <1>3. StreakIsCounted'
    BY DEF StreakIsCounted, IdleTurns
  <1>4. EgoWasTried'
    BY DEF EgoWasTried, FallsBack, HasEgo
  <1>5. EgoFailureIsCovered'
    BY DEF EgoFailureIsCovered, FallsBack, HasEgo
  <1>6. StraysWereDropped'
    <2>1. dropped * N \in Nat
      BY DEF CallsTyped
    <2> QED BY <2>1 DEF StraysWereDropped, CallsTyped, N
  <1>7. TasksOfPhase'
    BY DEF TasksOfPhase, N, Running
  <1> QED BY <1>1, <1>2, <1>3, <1>4, <1>5, <1>6, <1>7

------------------------------------------------------------------------------
\* A caller starts a call when the last one is done.
LEMMA CallBegins ==
  ASSUME CallsInv, call.pc = "idle", last.op = "none", loop.stop = "no",
         UNCHANGED <<setup, ego, members, last, council, strays, dropped>>,
         DOMAIN loop' = LoopFields, loop'.stop = "no",
         loop'.kinds = loop.kinds, loop'.streak = loop.streak,
         NEW op, NEW msg, Route(op, msg)
  PROVE  CallsInv'
  <1> USE DEF CallsInv
  <1>0. Routable(call')
    BY RouteStarts
  <1>1. CallsTyped'
    BY <1>0 DEF CallsTyped, N, Routable
  <1>2. OneCallAtATime'
    BY <1>0 DEF OneCallAtATime, Routable
  <1>3. StreakIsCounted'
    BY DEF StreakIsCounted, IdleTurns
  <1>4. EgoWasTried'
    BY <1>0, RoutableWasTried
  <1>5. EgoFailureIsCovered'
    BY DEF EgoFailureIsCovered
  <1>6. StraysWereDropped'
    BY DEF StraysWereDropped, N
  <1>7. TasksOfPhase'
    BY DEF TasksOfPhase, N, Running
  <1> QED BY <1>1, <1>2, <1>3, <1>4, <1>5, <1>6, <1>7

LEMMA CouncilBegins ==
  ASSUME CallsInv, call.pc = "idle", last.op = "none", loop.stop = "no",
         UNCHANGED <<setup, ego, members, last, strays, dropped>>,
         DOMAIN loop' = LoopFields, loop'.stop = "no",
         loop'.kinds = loop.kinds, loop'.streak = loop.streak,
         NEW msg, Convene(msg), UsesCouncil
  PROVE  CallsInv'
  <1> USE DEF CallsInv
  <1>0. /\ DOMAIN call' = CallFields /\ call'.pc = "council" /\ call'.op = "tools"
        /\ DOMAIN council' = CouncilFields /\ council'.phase = "draft"
        /\ DOMAIN council'.draft = 1 .. N /\ DOMAIN council'.crit = {}
        /\ setup.who \in {"loop", "chat"}
    BY DEF Convene, NoCall, NoCouncil, CallFields, CouncilFields, UsesCouncil
  <1>1. CallsTyped'
    BY <1>0 DEF CallsTyped, N
  <1>2. OneCallAtATime'
    BY <1>0 DEF OneCallAtATime
  <1>3. StreakIsCounted'
    BY DEF StreakIsCounted, IdleTurns
  <1>4. EgoWasTried'
    BY <1>0 DEF EgoWasTried
  <1>5. EgoFailureIsCovered'
    BY DEF EgoFailureIsCovered
  <1>6. StraysWereDropped'
    BY DEF StraysWereDropped, N
  <1>7. TasksOfPhase'
    BY <1>0 DEF TasksOfPhase, N
  <1> QED BY <1>1, <1>2, <1>3, <1>4, <1>5, <1>6, <1>7

\* A caller takes the result of its call.
LEMMA ResultIsTaken ==
  ASSUME CallsInv, last.op # "none", last' = NoResult,
         UNCHANGED <<setup, ego, members, call, council, strays, dropped>>,
         DOMAIN loop' = LoopFields, StreakIsCounted'
  PROVE  CallsInv'
  <1> USE DEF CallsInv
  <1>1. CallsTyped'
    BY DEF CallsTyped, N, NoResult, LastFields
  <1>2. OneCallAtATime'
    BY DEF OneCallAtATime, NoResult
  <1>3. EgoWasTried'
    BY DEF EgoWasTried, FallsBack, HasEgo
  <1>4. EgoFailureIsCovered'
    BY DEF EgoFailureIsCovered, NoResult
  <1>5. StraysWereDropped'
    BY DEF StraysWereDropped, N
  <1>6. TasksOfPhase'
    BY DEF TasksOfPhase, N, Running
  <1> QED BY <1>1, <1>2, <1>3, <1>4, <1>5, <1>6

LEMMA BeginCallKeeps ==
  ASSUME CallsInv, BeginCall
  PROVE  CallsInv'
  <1>1. loop' = [loop EXCEPT !.turn = loop.turn + 1]
    BY DEF BeginCall, CallsInv, CallsTyped, LoopFields
  <1>2. /\ DOMAIN loop' = LoopFields /\ loop'.stop = loop.stop
        /\ loop'.kinds = loop.kinds /\ loop'.streak = loop.streak
    BY <1>1 DEF CallsInv, CallsTyped, LoopFields
  <1>3. PICK msg \in Messages :
          IF UsesCouncil THEN Convene(msg)
          ELSE (\E op \in Ops : Route(op, msg)) /\ UNCHANGED council
    BY DEF BeginCall
  <1>4. CASE UsesCouncil
    BY <1>2, <1>3, <1>4, CouncilBegins DEF BeginCall, Ready
  <1>5. CASE ~UsesCouncil
    BY <1>2, <1>3, <1>5, CallBegins DEF BeginCall, Ready
  <1> QED BY <1>4, <1>5

LEMMA BeginTurnKeeps ==
  ASSUME CallsInv, BeginTurn
  PROVE  CallsInv'
  <1>1. PICK n, h, s : loop' = [loop EXCEPT !.turn = n, !.hist = h, !.sent = s]
    <2>1. PICK h \in {TrimContext(loop.hist)} :
            loop' = [loop EXCEPT !.turn = @ + 1, !.hist = h, !.sent = Sent(h)]
      BY DEF BeginTurn
    <2> QED BY <2>1, Zenon
  <1>2. /\ DOMAIN loop' = LoopFields /\ loop'.stop = loop.stop
        /\ loop'.kinds = loop.kinds /\ loop'.streak = loop.streak
    BY <1>1 DEF CallsInv, CallsTyped, LoopFields
  <1>3. PICK msg \in Messages :
          IF UsesCouncil THEN Convene(msg) ELSE Route("tools", msg) /\ UNCHANGED council
    BY DEF BeginTurn
  <1>4. CASE UsesCouncil
    BY <1>2, <1>3, <1>4, CouncilBegins DEF BeginTurn, Ready
  <1>5. CASE ~UsesCouncil
    BY <1>2, <1>3, <1>5, CallBegins DEF BeginTurn, Ready
  <1> QED BY <1>4, <1>5

LEMMA AskHeartbeatKeeps ==
  ASSUME CallsInv, AskHeartbeat
  PROVE  CallsInv'
  BY CallBegins DEF AskHeartbeat, Ready, CallsInv, CallsTyped

LEMMA HeartbeatDoneKeeps ==
  ASSUME CallsInv, HeartbeatDone
  PROVE  CallsInv'
  <1>1. /\ DOMAIN loop' = LoopFields /\ loop'.stop # "no_tools"
        /\ loop'.kinds = loop.kinds /\ loop'.streak = loop.streak
    BY DEF HeartbeatDone, CallsInv, CallsTyped, LoopFields
  <1>2. StreakIsCounted'
    BY <1>1 DEF CallsInv, StreakIsCounted, IdleTurns
  <1> QED BY <1>1, <1>2, ResultIsTaken DEF HeartbeatDone

\* One more turn of any kind keeps the count.
LEMMA TurnIsCounted ==
  ASSUME CallsInv, NEW calls,
         loop'.kinds = Append(loop.kinds, KindOf(calls)),
         loop'.streak = Streak(calls),
         loop'.stop = "no_tools" => Streak(calls) >= 3
  PROVE  StreakIsCounted'
  <1> DEFINE n == Len(loop.kinds)
  <1>0. /\ loop.kinds \in Seq({"none", "asked", "tools"}) /\ n \in Nat
        /\ IsFiniteSet(IdleTurns) /\ loop.streak = Cardinality(IdleTurns)
        /\ IdleTurns \subseteq 1 .. n
    BY DEF CallsInv, StreakIsCounted, IdleTurns
  <1>1. KindOf(calls) \in {"none", "asked", "tools"}
    BY DEF KindOf
  <1>2. /\ loop'.kinds \in Seq({"none", "asked", "tools"})
        /\ Len(loop'.kinds) = n + 1
        /\ \A i \in 1 .. n : loop'.kinds[i] = loop.kinds[i]
        /\ loop'.kinds[n + 1] = KindOf(calls)
    BY <1>0, <1>1, AppendProperties
  <1>3. CASE KindOf(calls) = "none"
    <2>1. IdleTurns' = IdleTurns \cup {n + 1}
      BY <1>0, <1>2, <1>3 DEF IdleTurns
    <2>2. n + 1 \notin IdleTurns
      BY <1>0
    <2>3. IsFiniteSet(IdleTurns') /\ Cardinality(IdleTurns') = Cardinality(IdleTurns) + 1
      BY <1>0, <2>1, <2>2, FS_AddElement
    <2>4. loop'.streak = Cardinality(IdleTurns')
      BY <1>0, <1>3, <2>3 DEF Streak
    <2> QED BY <1>2, <2>3, <2>4 DEF StreakIsCounted
  <1>4. CASE KindOf(calls) = "asked"
    <2>1. IdleTurns' = IdleTurns
      BY <1>0, <1>2, <1>4 DEF IdleTurns
    <2>2. loop'.streak = Cardinality(IdleTurns')
      BY <1>0, <1>4, <2>1 DEF Streak
    <2> QED BY <1>0, <1>2, <2>1, <2>2 DEF StreakIsCounted
  <1>5. CASE KindOf(calls) = "tools"
    <2>1. IdleTurns' = {}
      BY <1>0, <1>2, <1>5 DEF IdleTurns
    <2>2. loop'.streak = 0
      BY <1>5 DEF Streak
    <2> QED BY <1>2, <2>1, <2>2, FS_EmptySet DEF StreakIsCounted
  <1> QED BY <1>1, <1>3, <1>4, <1>5

LEMMA EndTurnKeeps ==
  ASSUME CallsInv, EndTurn
  PROVE  CallsInv'
  <1> DEFINE a == last.reply
             calls == ExtractToolCalls(a, a.written)
             said == Append(loop.hist, Entry("assistant", "answer", 1))
             heard == loop.heard \cup {<<a.text, calls>>}
             kinds == Append(loop.kinds, KindOf(calls))
             now == [loop EXCEPT !.seen = loop.seen \cup {a.text}, !.heard = heard, !.kinds = kinds,
                                 !.streak = Streak(calls)]
  <1>0. /\ last.op = "tools" /\ last' = NoResult /\ loop.stop = "no"
        /\ UNCHANGED <<setup, ego, members, call, council, strays, dropped>>
        /\ DOMAIN loop = LoopFields
    BY DEF EndTurn, CallsInv, OneCallAtATime, CallsTyped
  <1>1. ASSUME NEW s, s # "no_tools", loop' = [loop EXCEPT !.stop = s]
        PROVE  DOMAIN loop' = LoopFields /\ StreakIsCounted'
    BY <1>0, <1>1 DEF CallsInv, StreakIsCounted, IdleTurns, LoopFields
  <1>2. ASSUME NEW h, NEW m, NEW s, s = "no_tools" => Streak(calls) >= 3,
               loop' = [now EXCEPT !.hist = h, !.newest = m, !.stop = s]
        PROVE  DOMAIN loop' = LoopFields /\ StreakIsCounted'
    <2>1. /\ DOMAIN loop' = LoopFields /\ loop'.kinds = kinds
          /\ loop'.streak = Streak(calls) /\ loop'.stop = s
      BY <1>0, <1>2 DEF LoopFields
    <2>2. StreakIsCounted'
      BY <2>1, <1>2, TurnIsCounted
    <2> QED BY <2>1, <2>2
  <1>3. \/ \E s : s # "no_tools" /\ loop' = [loop EXCEPT !.stop = s]
        \/ \E h, m, s : /\ s = "no_tools" => Streak(calls) >= 3
                        /\ loop' = [now EXCEPT !.hist = h, !.newest = m, !.stop = s]
    <2>1. CASE ~last.ok \/ a.text \in loop.seen
      BY <2>1 DEF EndTurn
    <2>2. CASE last.ok /\ a.text \notin loop.seen
      <3>1. CASE "task_complete" \in Range(calls)
        <4>0. calls # << >>
          BY <3>1 DEF Range
        <4>1. loop' = [now EXCEPT !.hist = said, !.stop = "complete"]
          BY <2>2, <3>1, <4>0, <1>0 DEF EndTurn, LoopFields
        <4>2. loop' = [now EXCEPT !.hist = said, !.newest = loop.newest, !.stop = "complete"]
          BY <4>1, <1>0 DEF LoopFields
        <4> QED BY <4>2
      <3>2. CASE calls = << >> /\ Streak(calls) >= 3 /\ "task_complete" \notin Range(calls)
        <4>1. loop' = [now EXCEPT !.hist = said, !.stop = "no_tools"]
          BY <2>2, <3>2, <1>0 DEF EndTurn, LoopFields
        <4>2. loop' = [now EXCEPT !.hist = said, !.newest = loop.newest, !.stop = "no_tools"]
          BY <4>1, <1>0 DEF LoopFields
        <4> QED BY <4>2, <3>2
      <3>3. CASE ~(calls = << >> /\ Streak(calls) >= 3) /\ "task_complete" \notin Range(calls)
        <4>0. PICK n \in (IF calls = << >> THEN {1} ELSE Sizes) :
                LET m == Entry("user", KindOf(calls), n)
                IN  loop' = [now EXCEPT !.hist = Append(said, m), !.newest = m]
          BY <2>2, <3>3, <1>0 DEF EndTurn, LoopFields
        <4>1. PICK h, m : loop' = [now EXCEPT !.hist = h, !.newest = m]
          BY <4>0, Zenon
        <4>2. loop' = [now EXCEPT !.hist = h, !.newest = m, !.stop = "no"]
          BY <4>1, <1>0 DEF LoopFields
        <4> QED BY <4>2
      <3> QED BY <3>1, <3>2, <3>3
    <2> QED BY <2>1, <2>2
  <1>4. DOMAIN loop' = LoopFields /\ StreakIsCounted'
    BY <1>1, <1>2, <1>3
  <1> QED BY <1>0, <1>4, ResultIsTaken

LEMMA CallerKeeps ==
  ASSUME CallsInv, CallerStep
  PROVE  CallsInv'
  <1>1. CASE EndCall
    BY <1>1, ResultIsTaken DEF EndCall, CallsInv, CallsTyped, StreakIsCounted, IdleTurns
  <1> QED BY <1>1, BeginCallKeeps, AskHeartbeatKeeps, HeartbeatDoneKeeps, BeginTurnKeeps,
             EndTurnKeeps DEF CallerStep

LEMMA StutterKeeps ==
  ASSUME CallsInv, UNCHANGED callsVars
  PROVE  CallsInv'
  BY DEF CallsInv, callsVars, CallsTyped, OneCallAtATime, StreakIsCounted, IdleTurns, EgoWasTried, TasksOfPhase,
         EgoFailureIsCovered, StraysWereDropped, FallsBack, HasEgo, N, Running

\* A caller's one call, its council and its run fit together in every state.
THEOREM CallsInvariant == CallsSpec => []CallsInv
  <1>1. CallsInv /\ [CallsNext]_callsVars => CallsInv'
    BY PrecheckKeeps, SecondCheckKeeps, ClassifyKeeps, ProviderKeeps, CouncilKeeps,
       ClientLeavesKeeps, StrayEndsKeeps, CallerKeeps, StutterKeeps DEF CallsNext
  <1> QED BY <1>1, CallsInitInv, PTL DEF CallsSpec

\* An operation that falls back fails only after the Id has failed, and the Ego
\* too where one is configured.
THEOREM FailuresAreCovered == CallsSpec => []EgoFailureIsCovered
  BY CallsInvariant, PTL DEF CallsInv

\* Only a council dropped by its time limit or by a client that went away leaves
\* tasks behind, and no more than it had members.
THEOREM StraysAreOfDropped == CallsSpec => []StraysWereDropped
  BY CallsInvariant, PTL DEF CallsInv

\* The breaker stops a run only after three turns without a tool call since the
\* last turn whose tools were done; turns that ask the mentor may lie between.
THEOREM BreakerHasCause == CallsSpec => []StoppedForCause
  <1>1. CallsInv => StoppedForCause
    BY DEF CallsInv, StreakIsCounted, StoppedForCause
  <1> QED BY <1>1, CallsInvariant, PTL

------------------------------------------------------------------------------
\* Induction over the numbers, stated of a set so that it can be instantiated.
LEMMA SetInduction ==
  ASSUME NEW T, 0 \in T, \A n \in Nat : n \in T => n + 1 \in T
  PROVE  \A n \in Nat : n \in T
  <1> DEFINE R == OpToRel(<, Nat)
             U == Nat \ T
  <1>1. SUFFICES ASSUME U # {} PROVE FALSE
    OBVIOUS
  <1>2. PICK x \in U : \A y \in U : ~ (<<y, x>> \in R)
    <2>1. U \subseteq Nat
      OBVIOUS
    <2> HIDE DEF U, R
    <2> QED BY <1>1, <2>1, NatLessThanWellFounded, WFMin DEF R
  <1>3. x \in Nat /\ x # 0 /\ x - 1 \in Nat
    <2>1. x \in Nat /\ x \notin T
      BY <1>2
    <2>2. x # 0
      BY <2>1
    <2> QED BY <2>1, <2>2
  <1>4. <<x - 1, x>> \in R
    BY <1>3 DEF OpToRel
  <1>5. x - 1 \in T
    BY <1>2, <1>3, <1>4
  <1>6. (x - 1) + 1 = x
    BY <1>3
  <1> QED BY <1>2, <1>3, <1>5, <1>6

\* What FlattenSeq computes: f holds the flattened prefixes.
Flattens(f, s) ==
  f = [i \in 1 .. Len(s) |-> IF i = 1 THEN s[i] ELSE f[i - 1] \o s[i]]

LEMMA FlattensExists ==
  ASSUME NEW S, NEW s \in Seq(S)
  PROVE  \E f : Flattens(f, s)
  <1> DEFINE Upto(f, n) == f = [i \in 1 .. n |-> IF i = 1 THEN s[i] ELSE f[i - 1] \o s[i]]
             T == {n \in Nat : \E f : Upto(f, n)}
  <1>1. 0 \in T
    <2>1. Upto([i \in 1 .. 0 |-> 0], 0)
      OBVIOUS
    <2> QED BY <2>1
  <1>2. ASSUME NEW n \in Nat, n \in T PROVE n + 1 \in T
    <2>1. PICK f : Upto(f, n)
      BY <1>2
    <2> DEFINE g == [i \in 1 .. n + 1 |-> IF i \in 1 .. n THEN f[i]
                                          ELSE IF i = 1 THEN s[i] ELSE f[i - 1] \o s[i]]
    <2>2. \A i \in 1 .. n : f[i] = IF i = 1 THEN s[i] ELSE f[i - 1] \o s[i]
      BY <2>1
    <2>3. ASSUME NEW i \in 1 .. n + 1
          PROVE  g[i] = IF i = 1 THEN s[i] ELSE g[i - 1] \o s[i]
      <3>1. CASE i = 1
        BY <3>1, <2>2
      <3>2. CASE i # 1
        <4>1. i - 1 \in 1 .. n /\ i - 1 \in 1 .. n + 1
          BY <3>2
        <4>2. g[i - 1] = f[i - 1]
          BY <4>1
        <4>3. g[i] = f[i - 1] \o s[i]
          BY <3>2, <2>2
        <4> QED BY <3>2, <4>2, <4>3
      <3> QED BY <3>1, <3>2
    <2>4. g = [i \in 1 .. n + 1 |-> g[i]]
      OBVIOUS
    <2> HIDE DEF g
    <2>5. Upto(g, n + 1)
      BY <2>3, <2>4
    <2> HIDE DEF Upto
    <2> QED BY <2>5
  <1> HIDE DEF T
  <1>3. Len(s) \in T
    BY <1>1, <1>2, SetInduction
  <1> QED BY <1>3 DEF T, Flattens

\* The last of them is the result.
LEMMA FlattenIs ==
  ASSUME NEW S, NEW s \in Seq(S), Len(s) > 0
  PROVE  \E f : Flattens(f, s) /\ FlattenSeq(s) = f[Len(s)]
  <1> DEFINE f == CHOOSE g : Flattens(g, s)
  <1>1. Flattens(f, s)
    BY FlattensExists
  <1>2. FlattenSeq(s) = f[Len(s)]
    BY DEF FlattenSeq, Flattens
  <1> QED BY <1>1, <1>2

LEMMA FlattenEmpty == FlattenSeq(<< >>) = << >>
  BY DEF FlattenSeq

\* A sequence that begins another one flattens to the beginning of its result.
Begins(s, t) == /\ Len(s) \in Nat /\ Len(t) \in Nat /\ Len(s) <= Len(t)
                /\ \A i \in 1 .. Len(s) : s[i] = t[i]

LEMMA FlattensAgree ==
  ASSUME NEW s, NEW t, NEW f, NEW g, Flattens(f, s), Flattens(g, t), Begins(s, t), Len(s) > 0
  PROVE  f[Len(s)] = g[Len(s)]
  <1> DEFINE n == Len(s)
  <1>0. n \in Nat /\ n <= Len(s) /\ n <= Len(t) /\ (\A i \in 1 .. n : s[i] = t[i])
        /\ Len(t) \in Nat
    BY DEF Begins
  <1> DEFINE T == {i \in Nat : i \in 1 .. n => f[i] = g[i]}
  <1>1. 0 \in T
    OBVIOUS
  <1>2. ASSUME NEW i \in Nat, i \in T PROVE i + 1 \in T
    <2>1. SUFFICES ASSUME i + 1 \in 1 .. n PROVE f[i + 1] = g[i + 1]
      OBVIOUS
    <2>2. /\ f[i + 1] = IF i + 1 = 1 THEN s[i + 1] ELSE f[i] \o s[i + 1]
          /\ g[i + 1] = IF i + 1 = 1 THEN t[i + 1] ELSE g[i] \o t[i + 1]
      <3>1. i + 1 \in 1 .. Len(s) /\ i + 1 \in 1 .. Len(t) /\ (i + 1) - 1 = i
        BY <1>0, <2>1
      <3> QED BY <3>1 DEF Flattens
    <2>3. s[i + 1] = t[i + 1]
      BY <1>0, <2>1
    <2>4. CASE i = 0
      BY <2>2, <2>3, <2>4
    <2>5. CASE i # 0
      <3>1. f[i] = g[i]
        BY <1>0, <1>2, <2>1, <2>5
      <3> QED BY <2>2, <2>3, <2>5, <3>1
    <2> QED BY <2>4, <2>5
  <1> HIDE DEF T
  <1>3. \A i \in Nat : i \in T
    BY <1>1, <1>2, SetInduction
  <1>4. n \in T /\ n \in 1 .. n
    BY <1>0, <1>3
  <1> QED BY <1>4 DEF T

\* Flattening a sequence of sequences gives a sequence.
LEMMA FlattenType ==
  ASSUME NEW V, NEW s \in Seq(Seq(V))
  PROVE  FlattenSeq(s) \in Seq(V)
  <1>1. CASE Len(s) = 0
    <2>1. s = << >> /\ << >> \in Seq(V)
      BY <1>1
    <2> QED BY <2>1, FlattenEmpty
  <1>2. CASE Len(s) > 0
    <2>1. PICK f : Flattens(f, s) /\ FlattenSeq(s) = f[Len(s)]
      BY <1>2, FlattenIs
    <2> DEFINE T == {i \in Nat : i \in 1 .. Len(s) => f[i] \in Seq(V)}
    <2>2. 0 \in T
      OBVIOUS
    <2>3. ASSUME NEW i \in Nat, i \in T PROVE i + 1 \in T
      <3>1. SUFFICES ASSUME i + 1 \in 1 .. Len(s) PROVE f[i + 1] \in Seq(V)
        OBVIOUS
      <3>2. f[i + 1] = IF i + 1 = 1 THEN s[i + 1] ELSE f[i] \o s[i + 1]
        <4>1. (i + 1) - 1 = i
          OBVIOUS
        <4> QED BY <2>1, <3>1, <4>1 DEF Flattens
      <3>3. s[i + 1] \in Seq(V)
        BY <3>1
      <3>4. CASE i = 0
        BY <3>2, <3>3, <3>4
      <3>5. CASE i # 0
        <4>1. f[i] \in Seq(V)
          BY <2>3, <3>1, <3>5
        <4> QED BY <3>2, <3>3, <3>5, <4>1
      <3> QED BY <3>4, <3>5
    <2> HIDE DEF T
    <2>4. \A i \in Nat : i \in T
      BY <2>2, <2>3, SetInduction
    <2> QED BY <1>2, <2>1, <2>4 DEF T
  <1> QED BY <1>1, <1>2

\* One more element is flattened at the end.
LEMMA FlattenAppend ==
  ASSUME NEW V, NEW s \in Seq(Seq(V)), NEW x \in Seq(V)
  PROVE  FlattenSeq(Append(s, x)) = FlattenSeq(s) \o x
  <1> DEFINE t == Append(s, x)
  <1>0. /\ t \in Seq(Seq(V)) /\ Len(t) = Len(s) + 1 /\ t[Len(s) + 1] = x
        /\ \A i \in 1 .. Len(s) : t[i] = s[i]
    OBVIOUS
  <1> HIDE DEF t
  <1>1. PICK g : Flattens(g, t) /\ FlattenSeq(t) = g[Len(t)]
    BY <1>0, FlattenIs
  <1>2. g[Len(t)] = IF Len(t) = 1 THEN x ELSE g[Len(s)] \o x
    <2>1. Len(t) \in 1 .. Len(t) /\ Len(t) - 1 = Len(s)
      BY <1>0
    <2> QED BY <1>0, <1>1, <2>1 DEF Flattens
  <1>3. CASE Len(s) = 0
    <2>1. s = << >>
      BY <1>3
    <2>2. FlattenSeq(s) \o x = x
      BY <2>1, FlattenEmpty
    <2> QED BY <1>0, <1>1, <1>2, <1>3, <2>2 DEF t
  <1>4. CASE Len(s) > 0
    <2>1. PICK f : Flattens(f, s) /\ FlattenSeq(s) = f[Len(s)]
      BY <1>4, FlattenIs
    <2>2. f[Len(s)] = g[Len(s)]
      <3>1. Begins(s, t)
        BY <1>0 DEF Begins
      <3> QED BY <1>1, <1>4, <2>1, <3>1, FlattensAgree
    <2> QED BY <1>0, <1>1, <1>2, <1>4, <2>1, <2>2 DEF t
  <1> QED BY <1>3, <1>4

\* Single elements flatten to the sequence they come from.
LEMMA FlattenSingles ==
  ASSUME NEW V, NEW t \in Seq(V)
  PROVE  FlattenSeq([i \in DOMAIN t |-> <<t[i]>>]) = t
  <1> DEFINE Ones(n) == [i \in 1 .. n |-> <<t[i]>>]
             T == {n \in Nat : n <= Len(t) => FlattenSeq(Ones(n)) = SubSeq(t, 1, n)}
  <1>1. 0 \in T
    <2>1. Ones(0) = << >> /\ SubSeq(t, 1, 0) = << >>
      OBVIOUS
    <2> HIDE DEF Ones
    <2> QED BY <2>1, FlattenEmpty
  <1>2. ASSUME NEW n \in Nat, n \in T PROVE n + 1 \in T
    <2> HIDE DEF Ones
    <2>1. SUFFICES ASSUME n + 1 <= Len(t) PROVE FlattenSeq(Ones(n + 1)) = SubSeq(t, 1, n + 1)
      OBVIOUS
    <2> USE DEF Ones
    <2>2. <<t[n + 1]>> \in Seq(V)
      <3>1. t[n + 1] \in V
        BY <2>1
      <3>2. <<t[n + 1]>> = [i \in 1 .. 1 |-> t[n + 1]]
        OBVIOUS
      <3> QED BY <3>1, <3>2
    <2>3. Ones(n) \in Seq(Seq(V))
      <3>1. ASSUME NEW i \in 1 .. n PROVE <<t[i]>> \in Seq(V)
        <4>1. t[i] \in V
          BY <2>1
        <4>2. <<t[i]>> = [j \in 1 .. 1 |-> t[i]]
          OBVIOUS
        <4> QED BY <4>1, <4>2
      <3>2. Ones(n) \in [1 .. n -> Seq(V)]
        BY <3>1
      <3> QED BY <3>2
    <2>4. Ones(n + 1) = Append(Ones(n), <<t[n + 1]>>)
      OBVIOUS
    <2>5. SubSeq(t, 1, n) \o <<t[n + 1]>> = SubSeq(t, 1, n + 1)
      BY <2>1
    <2>6. FlattenSeq(Ones(n)) = SubSeq(t, 1, n)
      BY <1>2, <2>1
    <2> HIDE DEF Ones
    <2> QED BY <2>2, <2>3, <2>4, <2>5, <2>6, FlattenAppend
  <1>3. \A n \in Nat : n \in T
    <2> HIDE DEF T
    <2> QED BY <1>1, <1>2, SetInduction
  <1>4. Ones(Len(t)) = [i \in DOMAIN t |-> <<t[i]>>] /\ SubSeq(t, 1, Len(t)) = t
    OBVIOUS
  <1>5. Len(t) \in Nat /\ Len(t) <= Len(t)
    OBVIOUS
  <1> HIDE DEF Ones
  <1>6. FlattenSeq(Ones(Len(t))) = SubSeq(t, 1, Len(t))
    BY <1>3, <1>5
  <1> QED BY <1>4, <1>6

------------------------------------------------------------------------------
\* What a stream may be made of.
EventValues == {e.value : e \in Events}
Pieces == [by : {"ego", "id"}, text : Seq(EventValues)]

\* What a streaming call has shown so far comes from the provider it asks
\* now, and is what that provider has sent, unless the Id broke off before.
ShownSoFar ==
  /\ DOMAIN call.stream = {"text", "open", "calls"}
  /\ call.stream.text \in Seq(EventValues)
  /\ call.shown \in Seq(Pieces)
  /\ call.pc \notin {"ego", "id", "id_last"} => call.shown = << >> /\ call.stream = NoStream
  /\ ~Streaming(call.op) => call.shown = << >>
  /\ \A p \in {"ego", "id"} : Asking(p) => \A i \in DOMAIN call.shown : call.shown[i].by = p
  /\ call.pc = "ego" /\ HeldBack("ego") => call.shown = << >>
  /\ \A p \in {"ego", "id"} :
       call.pc = p /\ Streaming(call.op) /\ ~HeldBack(p) /\ "id" \notin call.failed =>
         ShownText(call.shown) = call.stream.text

VoiceInv ==
  /\ ShownSoFar
  /\ ShownIsOneVoice

\* Pieces over any texts, the end mark and a denial included.
Says(V) == [by : {"ego", "id", "superego", "done"}, text : Seq(V)]

LEMMA ShownTextEmpty == ShownText(<< >>) = << >>
  <1>1. [i \in DOMAIN << >> |-> << >>[i].text] = << >>
    OBVIOUS
  <1> QED BY <1>1, FlattenEmpty DEF ShownText

LEMMA ShownTextAppend ==
  ASSUME NEW V, NEW s \in Seq(Says(V)), NEW x \in Says(V)
  PROVE  ShownText(Append(s, x)) = ShownText(s) \o x.text
  <1> DEFINE t == [i \in DOMAIN s |-> s[i].text]
             u == [i \in DOMAIN Append(s, x) |-> Append(s, x)[i].text]
  <1>1. t \in Seq(Seq(V)) /\ x.text \in Seq(V)
    <2>0. ASSUME NEW i \in 1 .. Len(s) PROVE s[i].text \in Seq(V)
      <3>1. s[i] \in Says(V)
        OBVIOUS
      <3> QED BY <3>1 DEF Says
    <2>1. t \in [1 .. Len(s) -> Seq(V)]
      BY <2>0
    <2> QED BY <2>1 DEF Says
  <1>2. u = Append(t, x.text)
    <2>1. DOMAIN u = 1 .. Len(s) + 1 /\ DOMAIN Append(t, x.text) = 1 .. Len(s) + 1
      OBVIOUS
    <2>2. ASSUME NEW i \in 1 .. Len(s) + 1 PROVE u[i] = Append(t, x.text)[i]
      OBVIOUS
    <2>3. /\ u = [i \in DOMAIN u |-> u[i]]
          /\ Append(t, x.text) = [i \in DOMAIN Append(t, x.text) |-> Append(t, x.text)[i]]
      BY <1>1
    <2> HIDE DEF t, u
    <2> QED BY <2>1, <2>2, <2>3
  <1> HIDE DEF t, u
  <1>3. FlattenSeq(u) = FlattenSeq(t) \o x.text
    BY <1>1, <1>2, FlattenAppend
  <1> QED BY <1>3 DEF ShownText, t, u

LEMMA ShownTextType ==
  ASSUME NEW V, NEW s \in Seq(Says(V))
  PROVE  ShownText(s) \in Seq(V)
  <1> DEFINE t == [i \in DOMAIN s |-> s[i].text]
  <1>1. t \in Seq(Seq(V))
    <2>0. ASSUME NEW i \in 1 .. Len(s) PROVE s[i].text \in Seq(V)
      <3>1. s[i] \in Says(V)
        OBVIOUS
      <3> QED BY <3>1 DEF Says
    <2>1. t \in [1 .. Len(s) -> Seq(V)]
      BY <2>0
    <2> QED BY <2>1
  <1> HIDE DEF t
  <1>2. FlattenSeq(t) \in Seq(V)
    BY <1>1, FlattenType
  <1> QED BY <1>2 DEF ShownText, t

\* The end mark adds nothing to the text.
EndMark == [by |-> "done", text |-> << >>]

LEMMA ShownTextDone ==
  ASSUME NEW V, NEW s \in Seq(Says(V))
  PROVE  ShownText(s \o Done) = ShownText(s)
  <1>1. EndMark \in Says(V) /\ EndMark.text = << >>
    BY DEF Says, EndMark
  <1>2. s \o Done = Append(s, EndMark)
    BY DEF Done, EndMark
  <1>3. ShownText(s) \o << >> = ShownText(s)
    BY ShownTextType
  <1> QED BY <1>1, <1>2, <1>3, ShownTextAppend

\* One piece for every text of a held stream.
HeldPieces(p, t) == [i \in DOMAIN t |-> [by |-> p, text |-> <<t[i]>>]]

SaidBy(p, held, V, t) == /\ held \in Seq(Says(V)) /\ ShownText(held) = t
                         /\ \A i \in DOMAIN held : held[i].by = p

LEMMA HeldText ==
  ASSUME NEW V, NEW t \in Seq(V), NEW p, p \in {"ego", "id"}
  PROVE  SaidBy(p, HeldPieces(p, t), V, t)
  <1> DEFINE held == HeldPieces(p, t)
  <1> USE DEF HeldPieces
  <1>1. ASSUME NEW i \in DOMAIN t PROVE <<t[i]>> \in Seq(V)
    <2>1. t[i] \in V /\ <<t[i]>> = [j \in 1 .. 1 |-> t[i]]
      OBVIOUS
    <2> QED BY <2>1
  <1>2. held \in [1 .. Len(t) -> Says(V)]
    BY <1>1 DEF Says
  <1>3. [i \in DOMAIN held |-> held[i].text] = [i \in DOMAIN t |-> <<t[i]>>]
    OBVIOUS
  <1>4. ShownText(held) = t
    <2> HIDE DEF held
    <2> QED BY <1>3, FlattenSingles DEF ShownText
  <1> QED BY <1>2, <1>4 DEF SaidBy

------------------------------------------------------------------------------
\* What was shown, then the end mark: one voice if it is the answer's.
LEMMA AnswerIsOneVoice ==
  ASSUME NEW P, NEW s \in Seq(P), last'.ok = TRUE, last'.shown = s \o Done,
         \A i \in DOMAIN s : s[i].by = last'.by,
         "id" \notin last'.failed => ShownText(s \o Done) = last'.reply.text
  PROVE  ShownIsOneVoice'
  <1> DEFINE t == s \o Done
  <1>1. /\ Len(t) = Len(s) + 1 /\ t[Len(s) + 1].by = "done" /\ Len(s) \in Nat
        /\ \A i \in 1 .. Len(s) : t[i] = s[i]
    BY DEF Done
  <1> HIDE DEF t
  <1>2. DOMAIN Front(t) = 1 .. Len(s)
    BY <1>1 DEF Front
  <1>3. Last(t).by = "done"
    BY <1>1 DEF Last
  <1>4. \A i \in DOMAIN Front(t) : t[i].by = last'.by
    BY <1>1, <1>2
  <1>5. last'.shown = t /\ ("id" \notin last'.failed => ShownText(t) = last'.reply.text)
    BY DEF t
  <1>6. last.shown' = t /\ ("id" \notin last.failed' => ShownText(last.shown') = last.reply.text')
    BY <1>5
  <1> QED BY <1>3, <1>4, <1>5 DEF ShownIsOneVoice, ShownText

\* Without a call nothing has been shown.
LEMMA NothingShown ==
  ASSUME call'.shown = << >>, call'.stream = NoStream
  PROVE  ShownSoFar'
  <1>1. << >> \in Seq(Pieces) /\ << >> \in Seq(EventValues)
    OBVIOUS
  <1>2. (EventValues = EventValues') /\ (Pieces = Pieces')
    BY DEF EventValues, Pieces
  <1>3. ShownText(call'.shown) = << >>
    BY ShownTextEmpty
  <1>4. /\ DOMAIN NoStream = {"text", "open", "calls"} /\ NoStream.text = << >>
    BY DEF NoStream
  <1> QED BY <1>1, <1>2, <1>3, <1>4 DEF ShownSoFar, ShownText

LEMMA VoiceInit == CallsInit => VoiceInv
  <1> SUFFICES ASSUME CallsInit PROVE VoiceInv
    OBVIOUS
  <1>1. call.shown = << >> /\ call.stream = NoStream /\ last.op = "none"
    BY DEF CallsInit, NoCall, NoResult
  <1>2. << >> \in Seq(Pieces) /\ << >> \in Seq(EventValues)
    OBVIOUS
  <1>3. ShownText(call.shown) = << >>
    BY <1>1, ShownTextEmpty
  <1>4. /\ DOMAIN NoStream = {"text", "open", "calls"} /\ NoStream.text = << >>
    BY DEF NoStream
  <1>5. ShownSoFar
    BY <1>1, <1>2, <1>3, <1>4 DEF ShownSoFar
  <1>6. ShownIsOneVoice
    BY <1>1 DEF ShownIsOneVoice, Streaming
  <1> QED BY <1>5, <1>6 DEF VoiceInv

LEMMA VoiceOfLast ==
  ASSUME VoiceInv, UNCHANGED last
  PROVE  ShownIsOneVoice'
  BY DEF VoiceInv, ShownIsOneVoice, ShownText, Ends

LEMMA VoiceOfRoute ==
  ASSUME VoiceInv, UNCHANGED last, NEW op, NEW msg, Route(op, msg)
  PROVE  VoiceInv'
  BY RouteStarts, NothingShown, VoiceOfLast DEF Routable, VoiceInv

LEMMA VoiceOfDenial ==
  ASSUME CallsInv, VoiceInv, NEW code, Deny(code)
  PROVE  VoiceInv'
  <1> DEFINE V == {code}
             piece == [by |-> "superego", text |-> <<code>>]
             s == <<piece>>
  <1>1. /\ call' = NoCall /\ last'.ok = TRUE /\ last'.op = call.op /\ last'.by = "superego"
        /\ last'.reply = Denial(code)
        /\ Streaming(call.op) => last'.shown = s \o Done
    BY Finished DEF Deny, Words
  <1>2. ShownSoFar'
    BY <1>1, NothingShown DEF NoCall
  <1>3. s \in Seq(Says(V)) /\ ShownText(s) = <<code>>
    <2>1. <<code>> \in Seq(V)
      <3>1. <<code>> = [i \in 1 .. 1 |-> code]
        OBVIOUS
      <3> QED BY <3>1
    <2>2. piece \in Says(V) /\ piece.text = <<code>>
      BY <2>1 DEF Says
    <2>3. << >> \in Seq(Says(V)) /\ s = Append(<< >>, piece)
      OBVIOUS
    <2> HIDE DEF V, piece, s
    <2>4. ShownText(s) = ShownText(<< >>) \o piece.text
      BY <2>2, <2>3, ShownTextAppend
    <2>5. << >> \o piece.text = <<code>>
      BY <2>1, <2>2
    <2>6. s \in Seq(Says(V))
      BY <2>2, <2>3
    <2> QED BY <2>4, <2>5, <2>6, ShownTextEmpty
  <1>4. \A i \in DOMAIN s : s[i].by = "superego"
    OBVIOUS
  <1>5. Denial(code).text = <<code>>
    BY DEF Denial
  <1> HIDE DEF s, V
  <1>6. ShownText(s \o Done) = <<code>>
    BY <1>3, ShownTextDone
  <1>7. ShownIsOneVoice'
    <2>1. CASE Streaming(call.op)
      BY <1>1, <1>3, <1>4, <1>5, <1>6, <2>1, AnswerIsOneVoice
    <2>2. CASE ~Streaming(call.op)
      BY <1>1, <2>2 DEF ShownIsOneVoice, Streaming
    <2> QED BY <2>1, <2>2
  <1> QED BY <1>2, <1>7 DEF VoiceInv

LEMMA VoiceOfMove ==
  ASSUME CallsInv, VoiceInv, UNCHANGED last, call.pc \notin {"ego", "id", "id_last"},
         NEW next, call' = [call EXCEPT !.pc = next]
  PROVE  VoiceInv'
  <1>1. call'.shown = << >> /\ call'.stream = NoStream
    BY DEF CallsInv, CallsTyped, CallFields, VoiceInv, ShownSoFar
  <1> QED BY <1>1, NothingShown, VoiceOfLast DEF VoiceInv

LEMMA VoiceOfChecks ==
  ASSUME CallsInv, VoiceInv, RunSuperegoPrecheck \/ SuperegoAnswers \/ Classify
  PROVE  VoiceInv'
  <1>1. CASE RunSuperegoPrecheck
    <2> DEFINE code == CheckUserMessage(call.msg)
    <2>1. CASE code # "ALLOW"
      BY <1>1, <2>1, VoiceOfDenial DEF RunSuperegoPrecheck
    <2>2. CASE code = "ALLOW"
      BY <1>1, <2>2, VoiceOfMove DEF RunSuperegoPrecheck
    <2> QED BY <2>1, <2>2
  <1>2. CASE SuperegoAnswers
    <2>1. PICK reply \in L2Replies :
            IF L2Verdict(setup.l2, reply) \in Codes THEN Deny(reply)
            ELSE call' = [call EXCEPT !.pc = Routed(call.op)] /\ UNCHANGED last
      BY <1>2 DEF SuperegoAnswers
    <2> QED BY <1>2, <2>1, VoiceOfDenial, VoiceOfMove DEF SuperegoAnswers
  <1>3. CASE Classify
    <2>1. CASE Finish(FALSE, "classify", Failure, << >>)
      <3>1. /\ call' = NoCall /\ last'.ok = FALSE /\ last'.shown = << >>
        BY <2>1, Finished
      <3>2. Ends(last'.shown) = 0
        <4>1. {i \in DOMAIN last'.shown : last'.shown[i].by = "done"} = {}
          BY <3>1
        <4> QED BY <4>1, FS_EmptySet DEF Ends
      <3>3. ShownIsOneVoice'
        BY <3>1, <3>2 DEF ShownIsOneVoice, Ends
      <3> QED BY <3>1, <3>3, NothingShown DEF NoCall, VoiceInv
    <2>2. CASE \E complex \in BOOLEAN :
                  /\ call' = [call EXCEPT !.pc = IF complex /\ HasEgo THEN "ego" ELSE "id"]
                  /\ UNCHANGED last
      BY <1>3, <2>2, VoiceOfMove DEF Classify
    <2> QED BY <1>3, <2>1, <2>2 DEF Classify
  <1> QED BY <1>1, <1>2, <1>3

\* An answer that is not streamed; the Id's last attempt ends a stream.
LEMMA VoiceOfAnswered ==
  ASSUME CallsInv, VoiceInv, NEW p \in {"ego", "id"}, Answered(p)
  PROVE  VoiceInv'
  <1>1. PICK reply, text : Finish(TRUE, p, reply,
                             IF Streaming(call.op) THEN call.shown \o Words(text, p) \o Done ELSE << >>)
    <2>1. CASE call.op = "heartbeat"
      BY <2>1 DEF Answered, Streaming
    <2>2. CASE call.op # "heartbeat"
      BY <2>2 DEF Answered
    <2> QED BY <2>1, <2>2
  <1>2. /\ call' = NoCall /\ last'.ok = TRUE /\ last'.op = call.op /\ last'.by = p
        /\ last'.failed = call.failed
        /\ Streaming(call.op) => last'.shown = call.shown \o Words(text, p) \o Done
    BY <1>1, Finished
  <1>3. ShownSoFar'
    BY <1>2, NothingShown DEF NoCall
  <1>4. CASE ~Streaming(call.op)
    <2>1. ShownIsOneVoice'
      BY <1>2, <1>4 DEF ShownIsOneVoice, Streaming
    <2> QED BY <1>3, <2>1 DEF VoiceInv
  <1>5. CASE Streaming(call.op)
    <2> DEFINE piece == [by |-> p, text |-> text]
               Mixed == Pieces \cup {piece}
               s == call.shown \o Words(text, p)
    <2>1. call.pc = "id_last" /\ p = "id" /\ "id" \in call.failed
      BY <1>5 DEF Answered, Asking, CallsInv, EgoWasTried
    <2>2. call.shown \in Seq(Pieces) /\ \A i \in DOMAIN call.shown : call.shown[i].by = p
      BY <2>1 DEF VoiceInv, ShownSoFar, Asking
    <2>3. call.shown \in Seq(Mixed) /\ piece \in Mixed
      BY <2>2
    <2>4. s = Append(call.shown, piece)
      BY DEF Words
    <2> HIDE DEF Mixed, s
    <2>5. s \in Seq(Mixed)
      BY <2>3, <2>4
    <2>6. \A i \in DOMAIN s : s[i].by = p
      BY <2>2, <2>4
    <2>7. ShownIsOneVoice'
      BY <1>2, <1>5, <2>1, <2>5, <2>6, AnswerIsOneVoice DEF s
    <2> QED BY <1>3, <2>7 DEF VoiceInv
  <1> QED BY <1>4, <1>5

\* A stream that comes to its end.
LEMMA VoiceOfStreamEnds ==
  ASSUME CallsInv, VoiceInv, NEW p \in {"ego", "id"}, StreamEnds(p)
  PROVE  VoiceInv'
  <1> DEFINE words == call.stream.text
             held == HeldPieces(p, words)
             s == call.shown \o (IF HeldBack(p) THEN held ELSE << >>)
  <1>0. call.pc = p /\ Streaming(call.op)
    BY DEF StreamEnds
  <1>1. PICK r \in StreamedReplies(Client(p), call.stream) :
          Finish(TRUE, p, [text |-> r.text, written |-> << >>, calls |-> r.calls], s \o Done)
    BY DEF StreamEnds, HeldPieces
  <1>2. r.text = words
    BY DEF StreamedReplies
  <1> HIDE DEF s
  <1>3. /\ call' = NoCall /\ last'.ok = TRUE /\ last'.op = call.op /\ last'.by = p
        /\ last'.failed = call.failed /\ last'.reply.text = words
        /\ last'.shown = s \o Done
    <2> DEFINE reply == [text |-> r.text, written |-> << >>, calls |-> r.calls]
    <2>1. reply.text = words
      BY <1>2
    <2>2. Finish(TRUE, p, reply, s \o Done)
      BY <1>1
    <2> HIDE DEF reply, words
    <2> QED BY <2>1, <2>2, Finished
  <1>4. ShownSoFar'
    BY <1>3, NothingShown DEF NoCall
  <1>5. words \in Seq(EventValues) /\ call.shown \in Seq(Pieces)
        /\ (\A i \in DOMAIN call.shown : call.shown[i].by = p)
    BY <1>0 DEF VoiceInv, ShownSoFar, Asking
  <1>6. Pieces \subseteq Says(EventValues)
    BY DEF Pieces, Says
  <1>7. call.shown \in Seq(Says(EventValues))
    BY <1>5, <1>6
  <1>8. /\ s \in Seq(Says(EventValues)) /\ \A i \in DOMAIN s : s[i].by = p
        /\ "id" \notin call.failed => ShownText(s) = words
    <2>1. CASE HeldBack(p)
      <3>1. call.shown = << >>
        BY <1>0, <2>1 DEF VoiceInv, ShownSoFar, HeldBack
      <3>2. held \in Seq(Says(EventValues)) /\ ShownText(held) = words
              /\ \A i \in DOMAIN held : held[i].by = p
        <4>1. SaidBy(p, held, EventValues, words)
          BY <1>5, HeldText
        <4> QED BY <4>1 DEF SaidBy
      <3> HIDE DEF held
      <3>3. s = held
        BY <2>1, <3>1, <3>2 DEF s
      <3> QED BY <3>2, <3>3
    <2>2. CASE ~HeldBack(p)
      <3>1. s = call.shown
        BY <1>7, <2>2 DEF s
      <3>2. "id" \notin call.failed => ShownText(call.shown) = words
        BY <1>0, <2>2 DEF VoiceInv, ShownSoFar
      <3> QED BY <1>5, <1>7, <3>1, <3>2
    <2> QED BY <2>1, <2>2
  <1>9. ShownText(s \o Done) = ShownText(s)
    BY <1>8, ShownTextDone
  <1>10. ShownIsOneVoice'
    BY <1>3, <1>8, <1>9, AnswerIsOneVoice
  <1> QED BY <1>4, <1>10 DEF VoiceInv

\* One more event of a stream.
LEMMA StreamEventText ==
  ASSUME NEW client, NEW s, DOMAIN s = {"text", "open", "calls"}, NEW e
  PROVE  /\ DOMAIN StreamEvent(client, s, e) = {"text", "open", "calls"}
         /\ StreamEvent(client, s, e).text = IF e.kind = "text" THEN Append(s.text, e.value) ELSE s.text
  BY DEF StreamEvent, AnthropicEvent, ChatEvent

LEMMA VoiceOfStreamChunk ==
  ASSUME CallsInv, VoiceInv, NEW p \in {"ego", "id"}, StreamChunk(p)
  PROVE  VoiceInv'
  <1>0. call.pc = p /\ Streaming(call.op) /\ UNCHANGED last
    BY DEF StreamChunk
  <1>1. PICK e \in Events :
          call' = [call EXCEPT
            !.heard = @ + 1,
            !.stream = StreamEvent(Client(p), @, e),
            !.shown = IF e.kind = "text" /\ ~HeldBack(p) THEN @ \o Words(<<e.value>>, p) ELSE @]
    BY DEF StreamChunk
  <1> DEFINE piece == [by |-> p, text |-> <<e.value>>]
             says == e.kind = "text"
  <1>2. /\ call'.pc = p /\ call'.op = call.op /\ call'.failed = call.failed
        /\ call'.stream = StreamEvent(Client(p), call.stream, e)
        /\ call'.shown = IF says /\ ~HeldBack(p) THEN call.shown \o <<piece>> ELSE call.shown
    BY <1>0, <1>1 DEF CallsInv, CallsTyped, CallFields, Words
  <1>3. /\ DOMAIN call'.stream = {"text", "open", "calls"}
        /\ call'.stream.text = IF says THEN Append(call.stream.text, e.value) ELSE call.stream.text
    <2>1. DOMAIN call.stream = {"text", "open", "calls"}
      BY DEF VoiceInv, ShownSoFar
    <2> HIDE DEF says
    <2>2. /\ DOMAIN StreamEvent(Client(p), call.stream, e) = {"text", "open", "calls"}
          /\ StreamEvent(Client(p), call.stream, e).text =
               IF says THEN Append(call.stream.text, e.value) ELSE call.stream.text
      BY <2>1, StreamEventText DEF says
    <2> QED BY <1>2, <2>2
  <1>4. /\ call.stream.text \in Seq(EventValues) /\ call.shown \in Seq(Pieces)
        /\ (\A i \in DOMAIN call.shown : call.shown[i].by = p)
        /\ HeldBack(p) => call.shown = << >>
        /\ ~HeldBack(p) /\ "id" \notin call.failed => ShownText(call.shown) = call.stream.text
    BY <1>0 DEF VoiceInv, ShownSoFar, Asking, HeldBack
  <1>5. piece \in Pieces /\ e.value \in EventValues /\ <<e.value>> \in Seq(EventValues)
    <2>1. e.value \in EventValues
      BY DEF EventValues
    <2>2. <<e.value>> = [i \in 1 .. 1 |-> e.value]
      OBVIOUS
    <2> QED BY <2>1, <2>2 DEF Pieces
  <1> HIDE DEF piece, says
  <1>6. call'.stream.text \in Seq(EventValues)
    BY <1>3, <1>4, <1>5
  <1>7. call.shown \o <<piece>> = Append(call.shown, piece)
    BY <1>4
  <1>8. call'.shown \in Seq(Pieces) /\ \A i \in DOMAIN call'.shown : call'.shown[i].by = p
    <2>1. CASE says /\ ~HeldBack(p)
      <3>1. call'.shown = Append(call.shown, piece) /\ piece.by = p
        BY <1>2, <1>7, <2>1 DEF piece
      <3> QED BY <1>4, <1>5, <3>1
    <2>2. CASE ~(says /\ ~HeldBack(p))
      BY <1>2, <1>4, <2>2
    <2> QED BY <2>1, <2>2
  <1>9. ASSUME ~HeldBack(p), "id" \notin call.failed
        PROVE  ShownText(call'.shown) = call'.stream.text
    <2>1. CASE says
      <3>1. /\ call'.shown = Append(call.shown, piece) /\ piece.text = <<e.value>>
            /\ call'.stream.text = Append(call.stream.text, e.value)
        BY <1>2, <1>3, <1>7, <1>9, <2>1 DEF piece
      <3>2. call.shown \in Seq(Says(EventValues)) /\ piece \in Says(EventValues)
        <4>1. Pieces \subseteq Says(EventValues)
          BY DEF Pieces, Says
        <4> QED BY <1>4, <1>5, <4>1
      <3>3. ShownText(call'.shown) = ShownText(call.shown) \o <<e.value>>
        BY <3>1, <3>2, ShownTextAppend
      <3>4. call.stream.text \o <<e.value>> = Append(call.stream.text, e.value)
        BY <1>4
      <3> QED BY <1>4, <1>9, <3>1, <3>3, <3>4
    <2>2. CASE ~says
      BY <1>2, <1>3, <1>4, <1>9, <2>2
    <2> QED BY <2>1, <2>2
  <1>10. HeldBack(p) => call'.shown = << >>
    BY <1>2, <1>4
  <1>11. ShownSoFar'
    <2>1. EventValues' = EventValues /\ Pieces' = Pieces
      BY DEF EventValues, Pieces
    <2>2. \A q : HeldBack(q)' <=> HeldBack(q)
      BY <1>2 DEF HeldBack
    <2>3. HeldBack("ego")' => p # "ego" \/ call'.shown = << >>
      BY <1>10, <2>2
    <2>4. \A q \in {"ego", "id"} :
            call'.pc = q /\ Streaming(call'.op) /\ ~HeldBack(q)' /\ "id" \notin call'.failed =>
              ShownText(call'.shown) = call'.stream.text
      BY <1>2, <1>9, <2>2
    <2>5. \A q \in {"ego", "id"} : Asking(q)' => q = p
      BY <1>2 DEF Asking
    <2> QED BY <1>0, <1>2, <1>3, <1>6, <1>8, <2>1, <2>3, <2>4, <2>5 DEF ShownSoFar, ShownText, Streaming
  <1> QED BY <1>0, <1>11, VoiceOfLast DEF VoiceInv

\* A failure shows no end mark; the Id goes on only where it began.
LEMMA VoiceOfFailed ==
  ASSUME CallsInv, VoiceInv, NEW p \in {"ego", "id"}, Failed(p)
  PROVE  VoiceInv'
  <1>0. /\ Asking(p) /\ DOMAIN call = CallFields /\ call.shown \in Seq(Pieces)
        /\ call.pc \notin {"idle", "council"}
        /\ (\A i \in DOMAIN call.shown : call.shown[i].by = p)
    BY DEF Failed, Asking, CallsInv, CallsTyped, VoiceInv, ShownSoFar
  <1>1. CASE Next1(p) = "error"
    <2>1. /\ call' = NoCall
          /\ last' = [NoResult EXCEPT !.op = call.op, !.ok = FALSE, !.by = p, !.reply = Failure,
                        !.failed = call.failed \cup {p}, !.shown = call.shown, !.msg = call.msg]
      BY <1>0, <1>1 DEF Failed, CallFields
    <2>2. /\ last'.ok = FALSE /\ last'.shown = call.shown
      BY <2>1 DEF NoResult
    <2>3. {i \in DOMAIN last'.shown : last'.shown[i].by = "done"} = {}
      BY <1>0, <2>2
    <2>4. Ends(last'.shown) = 0
      BY <2>3, FS_EmptySet DEF Ends
    <2>5. ShownIsOneVoice'
      BY <2>2, <2>4 DEF ShownIsOneVoice, Ends
    <2> QED BY <2>1, <2>5, NothingShown DEF NoCall, VoiceInv
  <1>2. CASE Next1(p) # "error"
    <2>1. /\ call' = [call EXCEPT !.failed = call.failed \cup {p}, !.stream = NoStream,
                                  !.heard = 0, !.pc = Next1(p)]
          /\ UNCHANGED last
      BY <1>0, <1>2 DEF Failed, CallFields
    <2>2. /\ call'.op = call.op /\ call'.failed = call.failed \cup {p} /\ call'.pc = Next1(p)
          /\ call'.shown = call.shown /\ call'.stream = NoStream
      BY <1>0, <2>1 DEF CallFields
    <2>3. CASE call.shown = << >>
      BY <2>1, <2>2, <2>3, NothingShown, VoiceOfLast DEF VoiceInv
    <2>4. CASE call.shown # << >>
      <3>1. Streaming(call.op) /\ ~(call.pc = "ego" /\ HeldBack("ego"))
        BY <2>4 DEF VoiceInv, ShownSoFar
      <3>2. p = "id" /\ Next1(p) = "id_last"
        BY <1>0, <1>2, <3>1 DEF Next1, Streaming, FallsBack, HeldBack, Asking
      <3>3. DOMAIN NoStream = {"text", "open", "calls"} /\ NoStream.text = << >>
              /\ << >> \in Seq(EventValues)
        BY DEF NoStream
      <3>4. EventValues' = EventValues /\ Pieces' = Pieces
        BY DEF EventValues, Pieces
      <3>5. ShownSoFar'
        BY <1>0, <2>2, <3>1, <3>2, <3>3, <3>4 DEF ShownSoFar, Asking, Streaming
      <3> QED BY <2>1, <3>5, VoiceOfLast DEF VoiceInv
    <2> QED BY <2>3, <2>4
  <1> QED BY <1>1, <1>2

LEMMA VoiceOfConvene ==
  ASSUME VoiceInv, UNCHANGED last, NEW msg, Convene(msg)
  PROVE  VoiceInv'
  <1>1. call'.shown = << >> /\ call'.stream = NoStream
    BY DEF Convene, NoCall
  <1> QED BY <1>1, NothingShown, VoiceOfLast DEF VoiceInv

LEMMA VoiceOfSameCall ==
  ASSUME VoiceInv, UNCHANGED call, last' = NoResult \/ UNCHANGED last
  PROVE  VoiceInv'
  <1>1. ShownSoFar'
    BY DEF VoiceInv, ShownSoFar, EventValues, Pieces, ShownText, Asking, HeldBack
  <1>2. CASE UNCHANGED last
    BY <1>1, <1>2, VoiceOfLast DEF VoiceInv
  <1>3. CASE last' = NoResult
    <2>1. ShownIsOneVoice'
      BY <1>3 DEF ShownIsOneVoice, Streaming, NoResult
    <2> QED BY <1>1, <2>1 DEF VoiceInv
  <1> QED BY <1>2, <1>3

LEMMA VoiceOfCouncil ==
  ASSUME CallsInv, VoiceInv, CouncilStep
  PROVE  VoiceInv'
  <1>1. CASE DraftEnds \/ CritiqueEnds \/ CritiquesJoined
    BY <1>1, VoiceOfSameCall DEF DraftEnds, CritiqueEnds, CritiquesJoined
  <1>2. CASE DraftsJoined
    BY <1>2, VoiceOfSameCall, VoiceOfRoute DEF DraftsJoined, FallBackToRoute
  <1>3. CASE SynthesisFails \/ CouncilTimeout
    BY <1>3, VoiceOfRoute DEF SynthesisFails, CouncilTimeout, FallBackToRoute
  <1>4. CASE Synthesised
    <2>1. CASE setup.who # "chat"
      <3>1. PICK plan \in Messages : Route("tools", plan)
        BY <1>4, <2>1 DEF Synthesised
      <3> QED BY <1>4, <2>1, <3>1, VoiceOfRoute DEF Synthesised
    <2>2. CASE setup.who = "chat"
      <3>1. PICK a : Finish(TRUE, "council", a, << >>)
        BY <1>4, <2>2 DEF Synthesised
      <3>2. call.op = "tools"
        BY <1>4 DEF Synthesised, CallsInv, OneCallAtATime
      <3>3. call' = NoCall /\ last'.op = "tools"
        BY <3>1, <3>2, Finished
      <3>4. ShownIsOneVoice'
        BY <3>3 DEF ShownIsOneVoice, Streaming
      <3> QED BY <3>3, <3>4, NothingShown DEF NoCall, VoiceInv
    <2> QED BY <2>1, <2>2
  <1> QED BY <1>1, <1>2, <1>3, <1>4 DEF CouncilStep

LEMMA VoiceOfCaller ==
  ASSUME CallsInv, VoiceInv, CallerStep
  PROVE  VoiceInv'
  <1>1. CASE BeginCall
    BY <1>1, VoiceOfRoute, VoiceOfConvene DEF BeginCall
  <1>2. CASE BeginTurn
    BY <1>2, VoiceOfRoute, VoiceOfConvene DEF BeginTurn
  <1>3. CASE AskHeartbeat
    BY <1>3, VoiceOfRoute DEF AskHeartbeat
  <1>4. CASE EndCall \/ HeartbeatDone
    BY <1>4, VoiceOfSameCall DEF EndCall, HeartbeatDone
  <1>5. CASE EndTurn
    <2>1. UNCHANGED call /\ last' = NoResult
      BY <1>5 DEF EndTurn
    <2> QED BY <2>1, VoiceOfSameCall
  <1> QED BY <1>1, <1>2, <1>3, <1>4, <1>5 DEF CallerStep

\* What a streaming client is shown is the voice of one provider, and the
\* whole of it, whatever the failures on the way.
THEOREM ShownInOneVoice == CallsSpec => []ShownIsOneVoice
  <1>1. CallsInv /\ VoiceInv /\ [CallsNext]_callsVars => VoiceInv'
    <2> SUFFICES ASSUME CallsInv, VoiceInv, [CallsNext]_callsVars PROVE VoiceInv'
      OBVIOUS
    <2>1. CASE ProviderStep
      BY <2>1, VoiceOfAnswered, VoiceOfStreamEnds, VoiceOfStreamChunk, VoiceOfFailed DEF ProviderStep
    <2>2. CASE StrayEnds \/ UNCHANGED callsVars
      BY <2>2, VoiceOfSameCall DEF StrayEnds, callsVars
    <2>3. CASE ClientLeaves
      BY <2>3, NothingShown, VoiceOfLast DEF ClientLeaves, NoCall, VoiceInv
    <2> QED BY <2>1, <2>2, <2>3, VoiceOfChecks, VoiceOfCouncil, VoiceOfCaller DEF CallsNext
  <1>2. VoiceInv => ShownIsOneVoice
    BY DEF VoiceInv
  <1> QED BY <1>1, <1>2, VoiceInit, CallsInvariant, PTL DEF CallsSpec
------------------------------------------------------------------------------
\* The messages of a run: the prompt, the goal, then what was said.
Roles == {"user", "assistant"}
Kinds == {"prompt", "goal", "note", "answer", "none", "asked", "tools", "plan"}
Message == [role : Roles \cup {"system"}, kind : Kinds, size : Nat]
Conversation(h) ==
  /\ h \in Seq(Message) /\ Len(h) >= 2
  /\ h[1].role = "system" /\ h[2].kind = "goal"
  /\ \A i \in 2 .. Len(h) : h[i].role \in Roles

\* A set of numbers that is not empty has a least one.
LEMMA LeastExists ==
  ASSUME NEW S, S \subseteq Nat, S # {}
  PROVE  \E k \in S : \A j \in S : k <= j
  <1>1. PICK k \in S : \A j \in S : ~ (<<j, k>> \in OpToRel(<, Nat))
    BY NatLessThanWellFounded, WFMin
  <1>2. ASSUME NEW j \in S PROVE k <= j
    <2>1. j \in Nat /\ k \in Nat
      OBVIOUS
    <2>2. ASSUME j < k PROVE FALSE
      <3>1. <<j, k>> \in OpToRel(<, Nat)
        BY <2>1, <2>2 DEF OpToRel
      <3> QED BY <1>1, <3>1
    <2> QED BY <2>1, <2>2
  <1> QED BY <1>2

\* The size of one message, and of two.
Sums(f, msgs) ==
  f = [n \in 0 .. Len(msgs) |-> IF n = 0 THEN 0 ELSE f[n - 1] + msgs[n].size]

LEMMA TotalIs ==
  ASSUME NEW msgs, \E f : Sums(f, msgs)
  PROVE  \E f : Sums(f, msgs) /\ Total(msgs) = f[Len(msgs)]
  <1> DEFINE f == CHOOSE g : Sums(g, msgs)
  <1>1. Sums(f, msgs)
    OBVIOUS
  <1>2. Total(msgs) = f[Len(msgs)]
    BY DEF Total, Sums
  <1> QED BY <1>1, <1>2

LEMMA TotalOfOne ==
  ASSUME NEW m \in Message, NEW s \in Seq(Message), Len(s) = 1, s[1] = m
  PROVE  Total(s) = m.size
  <1> DEFINE g == [n \in 0 .. 1 |-> IF n = 0 THEN 0 ELSE m.size]
  <1>0. m.size \in Nat
    BY DEF Message
  <1>1. Sums(g, s)
    BY <1>0 DEF Sums
  <1> HIDE DEF g
  <1>2. PICK f : Sums(f, s) /\ Total(s) = f[1]
    BY <1>1, TotalIs
  <1>3. f[0] = 0
    BY <1>2 DEF Sums
  <1>4. f[1] = f[0] + m.size
    BY <1>2 DEF Sums
  <1> QED BY <1>0, <1>2, <1>3, <1>4

LEMMA TotalOfTwo ==
  ASSUME NEW s \in Seq(Message), Len(s) = 2
  PROVE  Total(s) \in Nat
  <1>0. s[1].size \in Nat /\ s[2].size \in Nat
    <2>1. 1 \in 1 .. Len(s) /\ 2 \in 1 .. Len(s)
      OBVIOUS
    <2>2. s[1] \in Message /\ s[2] \in Message
      BY <2>1, ElementOfSeq
    <2> QED BY <2>2 DEF Message
  <1> DEFINE g == [n \in 0 .. 2 |-> IF n = 0 THEN 0 ELSE IF n = 1 THEN s[1].size
                                    ELSE s[1].size + s[2].size]
  <1>1. Sums(g, s)
    BY <1>0 DEF Sums
  <1> HIDE DEF g
  <1>2. PICK f : Sums(f, s) /\ Total(s) = f[2]
    BY <1>1, TotalIs
  <1>3. f[0] = 0
    BY <1>2 DEF Sums
  <1>4. f[1] = f[0] + s[1].size
    BY <1>2 DEF Sums
  <1>5. f[2] = f[1] + s[2].size
    BY <1>2 DEF Sums
  <1> QED BY <1>0, <1>2, <1>3, <1>4, <1>5

\* Trimming keeps a conversation one, with its goal, and with its newest
\* message unless that alone is larger than the room.
Keeps(t, h) ==
  /\ Conversation(t)
  /\ SubSeq(t, 1, 2) = SubSeq(h, 1, 2)
  /\ Last(t) = Last(h) \/ Last(h).size > Budget - Total(SubSeq(h, 1, 2))

LEMMA TrimKeeps ==
  ASSUME NEW h, Conversation(h)
  PROVE  Keeps(TrimContext(h), h)
  <1> DEFINE room == Budget - Total(SubSeq(h, 1, 2))
             fits == {k \in 3 .. Len(h) + 1 : Total(Kept(h, k)) <= room} \cup {Len(h) + 1}
             from == CHOOSE k \in fits : \A j \in fits : k <= j
             note == Entry("user", "note", 1)
             t == SubSeq(h, 1, 2) \o <<note>> \o Kept(h, from)
  <1>0. /\ h \in Seq(Message) /\ Len(h) \in Nat /\ Len(h) >= 2
        /\ h[1].role = "system" /\ h[2].kind = "goal"
        /\ (\A i \in 2 .. Len(h) : h[i].role \in Roles)
    BY DEF Conversation
  <1>1. TrimContext(h) = IF Len(h) <= 2 \/ from <= 3 THEN h ELSE t
    BY DEF TrimContext
  <1>2. from \in fits /\ \A j \in fits : from <= j
    <2>1. fits \subseteq Nat /\ fits # {}
      BY <1>0
    <2> HIDE DEF fits
    <2>2. \E k \in fits : \A j \in fits : k <= j
      BY <2>1, LeastExists
    <2> QED BY <2>2
  <1>3. from \in 3 .. Len(h) + 1
    BY <1>0, <1>2
  <1>4. CASE Len(h) <= 2 \/ from <= 3
    BY <1>1, <1>4 DEF Keeps
  <1>5. CASE ~(Len(h) <= 2 \/ from <= 3)
    <2>1. room \in Int
      <3>1. SubSeq(h, 1, 2) \in Seq(Message) /\ Len(SubSeq(h, 1, 2)) = 2
        BY <1>0
      <3>2. Total(SubSeq(h, 1, 2)) \in Nat
        BY <3>1, TotalOfTwo
      <3> QED BY <3>2, BoundsAssumption
    <2>2. Last(h).size \in Nat
      <3>1. Last(h) \in Message
        BY <1>0 DEF Last
      <3> QED BY <3>1 DEF Message
    <2>3. Last(h).size <= room => from <= Len(h)
      <3>1. SUFFICES ASSUME Last(h).size <= room PROVE Len(h) \in fits
        BY <1>2
      <3>2. Kept(h, Len(h)) \in Seq(Message) /\ Len(Kept(h, Len(h))) = 1
              /\ Kept(h, Len(h))[1] = Last(h)
        BY <1>0 DEF Kept, Last
      <3>3. Total(Kept(h, Len(h))) = Last(h).size
        <4>1. Last(h) \in Message
          BY <1>0 DEF Last
        <4> QED BY <3>2, <4>1, TotalOfOne
      <3> QED BY <1>0, <1>5, <3>1, <3>3
    <2> HIDE DEF from, fits, room
    <2>4. note \in Message /\ note.role = "user"
      <3>1. note = [role |-> "user", kind |-> "note", size |-> 1]
        BY DEF Entry
      <3>2. note.role = "user" /\ "user" \in Roles \cup {"system"}
        BY <3>1 DEF Roles
      <3>3. "note" \in Kinds
        BY DEF Kinds
      <3>4. 1 \in Nat
        OBVIOUS
      <3> QED BY <3>1, <3>2, <3>3, <3>4 DEF Message
    <2> HIDE DEF note
    <2>5. PICK b : /\ b = Kept(h, from)
                   /\ b \in Seq(Message)
                   /\ Len(b) = Len(h) + 1 - from
                   /\ \A i \in 1 .. Len(h) + 1 - from : b[i] = h[from + i - 1]
      <3>1. \A i \in from .. Len(h) : h[i] \in Message
        <4>1. from .. Len(h) \subseteq 1 .. Len(h)
          BY <1>0, <1>3
        <4> QED BY <1>0, <4>1, ElementOfSeq
      <3>2. from \in Int /\ Len(h) \in Int /\ from <= Len(h) + 1
        BY <1>0, <1>3
      <3>3. /\ SubSeq(h, from, Len(h)) \in Seq(Message)
            /\ Len(SubSeq(h, from, Len(h))) = IF from <= Len(h) THEN Len(h) - from + 1 ELSE 0
            /\ \A i \in 1 .. Len(h) - from + 1 : SubSeq(h, from, Len(h))[i] = h[from + i - 1]
        BY <3>1, <3>2, SubSeqProperties
      <3>4. (IF from <= Len(h) THEN Len(h) - from + 1 ELSE 0) = Len(h) + 1 - from
        BY <3>2
      <3>5. Len(h) - from + 1 = Len(h) + 1 - from
        BY <3>2
      <3> QED BY <3>3, <3>4, <3>5 DEF Kept
    <2>6. /\ SubSeq(h, 1, 2) \in Seq(Message) /\ Len(SubSeq(h, 1, 2)) = 2
          /\ SubSeq(h, 1, 2)[1] = h[1] /\ SubSeq(h, 1, 2)[2] = h[2]
      BY <1>0
    <2>7. SubSeq(h, 1, 2) \o <<note>> = Append(SubSeq(h, 1, 2), note)
      BY <2>6
    <2>8. /\ t \in Seq(Message) /\ Len(t) = 3 + (Len(h) + 1 - from)
          /\ t[1] = h[1] /\ t[2] = h[2] /\ t[3] = note
          /\ \A i \in 4 .. 3 + (Len(h) + 1 - from) : t[i] = h[from + (i - 3) - 1]
      <3> DEFINE a == Append(SubSeq(h, 1, 2), note)
      <3>1. a \in Seq(Message) /\ Len(a) = 3 /\ a[1] = h[1] /\ a[2] = h[2] /\ a[3] = note
        BY <2>4, <2>6
      <3>2. t = a \o b
        BY <2>5, <2>7
      <3>. HIDE DEF a, t
      <3>3. /\ a \o b \in Seq(Message) /\ Len(a \o b) = Len(a) + Len(b)
            /\ \A i \in 1 .. Len(a) + Len(b) :
                 (a \o b)[i] = IF i <= Len(a) THEN a[i] ELSE b[i - Len(a)]
        BY <2>5, <3>1, ConcatProperties, Zenon
      <3>4. /\ t \in Seq(Message) /\ Len(t) = 3 + (Len(h) + 1 - from)
            /\ \A i \in 1 .. 3 + (Len(h) + 1 - from) : t[i] = IF i <= 3 THEN a[i] ELSE b[i - 3]
        BY <2>5, <3>1, <3>2, <3>3, Zenon
      <3>5. {1, 2, 3} \subseteq 1 .. 3 + (Len(h) + 1 - from)
        BY <1>0, <1>3
      <3>6. t[1] = h[1] /\ t[2] = h[2] /\ t[3] = note
        BY <3>1, <3>4, <3>5
      <3>7. ASSUME NEW i \in 4 .. 3 + (Len(h) + 1 - from)
            PROVE  t[i] = h[from + (i - 3) - 1]
        <4>1. i - 3 \in 1 .. Len(h) + 1 - from /\ ~ (i <= 3)
              /\ i \in 1 .. 3 + (Len(h) + 1 - from)
          BY <1>0, <1>3
        <4>2. t[i] = b[i - 3]
          BY <3>4, <4>1
        <4> QED BY <2>5, <4>1, <4>2
      <3> QED BY <3>4, <3>6, <3>7
    <2> HIDE DEF t
    <2>9. Conversation(t)
      <3>1. ASSUME NEW i \in 2 .. Len(t) PROVE t[i].role \in Roles
        <4>1. CASE i = 2
          BY <1>0, <2>8, <4>1
        <4>2. CASE i = 3
          BY <2>4, <2>8, <4>2 DEF Roles
        <4>3. CASE i > 3
          <5>1. i \in 4 .. 3 + (Len(h) + 1 - from) /\ from + (i - 3) - 1 \in 2 .. Len(h)
            BY <1>0, <1>3, <2>8, <4>3
          <5> QED BY <1>0, <2>8, <5>1
        <4> QED BY <4>1, <4>2, <4>3
      <3>2. Len(t) >= 2
        BY <1>0, <1>3, <2>8
      <3> QED BY <1>0, <2>8, <3>1, <3>2 DEF Conversation
    <2>10. SubSeq(t, 1, 2) = SubSeq(h, 1, 2)
      BY <1>0, <1>3, <2>8
    <2>11. Last(t) = Last(h) \/ Last(h).size > room
      <3>1. CASE Last(h).size <= room
        <4>1. from <= Len(h) /\ from \in Nat
          BY <1>3, <2>3, <3>1
        <4>2. Len(t) \in 4 .. 3 + (Len(h) + 1 - from) /\ from + (Len(t) - 3) - 1 = Len(h)
          BY <1>0, <2>8, <4>1
        <4>3. t[Len(t)] = h[Len(h)]
          BY <2>8, <4>2
        <4> QED BY <4>3 DEF Last
      <3>2. CASE ~(Last(h).size <= room)
        BY <2>1, <2>2, <3>2
      <3> QED BY <3>1, <3>2
    <2> QED BY <1>1, <1>5, <2>9, <2>10, <2>11 DEF Keeps, room
  <1> QED BY <1>4, <1>5


\* The conversation without its system text is all of it but the prompt.
TalkOf(t, h) ==
  /\ t \in Seq(Message) /\ Len(t) = Len(h) - 1
  /\ \A i \in 1 .. Len(h) - 1 : t[i] = h[i + 1]

LEMMA SingleIsSeq ==
  ASSUME NEW V, NEW x \in V
  PROVE  <<x>> \in Seq(V)
  <1>1. <<x>> = [i \in 1 .. 1 |-> x]
    OBVIOUS
  <1> QED BY <1>1

LEMMA TalkIs ==
  ASSUME NEW h, Conversation(h)
  PROVE  TalkOf(Talk(h), h)
  <1>0. /\ h \in Seq(Message) /\ Len(h) \in Nat /\ Len(h) >= 2
        /\ h[1].role = "system"
        /\ \A i \in 2 .. Len(h) : h[i].role \in Roles
    BY DEF Conversation
  <1>a. \A i \in 1 .. Len(h) : h[i] \in Message
    BY <1>0, ElementOfSeq
  <1> DEFINE Part(i) == IF h[i].role = "system" THEN << >> ELSE <<h[i]>>
             Parts(n) == [i \in 1 .. n |-> Part(i)]
             T == {n \in Nat : n + 1 <= Len(h) => FlattenSeq(Parts(n + 1)) = SubSeq(h, 2, n + 1)}
  <1>1. Part(1) = << >>
    BY <1>0
  <1>2. ASSUME NEW i \in 2 .. Len(h) PROVE Part(i) = <<h[i]>>
    BY <1>0 DEF Roles
  <1>3. ASSUME NEW i \in 1 .. Len(h) PROVE Part(i) \in Seq(Message)
    <2>1. <<h[i]>> \in Seq(Message) /\ << >> \in Seq(Message)
      BY <1>a, SingleIsSeq
    <2> QED BY <2>1
  <1>4. ASSUME NEW n \in Nat, n <= Len(h) PROVE Parts(n) \in Seq(Seq(Message))
    <2>1. \A i \in 1 .. n : Part(i) \in Seq(Message)
      BY <1>0, <1>3, <1>4
    <2> HIDE DEF Part
    <2>2. Parts(n) \in [1 .. n -> Seq(Message)]
      BY <2>1
    <2> QED BY <2>2
  <1>5. ASSUME NEW n \in Nat PROVE Parts(n + 1) = Append(Parts(n), Part(n + 1))
    <2> HIDE DEF Part
    <2> QED OBVIOUS
  <1> HIDE DEF Part, Parts
  <1>6. 0 \in T
    <2>1. Parts(0) = << >> /\ << >> \in Seq(Message)
      BY DEF Parts
    <2>2. Parts(0) \in Seq(Seq(Message))
      BY <1>0, <1>4
    <2>3. FlattenSeq(Parts(1)) = << >> \o << >>
      <3>1. 0 + 1 = 1 /\ 0 \in Nat
        OBVIOUS
      <3>2. Parts(1) = Append(Parts(0), << >>)
        BY <1>1, <1>5, <3>1
      <3>3. FlattenSeq(Append(Parts(0), << >>)) = FlattenSeq(Parts(0)) \o << >>
        BY <2>1, <2>2, FlattenAppend
      <3>4. FlattenSeq(Parts(0)) = << >>
        BY <2>1, FlattenEmpty
      <3> QED BY <3>2, <3>3, <3>4
    <2>4. SubSeq(h, 2, 1) = << >>
      BY SubSeqEmpty
    <2>5. << >> \o << >> = << >>
      OBVIOUS
    <2>6. 0 + 1 = 1
      OBVIOUS
    <2>7. FlattenSeq(Parts(0 + 1)) = SubSeq(h, 2, 0 + 1)
      BY <2>3, <2>4, <2>5, <2>6, Zenon
    <2> QED BY <2>7
  <1>7. ASSUME NEW n \in Nat, n \in T PROVE n + 1 \in T
    <2>1. SUFFICES ASSUME n + 2 <= Len(h)
                   PROVE  FlattenSeq(Parts(n + 2)) = SubSeq(h, 2, n + 2)
      <3>1. (n + 1) + 1 = n + 2
        OBVIOUS
      <3> QED BY <3>1
    <2>2. n + 1 \in Nat /\ n + 1 <= Len(h) /\ (n + 1) + 1 = n + 2 /\ n + 2 \in 2 .. Len(h)
      BY <1>0, <2>1
    <2>3. Parts(n + 2) = Append(Parts(n + 1), <<h[n + 2]>>)
      BY <1>2, <1>5, <2>2
    <2>4. Parts(n + 1) \in Seq(Seq(Message)) /\ <<h[n + 2]>> \in Seq(Message)
      <3>1. n + 2 \in 1 .. Len(h)
        BY <2>2
      <3> QED BY <1>4, <1>a, <2>2, <3>1, SingleIsSeq
    <2>5. FlattenSeq(Parts(n + 1)) = SubSeq(h, 2, n + 1)
      BY <1>7, <2>2
    <2>6. SubSeq(h, 2, n + 2) = SubSeq(h, 2, n + 1) \o <<h[n + 2]>>
      <3>1. (n + 2) - 1 = n + 1 /\ 2 \in 1 .. Len(h)
        BY <1>0
      <3> QED BY <1>0, <2>2, <3>1, SubSeqRecursiveSecond
    <2> QED BY <2>3, <2>4, <2>5, <2>6, FlattenAppend
  <1>8. \A n \in Nat : n \in T
    <2> HIDE DEF T
    <2> QED BY <1>6, <1>7, SetInduction
  <1>9. Len(h) - 1 \in Nat /\ (Len(h) - 1) + 1 = Len(h)
    BY <1>0
  <1>10. FlattenSeq(Parts(Len(h))) = SubSeq(h, 2, Len(h))
    <2>1. Len(h) - 1 \in T
      BY <1>8, <1>9
    <2> QED BY <1>0, <1>9, <2>1
  <1>11. Talk(h) = SubSeq(h, 2, Len(h))
    <2>1. [i \in DOMAIN h |-> IF h[i].role = "system" THEN << >> ELSE <<h[i]>>] = Parts(Len(h))
      BY <1>0 DEF Parts, Part
    <2> QED BY <1>10, <2>1 DEF Talk
  <1>12. \A i \in 2 .. Len(h) : h[i] \in Message
    BY <1>a
  <1>13. /\ SubSeq(h, 2, Len(h)) \in Seq(Message)
         /\ Len(SubSeq(h, 2, Len(h))) = IF 2 <= Len(h) THEN Len(h) - 2 + 1 ELSE 0
         /\ \A i \in 1 .. Len(h) - 2 + 1 : SubSeq(h, 2, Len(h))[i] = h[2 + i - 1]
    <2>1. 2 \in Int /\ Len(h) \in Int
      BY <1>0
    <2> QED BY <1>12, <2>1, SubSeqProperties
  <1>14. Len(h) - 2 + 1 = Len(h) - 1 /\ 2 <= Len(h) /\ \A i \in 1 .. Len(h) - 1 : 2 + i - 1 = i + 1
    BY <1>0
  <1> QED BY <1>11, <1>13, <1>14 DEF TalkOf

------------------------------------------------------------------------------
\* Joining three sequences, either two of them first.
Associates(a, b, c) == (a \o b) \o c = a \o (b \o c)

LEMMA JoinAssociates ==
  ASSUME NEW V, NEW a \in Seq(V), NEW b \in Seq(V), NEW c \in Seq(V)
  PROVE  Associates(a, b, c)
  BY ConcatAssociative DEF Associates

\* What is added to the last of a sequence of sequences is flattened at the end.
LEMMA FlattenExtend ==
  ASSUME NEW V, NEW s \in Seq(Seq(V)), NEW x \in Seq(V), s # << >>
  PROVE  FlattenSeq([s EXCEPT ![Len(s)] = @ \o x]) = FlattenSeq(s) \o x
  <1>1. PICK p \in Seq(Seq(V)), e \in Seq(V) : s = Append(p, e)
    BY SequenceEmptyOrAppend
  <1>2. e \o x \in Seq(V)
    BY ConcatProperties
  <1>3. [s EXCEPT ![Len(s)] = @ \o x] = Append(p, e \o x)
    <2>1. PICK y \in Seq(V) : y = e \o x
      BY <1>2
    <2>2. Len(s) \in 1 .. Len(s) /\ Len(s) = Len(p) + 1 /\ s[Len(s)] = e
      BY <1>1
    <2>3. [s EXCEPT ![Len(s)] = y] = Append(p, y)
      <3>1. \A i \in 1 .. Len(p) : s[i] = p[i]
        BY <1>1
      <3>2. /\ [s EXCEPT ![Len(s)] = y] \in Seq(Seq(V))
            /\ Len([s EXCEPT ![Len(s)] = y]) = Len(s)
            /\ \A j \in 1 .. Len(s) :
                 [s EXCEPT ![Len(s)] = y][j] = IF j = Len(s) THEN y ELSE s[j]
        BY <2>2, ExceptSeq
      <3>3. /\ Append(p, y) \in Seq(Seq(V)) /\ Len(Append(p, y)) = Len(p) + 1
            /\ \A i \in 1 .. Len(p) : Append(p, y)[i] = p[i]
            /\ Append(p, y)[Len(p) + 1] = y
        BY AppendProperties
      <3>4. \A j \in 1 .. Len(s) : j = Len(s) \/ j \in 1 .. Len(p)
        BY <2>2
      <3>5. \A j \in 1 .. Len(s) : [s EXCEPT ![Len(s)] = y][j] = Append(p, y)[j]
        BY <2>2, <3>1, <3>2, <3>3, <3>4
      <3> QED BY <2>2, <3>2, <3>3, <3>5, SeqEqual
    <2> QED BY <2>1, <2>2, <2>3
  <1>4. FlattenSeq(s) = FlattenSeq(p) \o e
    BY <1>1, FlattenAppend
  <1>5. FlattenSeq(Append(p, e \o x)) = FlattenSeq(p) \o (e \o x)
    BY <1>2, FlattenAppend
  <1>6. (FlattenSeq(p) \o e) \o x = FlattenSeq(p) \o (e \o x)
    <2>1. FlattenSeq(p) \in Seq(V)
      BY FlattenType
    <2>2. PICK q \in Seq(V) : q = FlattenSeq(p)
      BY <2>1
    <2>3. Associates(q, e, x)
      BY JoinAssociates
    <2> QED BY <2>2, <2>3 DEF Associates
  <1> QED BY <1>3, <1>4, <1>5, <1>6

\* A message in Anthropic's form.
Block == [role : Roles, blocks : Seq(Message)]
Blocks(s) == [i \in 1 .. Len(s) |-> s[i].blocks]

Merges(f, msgs) ==
  f = [n \in 0 .. Len(msgs) |->
         IF n = 0 THEN << >>
         ELSE IF n > 1 /\ msgs[n - 1].role = msgs[n].role
              THEN [f[n - 1] EXCEPT ![Len(f[n - 1])].blocks = @ \o msgs[n].blocks]
              ELSE Append(f[n - 1], msgs[n])]

LEMMA MergesExists ==
  ASSUME NEW S, NEW msgs \in Seq(S)
  PROVE  \E f : Merges(f, msgs)
  <1> DEFINE More(n, out) == IF n > 1 /\ msgs[n - 1].role = msgs[n].role
                             THEN [out EXCEPT ![Len(out)].blocks = @ \o msgs[n].blocks]
                             ELSE Append(out, msgs[n])
             Upto(f, n) == f = [i \in 0 .. n |-> IF i = 0 THEN << >> ELSE More(i, f[i - 1])]
             T == {n \in Nat : \E f : Upto(f, n)}
  <1>a. ASSUME NEW f PROVE Upto(f, Len(msgs)) <=> Merges(f, msgs)
    BY DEF Merges
  <1> HIDE DEF More
  <1>1. 0 \in T
    <2>1. Upto([i \in 0 .. 0 |-> << >>], 0)
      OBVIOUS
    <2> QED BY <2>1
  <1>2. ASSUME NEW n \in Nat, n \in T PROVE n + 1 \in T
    <2>1. PICK f : Upto(f, n)
      BY <1>2
    <2> DEFINE g == [i \in 0 .. n + 1 |-> IF i \in 0 .. n THEN f[i] ELSE More(i, f[i - 1])]
    <2>2. \A i \in 0 .. n : f[i] = IF i = 0 THEN << >> ELSE More(i, f[i - 1])
      BY <2>1
    <2>3. ASSUME NEW i \in 0 .. n + 1
          PROVE  g[i] = IF i = 0 THEN << >> ELSE More(i, g[i - 1])
      <3>1. CASE i = 0
        BY <3>1, <2>2
      <3>2. CASE i # 0
        <4>1. i - 1 \in 0 .. n /\ i - 1 \in 0 .. n + 1
          BY <3>2
        <4>2. g[i - 1] = f[i - 1]
          BY <4>1
        <4>3. g[i] = More(i, f[i - 1])
          BY <3>2, <2>2
        <4> QED BY <3>2, <4>2, <4>3
      <3> QED BY <3>1, <3>2
    <2>4. g = [i \in 0 .. n + 1 |-> g[i]]
      OBVIOUS
    <2> HIDE DEF g
    <2>5. Upto(g, n + 1)
      BY <2>3, <2>4
    <2> HIDE DEF Upto
    <2> QED BY <2>5
  <1> HIDE DEF T, Upto
  <1>3. Len(msgs) \in T
    BY <1>1, <1>2, SetInduction
  <1> QED BY <1>3, <1>a DEF T

LEMMA MergeIs ==
  ASSUME NEW S, NEW msgs \in Seq(S)
  PROVE  \E f : Merges(f, msgs) /\ MergeConsecutiveRoles(msgs) = f[Len(msgs)]
  <1> DEFINE f == CHOOSE g : Merges(g, msgs)
  <1>1. Merges(f, msgs)
    BY MergesExists
  <1>2. MergeConsecutiveRoles(msgs) = f[Len(msgs)]
    BY DEF MergeConsecutiveRoles, Merges
  <1> QED BY <1>1, <1>2

\* The merged messages: no role twice in a row, and all that was said.
Alternates(s) == \A i \in 1 .. Len(s) - 1 : s[i].role # s[i + 1].role

Merged(out, msgs, n) ==
  /\ out \in Seq(Block)
  /\ n = 0 => out = << >>
  /\ n > 0 => out # << >> /\ out[Len(out)].role = msgs[n].role
  /\ Alternates(out)
  /\ FlattenSeq(Blocks(out)) = FlattenSeq(Blocks(SubSeq(msgs, 1, n)))

\* One more message of another role.
LEMMA MergeAppends ==
  ASSUME NEW out \in Seq(Block), NEW m \in Block,
         out = << >> \/ out[Len(out)].role # m.role, Alternates(out)
  PROVE  /\ Append(out, m) \in Seq(Block) /\ Append(out, m) # << >>
         /\ Append(out, m)[Len(Append(out, m))].role = m.role
         /\ Alternates(Append(out, m))
         /\ Blocks(Append(out, m)) = Append(Blocks(out), m.blocks)
  <1> DEFINE s == Append(out, m)
  <1>1. /\ s \in Seq(Block) /\ s # << >> /\ Len(s) = Len(out) + 1 /\ Len(out) \in Nat
        /\ \A i \in 1 .. Len(out) : s[i] = out[i]
        /\ s[Len(out) + 1] = m
    BY AppendProperties
  <1> HIDE DEF s
  <1>2. ASSUME NEW i \in 1 .. Len(s) - 1 PROVE s[i].role # s[i + 1].role
    <2>1. i \in 1 .. Len(out) /\ s[i] = out[i]
      BY <1>1
    <2>2. CASE i = Len(out)
      <3>1. out # << >> /\ s[i + 1] = m
        BY <1>1, <2>1, <2>2
      <3> QED BY <2>1, <2>2, <3>1
    <2>3. CASE i # Len(out)
      <3>1. i \in 1 .. Len(out) - 1 /\ i + 1 \in 1 .. Len(out)
        BY <1>1, <2>1, <2>3
      <3>2. s[i + 1] = out[i + 1]
        BY <1>1, <3>1
      <3> QED BY <2>1, <3>1, <3>2 DEF Alternates
    <2> QED BY <2>2, <2>3
  <1>3. Blocks(s) = Append(Blocks(out), m.blocks)
    BY <1>1 DEF Blocks
  <1> QED BY <1>1, <1>2, <1>3 DEF s, Alternates

\* One more of the role of the last.
JoinedTo(out, m) == [out EXCEPT ![Len(out)].blocks = @ \o m.blocks]

LEMMA MergeJoins ==
  ASSUME NEW out \in Seq(Block), NEW m \in Block, out # << >>,
         out[Len(out)].role = m.role, Alternates(out),
         NEW s, s = JoinedTo(out, m)
  PROVE  /\ s \in Seq(Block) /\ s # << >> /\ s[Len(s)].role = m.role
         /\ Alternates(s)
         /\ Blocks(s) = [Blocks(out) EXCEPT ![Len(Blocks(out))] = @ \o m.blocks]
  <1>1. Len(out) \in 1 .. Len(out) /\ out[Len(out)] \in Block
    BY EmptySeq, ElementOfSeq
  <1>2. PICK e : e = [out[Len(out)] EXCEPT !.blocks = @ \o m.blocks]
    OBVIOUS
  <1>3. e \in Block /\ e.role = m.role /\ e.blocks = out[Len(out)].blocks \o m.blocks
    <2>1. out[Len(out)].blocks \o m.blocks \in Seq(Message)
      BY <1>1, ConcatProperties DEF Block
    <2> QED BY <1>1, <1>2, <2>1 DEF Block
  <1>4. s = [out EXCEPT ![Len(out)] = e]
    BY <1>2 DEF JoinedTo
  <1>5. /\ s \in Seq(Block) /\ Len(s) = Len(out)
        /\ \A j \in 1 .. Len(out) : s[j] = IF j = Len(out) THEN e ELSE out[j]
    <2>1. /\ [out EXCEPT ![Len(out)] = e] \in Seq(Block)
          /\ Len([out EXCEPT ![Len(out)] = e]) = Len(out)
          /\ \A j \in 1 .. Len(out) :
               [out EXCEPT ![Len(out)] = e][j] = IF j = Len(out) THEN e ELSE out[j]
      BY <1>1, <1>3, ExceptSeq
    <2> QED BY <1>4, <2>1, Zenon
  <1>6. \A j \in 1 .. Len(out) : s[j].role = out[j].role
    BY <1>3, <1>5
  <1>7. Alternates(s)
    <2>1. \A i \in 1 .. Len(out) - 1 : i \in 1 .. Len(out) /\ i + 1 \in 1 .. Len(out)
      BY <1>1
    <2> QED BY <1>5, <1>6, <2>1 DEF Alternates
  <1>8. Blocks(s) = [Blocks(out) EXCEPT ![Len(Blocks(out))] = @ \o m.blocks]
    <2>1. Len(Blocks(out)) = Len(out)
      BY <1>1 DEF Blocks
    <2>2. Blocks(s) = [j \in 1 .. Len(out) |-> IF j = Len(out) THEN e.blocks ELSE out[j].blocks]
      <3>1. Blocks(s) = [j \in 1 .. Len(out) |-> s[j].blocks]
        BY <1>5 DEF Blocks
      <3>2. ASSUME NEW j \in 1 .. Len(out)
            PROVE  s[j].blocks = IF j = Len(out) THEN e.blocks ELSE out[j].blocks
        <4>1. s[j] = IF j = Len(out) THEN e ELSE out[j]
          BY <1>5
        <4>2. CASE j = Len(out)
          BY <4>1, <4>2, Zenon
        <4>3. CASE j # Len(out)
          BY <4>1, <4>3, Zenon
        <4> QED BY <4>2, <4>3
      <3> QED BY <3>1, <3>2, Zenon
    <2>3. [Blocks(out) EXCEPT ![Len(out)] = out[Len(out)].blocks \o m.blocks]
            = [j \in 1 .. Len(out) |-> IF j = Len(out) THEN e.blocks ELSE out[j].blocks]
      BY <1>3 DEF Blocks
    <2>4. Blocks(out)[Len(out)] = out[Len(out)].blocks
      BY <1>1 DEF Blocks
    <2> QED BY <2>1, <2>2, <2>3, <2>4
  <1>9. s # << >>
    <2>1. Len(s) # 0
      BY <1>1, <1>5
    <2> QED BY <2>1
  <1> QED BY <1>1, <1>5, <1>6, <1>7, <1>8, <1>9

\* Merging gives messages of alternating roles that say all that was said.
LEMMA MergeKeeps ==
  ASSUME NEW msgs \in Seq(Block)
  PROVE  Merged(MergeConsecutiveRoles(msgs), msgs, Len(msgs))
  <1>1. PICK f : Merges(f, msgs) /\ MergeConsecutiveRoles(msgs) = f[Len(msgs)]
    BY MergeIs
  <1> DEFINE T == {n \in Nat : n <= Len(msgs) => Merged(f[n], msgs, n)}
  <1>2. ASSUME NEW s \in Seq(Block)
        PROVE  Blocks(s) \in Seq(Seq(Message))
    <2>1. ASSUME NEW i \in 1 .. Len(s) PROVE s[i].blocks \in Seq(Message)
      <3>1. s[i] \in Block
        BY ElementOfSeq
      <3> QED BY <3>1 DEF Block
    <2> QED BY <2>1 DEF Blocks
  <1>3. 0 \in T
    <2>1. f[0] = << >>
      BY <1>1 DEF Merges
    <2>2. << >> \in Seq(Block) /\ Alternates(<< >>)
      BY DEF Alternates
    <2>3. SubSeq(msgs, 1, 0) = << >>
      BY SubSeqEmpty
    <2>4. FlattenSeq(Blocks(f[0])) = FlattenSeq(Blocks(SubSeq(msgs, 1, 0)))
      BY <2>1, <2>3, Zenon
    <2>5. ~ (0 > 0)
      OBVIOUS
    <2>6. Merged(f[0], msgs, 0)
      BY <2>1, <2>2, <2>4, <2>5, Zenon DEF Merged
    <2> QED BY <2>6
  <1>4. ASSUME NEW n \in Nat, n \in T PROVE n + 1 \in T
    <2>1. SUFFICES ASSUME n + 1 <= Len(msgs) PROVE Merged(f[n + 1], msgs, n + 1)
      OBVIOUS
    <2>2. n + 1 \in 1 .. Len(msgs) /\ n <= Len(msgs) /\ (n + 1) - 1 = n
      BY <2>1
    <2>3. Merged(f[n], msgs, n)
      BY <1>4, <2>2
    <2>a. SubSeq(msgs, 1, n) \in Seq(Block)
      <3>1. \A i \in 1 .. n : msgs[i] \in Block
        <4>1. 1 .. n \subseteq 1 .. Len(msgs)
          BY <2>2
        <4> QED BY <4>1, ElementOfSeq
      <3> QED BY <3>1, SubSeqProperties
    <2>4. PICK m \in Block : m = msgs[n + 1]
      BY <2>2, ElementOfSeq
    <2>5. f[n + 1] = IF n + 1 > 1 /\ msgs[n].role = m.role
                     THEN JoinedTo(f[n], m)
                     ELSE Append(f[n], m)
      <3>1. n + 1 \in 0 .. Len(msgs) /\ n + 1 # 0
        BY <2>2
      <3> QED BY <1>1, <2>2, <2>4, <3>1 DEF Merges, JoinedTo
    <2>6. Blocks(SubSeq(msgs, 1, n + 1)) = Append(Blocks(SubSeq(msgs, 1, n)), m.blocks)
      <3>1. SubSeq(msgs, 1, n + 1) = Append(SubSeq(msgs, 1, n), m)
        BY <2>2, <2>4
      <3>2. PICK p \in Seq(Block) : p = SubSeq(msgs, 1, n)
        BY <2>a
      <3>3. Blocks(Append(p, m)) = Append(Blocks(p), m.blocks)
        BY DEF Blocks
      <3> QED BY <3>1, <3>2, <3>3
    <2>7. FlattenSeq(Blocks(SubSeq(msgs, 1, n + 1))) = FlattenSeq(Blocks(f[n])) \o m.blocks
      <3>1. PICK p \in Seq(Block) : p = SubSeq(msgs, 1, n)
        BY <2>a
      <3>2. Blocks(p) \in Seq(Seq(Message)) /\ m.blocks \in Seq(Message)
        BY <1>2 DEF Block
      <3>3. FlattenSeq(Append(Blocks(p), m.blocks)) = FlattenSeq(Blocks(p)) \o m.blocks
        BY <3>2, FlattenAppend
      <3> QED BY <2>3, <2>6, <3>1, <3>3 DEF Merged
    <2>8. PICK out \in Seq(Block) : out = f[n]
      BY <2>3 DEF Merged
    <2>9. /\ n = 0 => out = << >>
          /\ n > 0 => out # << >> /\ out[Len(out)].role = msgs[n].role
          /\ Alternates(out)
      BY <2>3, <2>8 DEF Merged
    <2>10. CASE n + 1 > 1 /\ msgs[n].role = m.role
      <3>1. n > 0 /\ out # << >> /\ out[Len(out)].role = m.role
        BY <2>9, <2>10
      <3>2. PICK s : s = JoinedTo(out, m)
        OBVIOUS
      <3>3. /\ s \in Seq(Block) /\ s # << >> /\ s[Len(s)].role = m.role
            /\ Alternates(s)
            /\ Blocks(s) = [Blocks(out) EXCEPT ![Len(Blocks(out))] = @ \o m.blocks]
        BY <2>9, <3>1, <3>2, MergeJoins
      <3>4. Blocks(out) \in Seq(Seq(Message)) /\ m.blocks \in Seq(Message) /\ Blocks(out) # << >>
        <4>1. Len(out) # 0 /\ Len(Blocks(out)) = Len(out)
          BY <3>1 DEF Blocks
        <4> QED BY <1>2, <4>1 DEF Block
      <3>5. FlattenSeq(Blocks(s)) = FlattenSeq(Blocks(out)) \o m.blocks
        BY <3>3, <3>4, FlattenExtend
      <3>6. f[n + 1] = s
        BY <2>5, <2>8, <2>10, <3>2
      <3>7. FlattenSeq(Blocks(s)) = FlattenSeq(Blocks(SubSeq(msgs, 1, n + 1)))
        BY <2>7, <2>8, <3>5
      <3>8. n + 1 # 0
        OBVIOUS
      <3> QED BY <2>4, <3>3, <3>6, <3>7, <3>8, Zenon DEF Merged
    <2>11. CASE ~(n + 1 > 1 /\ msgs[n].role = m.role)
      <3>1. out = << >> \/ out[Len(out)].role # m.role
        BY <2>9, <2>11
      <3>2. /\ Append(out, m) \in Seq(Block) /\ Append(out, m) # << >>
            /\ Append(out, m)[Len(Append(out, m))].role = m.role
            /\ Alternates(Append(out, m))
            /\ Blocks(Append(out, m)) = Append(Blocks(out), m.blocks)
        BY <2>9, <3>1, MergeAppends
      <3>3. Blocks(out) \in Seq(Seq(Message)) /\ m.blocks \in Seq(Message)
        BY <1>2 DEF Block
      <3>4. FlattenSeq(Append(Blocks(out), m.blocks)) = FlattenSeq(Blocks(out)) \o m.blocks
        BY <3>3, FlattenAppend
      <3>5. PICK s : s = Append(out, m)
        OBVIOUS
      <3>6. f[n + 1] = s
        BY <2>5, <2>8, <2>11, <3>5
      <3>7. FlattenSeq(Blocks(s)) = FlattenSeq(Blocks(SubSeq(msgs, 1, n + 1)))
        BY <2>7, <2>8, <3>2, <3>4, <3>5
      <3>8. n + 1 # 0
        OBVIOUS
      <3> QED BY <2>4, <3>2, <3>5, <3>6, <3>7, <3>8, Zenon DEF Merged
    <2> QED BY <2>10, <2>11
  <1>5. \A n \in Nat : n \in T
    <2> HIDE DEF T
    <2> QED BY <1>3, <1>4, SetInduction
  <1>6. Len(msgs) \in T /\ Len(msgs) <= Len(msgs)
    BY <1>5
  <1> QED BY <1>1, <1>6

------------------------------------------------------------------------------
\* What Anthropic is sent: no role twice in a row, and the whole talk.
Converted(s, h) ==
  /\ Alternates(s)
  /\ FlattenSeq([i \in DOMAIN s |-> s[i].blocks]) = Talk(h)

LEMMA ConvertKeeps ==
  ASSUME NEW h, Conversation(h)
  PROVE  Converted(ConvertMessages(h), h)
  <1>1. PICK t : t = Talk(h)
    OBVIOUS
  <1>2. t \in Seq(Message)
    BY <1>1, TalkIs DEF TalkOf
  <1> DEFINE msgs == [i \in DOMAIN t |-> [role |-> AnthropicRole(t[i]), blocks |-> <<t[i]>>]]
  <1>3. ConvertMessages(h) = MergeConsecutiveRoles(msgs)
    BY <1>1 DEF ConvertMessages
  <1>4. ASSUME NEW i \in 1 .. Len(t)
        PROVE  [role |-> AnthropicRole(t[i]), blocks |-> <<t[i]>>] \in Block
    <2>1. <<t[i]>> \in Seq(Message)
      BY <1>2, ElementOfSeq, SingleIsSeq
    <2>2. AnthropicRole(t[i]) \in Roles
      BY DEF AnthropicRole, Roles
    <2> QED BY <2>1, <2>2 DEF Block
  <1>5. DOMAIN t = 1 .. Len(t) /\ Len(t) \in Nat
    BY <1>2
  <1>6. msgs \in Seq(Block) /\ Len(msgs) = Len(t)
    BY <1>4, <1>5
  <1>7. Blocks(msgs) = [i \in DOMAIN t |-> <<t[i]>>]
    BY <1>5, <1>6 DEF Blocks
  <1> HIDE DEF msgs
  <1>8. PICK s : s = MergeConsecutiveRoles(msgs) /\ Merged(s, msgs, Len(msgs))
    BY <1>6, MergeKeeps
  <1>9. SubSeq(msgs, 1, Len(msgs)) = msgs
    BY <1>6, SubSeqFull
  <1>10. FlattenSeq(Blocks(s)) = t
    BY <1>2, <1>7, <1>8, <1>9, FlattenSingles DEF Merged
  <1>11. Blocks(s) = [i \in DOMAIN s |-> s[i].blocks]
    BY <1>8 DEF Merged, Blocks
  <1> QED BY <1>1, <1>3, <1>8, <1>10, <1>11 DEF Converted, Merged

------------------------------------------------------------------------------
\* Trimming has kept the newest message, unless there is no room for it.
EndKept == Last(loop.hist) = loop.newest
             \/ loop.newest.size > Budget - Total(SubSeq(loop.hist, 1, 2))

\* The run's conversation is one, and between two turns it ends with the
\* newest message; before the first turn nothing was sent.
HistoryKept ==
  /\ Conversation(loop.hist)
  /\ loop.newest \in Message
  /\ loop.turn \in Nat
  /\ loop.sent # << >> => setup.who = "loop" /\ loop.turn > 0
  /\ loop.sent = << >> => loop.newest = Last(loop.hist)
  /\ call.pc = "idle" /\ last.op = "none" /\ loop.stop = "no" => loop.newest = Last(loop.hist)
  /\ call.op = "heartbeat" \/ last.op = "heartbeat" => loop.sent = << >>
  /\ setup.who = "loop" /\ "tools" \in {call.op, last.op} => loop.sent # << >>
  /\ call.pc = "idle" <=> call.op = "none"
  /\ loop.sent # << >> /\ loop.stop = "no" /\ call.pc # "idle" => EndKept
  /\ RequestIsAnchored

\* What is sent of a conversation is its messages without the prompt.
MessagesOf(sent) ==
  IF Client("ego") = "anthropic" THEN FlattenSeq([i \in DOMAIN sent |-> sent[i].blocks])
  ELSE Talk(sent)

LEMMA SentIs ==
  ASSUME NEW h, Conversation(h)
  PROVE  /\ MessagesOf(Sent(h)) = Talk(h)
         /\ Client("ego") = "anthropic" => Alternates(Sent(h))
         /\ Sent(h) # << >>
  <1>1. CASE Client("ego") # "anthropic"
    BY <1>1 DEF Sent, MessagesOf, Conversation
  <1>2. CASE Client("ego") = "anthropic"
    <2>1. PICK s : s = Sent(h) /\ s = ConvertMessages(h)
      BY <1>2 DEF Sent
    <2>2. FlattenSeq([i \in DOMAIN s |-> s[i].blocks]) = Talk(h) /\ Alternates(s)
      BY <2>1, ConvertKeeps DEF Converted
    <2>3. s # << >>
      <3>1. PICK t : t = Talk(h) /\ Len(t) = Len(h) - 1 /\ Len(h) >= 2 /\ Len(h) \in Nat
        BY TalkIs DEF TalkOf, Conversation
      <3>2. SUFFICES ASSUME s = << >> PROVE FALSE
        OBVIOUS
      <3>3. [i \in DOMAIN s |-> s[i].blocks] = << >>
        BY <3>2
      <3>4. t = << >>
        BY <2>2, <3>1, <3>3, FlattenEmpty
      <3>5. Len(<< >>) = 0
        OBVIOUS
      <3>6. Len(h) - 1 # 0
        BY <3>1
      <3> QED BY <3>1, <3>4, <3>5, <3>6, Zenon
    <2> QED BY <1>2, <2>1, <2>2, <2>3 DEF MessagesOf
  <1> QED BY <1>1, <1>2

\* What a turn sends is anchored in the conversation it was made from.
LEMMA RequestOfTurn ==
  ASSUME Conversation(loop.hist), DOMAIN loop = LoopFields,
         loop.newest = Last(loop.hist),
         loop'.hist = TrimContext(loop.hist), loop'.newest = loop.newest,
         loop'.sent = Sent(loop'.hist),
         UNCHANGED <<setup, ego>>
  PROVE  /\ Conversation(loop'.hist) /\ RequestIsAnchored'
         /\ EndKept' /\ loop'.sent # << >>
  <1>1. PICK h : h = loop'.hist
    OBVIOUS
  <1>2. Keeps(h, loop.hist)
    BY <1>1, TrimKeeps
  <1>3. Conversation(h) /\ Len(h) \in Nat /\ Len(h) >= 2 /\ h[2].kind = "goal"
    BY <1>2 DEF Keeps, Conversation
  <1>4. Client("ego")' = Client("ego")
    BY DEF Client
  <1>5. /\ SentMessages' = Talk(h)
        /\ Client("ego") = "anthropic" => Alternates(loop'.sent)
        /\ loop'.sent # << >>
    BY <1>1, <1>3, <1>4, SentIs DEF SentMessages, MessagesOf
  <1>6. TalkOf(Talk(h), h)
    BY <1>3, TalkIs
  <1>7. Talk(h)[1] = h[2] /\ Last(Talk(h)) = Last(h)
    <2>1. PICK t : t = Talk(h)
      OBVIOUS
    <2>2. Len(t) = Len(h) - 1 /\ \A i \in 1 .. Len(h) - 1 : t[i] = h[i + 1]
      BY <1>6, <2>1 DEF TalkOf
    <2>3. 1 \in 1 .. Len(h) - 1 /\ Len(h) - 1 \in 1 .. Len(h) - 1
      BY <1>3
    <2>4. t[1] = h[2] /\ t[Len(t)] = h[Len(h)]
      BY <1>3, <2>2, <2>3
    <2> QED BY <2>1, <2>4 DEF Last
  <1>8. Client("ego") = "anthropic" =>
          \A i \in 1 .. Len(loop'.sent) - 1 : loop'.sent[i].role # loop'.sent[i + 1].role
    BY <1>5 DEF Alternates
  <1>9. \/ Last(h) = loop'.newest
        \/ loop'.newest.size > Budget - Total(SubSeq(h, 1, 2))
    BY <1>2 DEF Keeps
  <1>10. SentMessages'[1].kind = "goal" /\ Last(SentMessages') = Last(h)
    BY <1>3, <1>5, <1>7
  <1>11. EndKept'
    BY <1>1, <1>9 DEF EndKept
  <1> QED BY <1>1, <1>3, <1>4, <1>5, <1>8, <1>9, <1>10, <1>11 DEF RequestIsAnchored

LEMMA HistoryInit == CallsInit => HistoryKept
  <1> SUFFICES ASSUME CallsInit PROVE HistoryKept
    OBVIOUS
  <1>1. /\ loop.hist = <<Entry("system", "prompt", 1), Entry("user", "goal", 1)>>
        /\ loop.sent = << >> /\ loop.newest = Entry("user", "goal", 1) /\ loop.turn = 0
        /\ call.op = "none" /\ last.op = "none" /\ call.pc = "idle"
    BY DEF CallsInit, NewLoop, NoCall, NoResult
  <1>2. Entry("system", "prompt", 1) \in Message /\ Entry("user", "goal", 1) \in Message
    <2>1. Entry("system", "prompt", 1) = [role |-> "system", kind |-> "prompt", size |-> 1]
            /\ Entry("user", "goal", 1) = [role |-> "user", kind |-> "goal", size |-> 1]
      BY DEF Entry
    <2>2. {"system", "user"} \subseteq Roles \cup {"system"} /\ {"prompt", "goal"} \subseteq Kinds
            /\ 1 \in Nat
      BY DEF Roles, Kinds
    <2> QED BY <2>1, <2>2 DEF Message
  <1>3. PICK a \in Message, b \in Message : loop.hist = <<a, b>> /\ b = loop.newest
              /\ a.role = "system" /\ b.kind = "goal" /\ b.role = "user"
    <2>1. Entry("system", "prompt", 1).role = "system" /\ Entry("user", "goal", 1).kind = "goal"
            /\ Entry("user", "goal", 1).role = "user"
      BY DEF Entry
    <2> QED BY <1>1, <1>2, <2>1
  <1>4. <<a, b>> \in Seq(Message) /\ Len(<<a, b>>) = 2 /\ <<a, b>>[1] = a /\ <<a, b>>[2] = b
    <2>1. <<a, b>> = Append(<<a>>, b)
      OBVIOUS
    <2> QED BY <2>1, SingleIsSeq, AppendProperties
  <1>5. Conversation(loop.hist)
    <2>1. \A i \in 2 .. 2 : i = 2
      OBVIOUS
    <2> QED BY <1>3, <1>4, <2>1 DEF Conversation, Roles
  <1>6. Last(loop.hist) = loop.newest
    BY <1>3, <1>4 DEF Last
  <1> QED BY <1>1, <1>3, <1>5, <1>6 DEF HistoryKept, RequestIsAnchored

\* What a step beside the caller's own may do to the call: leave it, go on
\* with it, or end it.
CallMoves ==
  /\ UNCHANGED <<setup, ego, loop>>
  /\ \/ UNCHANGED <<call, last>>
     \/ call.pc # "idle" /\ call'.pc # "idle" /\ call'.op = call.op /\ UNCHANGED last
     \/ call.pc # "idle" /\ call' = NoCall /\ last'.op = call.op

LEMMA HistoryStays ==
  ASSUME CallsInv, HistoryKept, CallMoves
  PROVE  HistoryKept'
  <1>1. UNCHANGED <<setup, ego, loop>>
    BY DEF CallMoves
  <1>2. SentMessages' = SentMessages /\ Client("ego")' = Client("ego")
    BY <1>1 DEF SentMessages, Client
  <1>6. EndKept' <=> EndKept
    BY <1>1 DEF EndKept
  <1>3. CASE UNCHANGED <<call, last>>
    BY <1>1, <1>2, <1>3, <1>6 DEF HistoryKept, RequestIsAnchored
  <1>4. CASE call.pc # "idle" /\ call'.pc # "idle" /\ call'.op = call.op /\ UNCHANGED last
    BY <1>1, <1>2, <1>4, <1>6 DEF HistoryKept, RequestIsAnchored
  <1>5. CASE call.pc # "idle" /\ call' = NoCall /\ last'.op = call.op
    BY <1>1, <1>2, <1>5, <1>6 DEF HistoryKept, RequestIsAnchored, NoCall
  <1> QED BY <1>3, <1>4, <1>5 DEF CallMoves

LEMMA RouterMoves ==
  ASSUME CallsInv, RunSuperegoPrecheck \/ SuperegoAnswers \/ Classify \/ ProviderStep
  PROVE  CallMoves
  <1> USE DEF CallsInv, CallsTyped, OneCallAtATime, CallFields
  <1>0. DOMAIN call = CallFields
    OBVIOUS
  <1>1. ASSUME NEW next, call.pc # "idle", next # "idle", call' = [call EXCEPT !.pc = next], UNCHANGED last,
               UNCHANGED <<setup, ego, loop>>
        PROVE  CallMoves
    BY <1>0, <1>1 DEF CallMoves
  <1>2. ASSUME NEW ok, NEW by, NEW reply, NEW shown, Finish(ok, by, reply, shown), call.pc # "idle",
               UNCHANGED <<setup, ego, loop>>
        PROVE  CallMoves
    BY <1>2, Finished DEF CallMoves
  <1>3. ASSUME NEW op PROVE Routed(op) # "idle"
    BY DEF Routed
  <1>4. CASE RunSuperegoPrecheck
    <2>1. CASE CheckUserMessage(call.msg) # "ALLOW"
      BY <1>2, <1>4, <2>1 DEF RunSuperegoPrecheck, Deny
    <2>2. CASE CheckUserMessage(call.msg) = "ALLOW"
      BY <1>1, <1>3, <1>4, <2>2 DEF RunSuperegoPrecheck
    <2> QED BY <2>1, <2>2
  <1>5. CASE SuperegoAnswers
    <2>1. PICK reply \in L2Replies :
            IF L2Verdict(setup.l2, reply) \in Codes THEN Deny(reply)
            ELSE call' = [call EXCEPT !.pc = Routed(call.op)] /\ UNCHANGED last
      BY <1>5 DEF SuperegoAnswers
    <2> QED BY <1>1, <1>2, <1>3, <1>5, <2>1 DEF SuperegoAnswers, Deny
  <1>6. CASE Classify
    <2>1. CASE Finish(FALSE, "classify", Failure, << >>)
      BY <1>2, <1>6, <2>1 DEF Classify
    <2>2. CASE \E complex \in BOOLEAN :
                  /\ call' = [call EXCEPT !.pc = IF complex /\ HasEgo THEN "ego" ELSE "id"]
                  /\ UNCHANGED last
      BY <1>1, <1>6, <2>2 DEF Classify
    <2> QED BY <1>6, <2>1, <2>2 DEF Classify
  <1>7. ASSUME NEW p \in {"ego", "id"}, Answered(p) PROVE CallMoves
    <2>1. CASE call.op = "heartbeat"
      BY <1>2, <1>7, <2>1 DEF Answered, Asking
    <2>2. CASE call.op # "heartbeat"
      BY <1>2, <1>7, <2>2 DEF Answered, Asking
    <2> QED BY <2>1, <2>2
  <1>8. ASSUME NEW p \in {"ego", "id"}, StreamEnds(p) PROVE CallMoves
    <2>1. PICK reply, shown : Finish(TRUE, p, reply, shown)
      BY <1>8 DEF StreamEnds
    <2> QED BY <1>2, <1>8, <2>1 DEF StreamEnds
  <1>9. ASSUME NEW p \in {"ego", "id"}, StreamChunk(p) PROVE CallMoves
    <2>1. PICK h, s, w : call' = [call EXCEPT !.heard = h, !.stream = s, !.shown = w]
      <3>1. PICK e \in Events :
              call' = [call EXCEPT
                !.heard = @ + 1,
                !.stream = StreamEvent(Client(p), @, e),
                !.shown = IF e.kind = "text" /\ ~HeldBack(p) THEN @ \o Words(<<e.value>>, p) ELSE @]
        BY <1>9 DEF StreamChunk
      <3> QED BY <3>1, Zenon
    <2>2. call'.op = call.op /\ call'.pc = call.pc
      BY <1>0, <2>1
    <2> QED BY <1>9, <2>2 DEF StreamChunk, CallMoves
  <1>10. ASSUME NEW p \in {"ego", "id"}, Failed(p) PROVE CallMoves
    <2>1. CASE Next1(p) = "error"
      BY <1>10, <2>1 DEF Failed, Asking, CallMoves, NoResult
    <2>2. CASE Next1(p) # "error"
      <3>1. call' = [call EXCEPT !.failed = call.failed \cup {p}, !.stream = NoStream,
                                 !.heard = 0, !.pc = Next1(p)]
        BY <1>0, <1>10, <2>2 DEF Failed
      <3>2. call'.op = call.op /\ call'.pc = Next1(p) /\ Next1(p) # "idle"
        BY <1>0, <3>1 DEF Next1
      <3> QED BY <1>10, <2>2, <3>2 DEF Failed, Asking, CallMoves
    <2> QED BY <2>1, <2>2
  <1> QED BY <1>4, <1>5, <1>6, <1>7, <1>8, <1>9, <1>10 DEF ProviderStep

LEMMA CouncilMoves ==
  ASSUME CallsInv, CouncilStep, ~Synthesised \/ setup.who = "chat"
  PROVE  CallMoves
  <1>0. call.pc = "council" /\ call.op = "tools"
    BY DEF CallsInv, OneCallAtATime, CouncilStep, DraftEnds, DraftsJoined, CritiqueEnds,
           CritiquesJoined, Synthesised, SynthesisFails, CouncilTimeout
  <1>1. ASSUME NEW msg, Route("tools", msg), UNCHANGED last, UNCHANGED <<setup, ego, loop>>
        PROVE  CallMoves
    <2>1. call'.pc # "idle" /\ call'.op = "tools"
      BY <1>1, RouteStarts DEF Routable
    <2> QED BY <1>0, <1>1, <2>1 DEF CallMoves
  <1>2. CASE DraftEnds \/ CritiqueEnds \/ CritiquesJoined
    BY <1>2 DEF DraftEnds, CritiqueEnds, CritiquesJoined, CallMoves
  <1>3. CASE DraftsJoined
    <2>1. CASE Drafts = {}
      BY <1>1, <1>3, <2>1 DEF DraftsJoined, FallBackToRoute
    <2>2. CASE Drafts # {}
      BY <1>3, <2>2 DEF DraftsJoined, CallMoves
    <2> QED BY <2>1, <2>2
  <1>4. CASE SynthesisFails \/ CouncilTimeout
    BY <1>1, <1>4 DEF SynthesisFails, CouncilTimeout, FallBackToRoute
  <1>5. CASE Synthesised
    <2>1. PICK a : Finish(TRUE, "council", a, << >>) /\ UNCHANGED loop
      BY <1>5 DEF Synthesised
    <2>2. call' = NoCall /\ last'.op = call.op
      BY <2>1, Finished
    <2> QED BY <1>0, <1>5, <2>1, <2>2 DEF Synthesised, CallMoves
  <1> QED BY <1>2, <1>3, <1>4, <1>5 DEF CouncilStep

\* A client that goes away has no conversation of a run.
LEMMA HistoryOfClient ==
  ASSUME CallsInv, HistoryKept, ClientLeaves
  PROVE  HistoryKept'
  <1>1. /\ setup.who # "loop" /\ loop.sent = << >> /\ last.op = "none"
        /\ UNCHANGED <<setup, last, loop>> /\ call' = NoCall
    BY DEF ClientLeaves, HistoryKept, CallsInv, OneCallAtATime
  <1>2. call'.pc = "idle" /\ call'.op = "none"
    BY <1>1 DEF NoCall
  <1> QED BY <1>1, <1>2 DEF HistoryKept, RequestIsAnchored

\* A caller begins a call: a run one that its newest message is part of,
\* another one without a conversation.
LEMMA CallIsBegun ==
  ASSUME \/ \E msg : Convene(msg)
         \/ \E op, msg : op \in Ops \cup {"tools"} /\ Route(op, msg)
  PROVE  call'.pc # "idle" /\ call'.op \notin {"none", "heartbeat"}
  <1>1. CASE \E msg : Convene(msg)
    BY <1>1 DEF Convene, NoCall
  <1>2. ASSUME NEW op \in Ops \cup {"tools"}, NEW msg, Route(op, msg)
        PROVE  call'.pc # "idle" /\ call'.op \notin {"none", "heartbeat"}
    <2>1. call'.pc # "idle" /\ call'.op = op
      BY <1>2, RouteStarts DEF Routable
    <2>2. op \in {"route", "id_only", "stream", "stream_tools", "tools"}
      <3>1. Ops \subseteq {"route", "id_only", "stream", "stream_tools", "tools"}
        BY DEF Ops
      <3> QED BY <1>2, <3>1
    <2> QED BY <2>1, <2>2
  <1> QED BY <1>1, <1>2

LEMMA HistoryOfBeginCall ==
  ASSUME CallsInv, HistoryKept, BeginCall
  PROVE  HistoryKept'
  <1>0. setup.who # "loop" /\ loop.sent = << >> /\ last.op = "none" /\ UNCHANGED <<setup, last>>
    BY DEF BeginCall, Ready, HistoryKept
  <1>1. loop' = [loop EXCEPT !.turn = loop.turn + 1]
    BY DEF BeginCall, CallsInv, CallsTyped, LoopFields
  <1>2. /\ loop'.hist = loop.hist /\ loop'.newest = loop.newest /\ loop'.sent = << >>
        /\ loop'.turn = loop.turn + 1
    BY <1>0, <1>1 DEF CallsInv, CallsTyped, LoopFields
  <1>3. PICK msg \in Messages :
          IF UsesCouncil THEN Convene(msg)
          ELSE (\E op \in Ops : Route(op, msg)) /\ UNCHANGED council
    BY DEF BeginCall
  <1>4. call'.pc # "idle" /\ call'.op \notin {"none", "heartbeat"}
    BY <1>3, CallIsBegun
  <1> QED BY <1>0, <1>2, <1>4 DEF HistoryKept, RequestIsAnchored

LEMMA HistoryOfBeginTurn ==
  ASSUME CallsInv, HistoryKept, BeginTurn
  PROVE  HistoryKept'
  <1>0. /\ call.pc = "idle" /\ last.op = "none" /\ loop.stop = "no" /\ setup.who = "loop"
        /\ loop.turn \in Nat /\ UNCHANGED <<setup, ego, last>> /\ DOMAIN loop = LoopFields
        /\ loop.newest = Last(loop.hist)
    BY DEF BeginTurn, Ready, HistoryKept, CallsInv, CallsTyped
  <1>1. PICK h : /\ h = TrimContext(loop.hist)
                 /\ loop' = [loop EXCEPT !.turn = loop.turn + 1, !.hist = h, !.sent = Sent(h)]
    BY <1>0 DEF BeginTurn, LoopFields
  <1>2. /\ loop'.hist = h /\ loop'.newest = loop.newest /\ loop'.turn = loop.turn + 1
        /\ loop'.sent = Sent(h) /\ loop'.stop = "no"
    BY <1>0, <1>1 DEF LoopFields
  <1>3. /\ Conversation(loop'.hist) /\ RequestIsAnchored'
        /\ EndKept' /\ loop'.sent # << >>
    BY <1>0, <1>1, <1>2, RequestOfTurn DEF HistoryKept
  <1>4. PICK msg \in Messages :
          IF UsesCouncil THEN Convene(msg) ELSE Route("tools", msg) /\ UNCHANGED council
    BY DEF BeginTurn
  <1>5. call'.pc # "idle" /\ call'.op \notin {"none", "heartbeat"}
    BY <1>4, CallIsBegun
  <1> QED BY <1>0, <1>2, <1>3, <1>5 DEF HistoryKept

LEMMA HistoryOfHeartbeat ==
  ASSUME CallsInv, HistoryKept, AskHeartbeat \/ HeartbeatDone
  PROVE  HistoryKept'
  <1>1. CASE AskHeartbeat
    <2>1. call'.pc # "idle" /\ call'.op = "heartbeat"
      BY <1>1, RouteStarts DEF AskHeartbeat, Routable
    <2>2. loop.sent = << >> /\ UNCHANGED <<setup, ego, last, loop>>
      BY <1>1 DEF AskHeartbeat, HistoryKept
    <2> QED BY <2>1, <2>2 DEF HistoryKept, RequestIsAnchored
  <1>2. CASE HeartbeatDone
    <2>1. loop.sent = << >> /\ UNCHANGED <<setup, call>> /\ last' = NoResult
      BY <1>2 DEF HeartbeatDone, HistoryKept
    <2>2. loop'.hist = loop.hist /\ loop'.newest = loop.newest /\ loop'.sent = << >> /\ loop'.turn = 1
      BY <1>2, <2>1 DEF HeartbeatDone, CallsInv, CallsTyped, LoopFields
    <2> QED BY <2>1, <2>2 DEF HistoryKept, RequestIsAnchored, NoResult
  <1> QED BY <1>1, <1>2
\* What was said is added to the conversation.
LEMMA EntryIsMessage ==
  ASSUME NEW role \in Roles, NEW kind \in Kinds, NEW n \in Nat
  PROVE  Entry(role, kind, n) \in Message /\ Entry(role, kind, n).role \in Roles
  BY DEF Entry, Message

LEMMA ConversationGrows ==
  ASSUME NEW h, Conversation(h), NEW m \in Message, m.role \in Roles
  PROVE  Conversation(Append(h, m)) /\ Last(Append(h, m)) = m
  <1> DEFINE t == Append(h, m)
  <1>1. h \in Seq(Message) /\ Len(h) \in Nat /\ Len(h) >= 2
    BY DEF Conversation
  <1>2. /\ t \in Seq(Message) /\ Len(t) = Len(h) + 1
        /\ \A i \in 1 .. Len(h) : t[i] = h[i]
        /\ t[Len(h) + 1] = m
    BY <1>1, AppendProperties
  <1> HIDE DEF t
  <1>3. t[1] = h[1] /\ t[2] = h[2] /\ Len(t) >= 2
    <2>1. 1 \in 1 .. Len(h) /\ 2 \in 1 .. Len(h)
      BY <1>1
    <2> QED BY <1>1, <1>2, <2>1
  <1>4. ASSUME NEW i \in 2 .. Len(t) PROVE t[i].role \in Roles
    <2>1. CASE i = Len(h) + 1
      BY <1>2, <2>1
    <2>2. CASE i # Len(h) + 1
      <3>1. i \in 2 .. Len(h) /\ i \in 1 .. Len(h)
        BY <1>1, <1>2, <2>2
      <3> QED BY <1>2, <3>1 DEF Conversation
    <2> QED BY <2>1, <2>2
  <1> QED BY <1>2, <1>3, <1>4 DEF Conversation, Last, t

\* The council's plan comes after the conversation, whose end was kept.
LEMMA HistoryOfPlan ==
  ASSUME CallsInv, HistoryKept, Synthesised, setup.who # "chat"
  PROVE  HistoryKept'
  <1>0. /\ call.pc = "council" /\ call.op = "tools" /\ last.op = "none" /\ loop.stop = "no"
        /\ setup.who = "loop" /\ UNCHANGED <<setup, ego, last>> /\ DOMAIN loop = LoopFields
    BY DEF CallsInv, OneCallAtATime, CallsTyped, Synthesised
  <1>1. /\ Conversation(loop.hist) /\ EndKept /\ loop.sent # << >>
        /\ loop.turn \in Nat /\ loop.turn > 0 /\ loop.newest \in Message
    BY <1>0 DEF HistoryKept
  <1>2. PICK h : h = Append(loop.hist, Plan)
    OBVIOUS
  <1>3. loop' = [loop EXCEPT !.sent = Sent(h)]
    BY <1>2 DEF Synthesised
  <1>4. /\ loop'.hist = loop.hist /\ loop'.newest = loop.newest /\ loop'.turn = loop.turn
        /\ loop'.sent = Sent(h) /\ loop'.stop = "no"
    BY <1>0, <1>3 DEF LoopFields
  <1>5. Plan \in Message /\ Plan.role \in Roles
    BY EntryIsMessage DEF Plan, Roles, Kinds
  <1>6. Conversation(h)
    BY <1>1, <1>2, <1>5, ConversationGrows
  <1>7. Client("ego")' = Client("ego")
    BY <1>0 DEF Client
  <1>8. /\ SentMessages' = Talk(h)
        /\ Client("ego") = "anthropic" => Alternates(loop'.sent)
        /\ loop'.sent # << >>
    BY <1>4, <1>6, <1>7, SentIs DEF SentMessages, MessagesOf
  <1>9. /\ Len(loop.hist) \in Nat /\ Len(loop.hist) >= 2 /\ Len(h) = Len(loop.hist) + 1
        /\ \A i \in 1 .. Len(loop.hist) : h[i] = loop.hist[i]
        /\ h[Len(loop.hist) + 1] = Plan /\ loop.hist[2].kind = "goal"
    BY <1>1, <1>2, <1>5, AppendProperties DEF Conversation
  <1>10. PICK t : t = Talk(h)
    OBVIOUS
  <1>11. Len(t) = Len(loop.hist) /\ \A i \in 1 .. Len(loop.hist) : t[i] = h[i + 1]
    <2>1. TalkOf(t, h)
      BY <1>6, <1>10, TalkIs
    <2>2. Len(h) - 1 = Len(loop.hist)
      BY <1>9
    <2> QED BY <2>1, <2>2 DEF TalkOf
  <1>12. t[1].kind = "goal" /\ Last(t) = Plan /\ t[Len(t) - 1] = Last(loop.hist)
    <2>1. /\ 1 \in 1 .. Len(loop.hist) /\ 2 \in 1 .. Len(loop.hist)
          /\ Len(loop.hist) - 1 \in 1 .. Len(loop.hist)
          /\ Len(loop.hist) \in 1 .. Len(loop.hist)
      BY <1>9
    <2>2. t[1] = h[2] /\ t[Len(loop.hist)] = h[Len(loop.hist) + 1]
            /\ t[Len(loop.hist) - 1] = h[Len(loop.hist)]
      <3>1. t[1] = h[1 + 1] /\ t[Len(loop.hist)] = h[Len(loop.hist) + 1]
              /\ t[Len(loop.hist) - 1] = h[(Len(loop.hist) - 1) + 1]
        BY <1>11, <2>1, Zenon
      <3>2. 1 + 1 = 2 /\ (Len(loop.hist) - 1) + 1 = Len(loop.hist)
        BY <1>9
      <3> QED BY <3>1, <3>2
    <2> QED BY <1>9, <1>11, <2>1, <2>2 DEF Last
  <1>13. EndKept'
    BY <1>1, <1>4 DEF EndKept
  <1>14. RequestIsAnchored'
    <2>1. Client("ego")' = "anthropic" =>
            \A i \in 1 .. Len(loop'.sent) - 1 : loop'.sent[i].role # loop'.sent[i + 1].role
      BY <1>7, <1>8 DEF Alternates
    <2>2. SentMessages' = t
      BY <1>8, <1>10
    <2>3. Plan' = Plan
      BY DEF Plan, Entry
    <2>4. \/ Last(SentMessages') = Plan' /\ SentMessages'[Len(SentMessages') - 1] = loop'.newest
          \/ loop'.newest.size > Budget - Total(SubSeq(loop'.hist, 1, 2))
      BY <1>1, <1>4, <1>12, <2>2, <2>3 DEF EndKept
    <2> QED BY <1>12, <2>1, <2>2, <2>4 DEF RequestIsAnchored
  <1>15. call'.pc # "idle" /\ call'.op = "tools"
    <2>1. PICK plan \in Messages : Route("tools", plan)
      BY DEF Synthesised
    <2> QED BY <2>1, RouteStarts DEF Routable
  <1> QED BY <1>0, <1>1, <1>4, <1>8, <1>13, <1>14, <1>15 DEF HistoryKept

LEMMA HistoryOfEndTurn ==
  ASSUME CallsInv, HistoryKept, EndTurn
  PROVE  HistoryKept'
  <1> DEFINE a == last.reply
             calls == ExtractToolCalls(a, a.written)
             said == Append(loop.hist, Entry("assistant", "answer", 1))
             heard == loop.heard \cup {<<a.text, calls>>}
             kinds == Append(loop.kinds, KindOf(calls))
             now == [loop EXCEPT !.seen = loop.seen \cup {a.text}, !.heard = heard, !.kinds = kinds,
                                 !.streak = Streak(calls)]
  <1>0. /\ last.op = "tools" /\ last' = NoResult /\ loop.stop = "no" /\ call.pc = "idle"
        /\ UNCHANGED <<setup, ego, call>> /\ DOMAIN loop = LoopFields /\ setup.who = "loop"
    BY DEF EndTurn, CallsInv, OneCallAtATime, CallsTyped
  <1>1. Entry("assistant", "answer", 1) \in Message /\ Entry("assistant", "answer", 1).role \in Roles
    BY EntryIsMessage DEF Roles, Kinds
  <1>2. Conversation(said)
    BY <1>1, ConversationGrows DEF HistoryKept
  <1>3. ASSUME Conversation(loop'.hist), loop'.newest \in Message, loop'.turn = loop.turn,
               loop'.sent = loop.sent,
               loop'.stop = "no" => loop'.newest = Last(loop'.hist)
        PROVE  HistoryKept'
    <2>1. loop.sent # << >>
      BY <1>0 DEF HistoryKept
    <2> QED BY <1>0, <1>3, <2>1 DEF HistoryKept, RequestIsAnchored, NoResult
  <1>4. ASSUME NEW s, s # "no", loop' = [loop EXCEPT !.stop = s]
        PROVE  HistoryKept'
    <2>1. /\ loop'.hist = loop.hist /\ loop'.newest = loop.newest /\ loop'.turn = loop.turn
          /\ loop'.sent = loop.sent /\ loop'.stop # "no"
      BY <1>0, <1>4 DEF LoopFields
    <2> QED BY <1>3, <2>1 DEF HistoryKept
  <1>5. ASSUME NEW s, s # "no", loop' = [now EXCEPT !.hist = said, !.stop = s]
        PROVE  HistoryKept'
    <2>1. /\ loop'.hist = said /\ loop'.newest = loop.newest /\ loop'.turn = loop.turn
          /\ loop'.sent = loop.sent /\ loop'.stop # "no"
      BY <1>0, <1>5 DEF LoopFields
    <2> HIDE DEF said
    <2> QED BY <1>2, <1>3, <2>1 DEF HistoryKept
  <1>6. ASSUME NEW m \in Message, m.role \in Roles,
               loop' = [now EXCEPT !.hist = Append(said, m), !.newest = m]
        PROVE  HistoryKept'
    <2>1. /\ loop'.hist = Append(said, m) /\ loop'.newest = m /\ loop'.turn = loop.turn
          /\ loop'.sent = loop.sent
      BY <1>0, <1>6 DEF LoopFields
    <2> HIDE DEF said
    <2>2. Conversation(Append(said, m)) /\ Last(Append(said, m)) = m
      BY <1>2, <1>6, ConversationGrows
    <2> QED BY <1>3, <2>1, <2>2
  <1>7. CASE ~last.ok
    BY <1>4, <1>7 DEF EndTurn
  <1>8. CASE last.ok /\ a.text \in loop.seen
    BY <1>4, <1>8 DEF EndTurn
  <1>9. CASE last.ok /\ a.text \notin loop.seen
    <2>1. CASE "task_complete" \in Range(calls)
      <3>0. calls # << >>
        BY <2>1 DEF Range
      <3>1. loop' = [now EXCEPT !.hist = said, !.stop = "complete"]
        BY <1>0, <1>9, <2>1, <3>0 DEF EndTurn, LoopFields
      <3> QED BY <1>5, <3>1
    <2>2. CASE calls = << >> /\ Streak(calls) >= 3 /\ "task_complete" \notin Range(calls)
      <3>1. loop' = [now EXCEPT !.hist = said, !.stop = "no_tools"]
        BY <1>0, <1>9, <2>2 DEF EndTurn, LoopFields
      <3> QED BY <1>5, <3>1
    <2>3. CASE ~(calls = << >> /\ Streak(calls) >= 3) /\ "task_complete" \notin Range(calls)
      <3>1. PICK n \in (IF calls = << >> THEN {1} ELSE Sizes) :
              LET m == Entry("user", KindOf(calls), n)
              IN  loop' = [now EXCEPT !.hist = Append(said, m), !.newest = m]
        BY <1>0, <1>9, <2>3 DEF EndTurn, LoopFields
      <3>2. n \in Nat
        BY <3>1, BoundsAssumption
      <3>3. PICK m : /\ m = Entry("user", KindOf(calls), n)
                     /\ loop' = [now EXCEPT !.hist = Append(said, m), !.newest = m]
        BY <3>1, Zenon
      <3>4. m \in Message /\ m.role \in Roles
        <4>1. KindOf(calls) \in Kinds /\ "user" \in Roles
          BY DEF KindOf, Kinds, Roles
        <4> QED BY <3>2, <3>3, <4>1, EntryIsMessage
      <3> QED BY <1>6, <3>3, <3>4
    <2> QED BY <2>1, <2>2, <2>3
  <1> QED BY <1>7, <1>8, <1>9

\* However often its conversation is trimmed, a run sends its goal first and
\* the newest message last, a council's plan alone after it, unless that
\* message is larger than the room, and to Anthropic no role twice in a row.
THEOREM RequestsKeepBothEnds == CallsSpec => []RequestIsAnchored
  <1>1. CallsInv /\ HistoryKept /\ [CallsNext]_callsVars => HistoryKept'
    <2> SUFFICES ASSUME CallsInv, HistoryKept, [CallsNext]_callsVars PROVE HistoryKept'
      OBVIOUS
    <2>1. CASE RunSuperegoPrecheck \/ SuperegoAnswers \/ Classify \/ ProviderStep
      BY <2>1, RouterMoves, HistoryStays
    <2>5. CASE CouncilStep
      BY <2>5, CouncilMoves, HistoryStays, HistoryOfPlan
    <2>6. CASE ClientLeaves
      BY <2>6, HistoryOfClient
    <2>2. CASE StrayEnds \/ UNCHANGED callsVars
      BY <2>2, HistoryStays DEF StrayEnds, callsVars, CallMoves
    <2>3. CASE EndCall
      BY <2>3 DEF EndCall, HistoryKept, RequestIsAnchored, NoResult
    <2>4. CASE CallerStep /\ ~EndCall
      BY <2>4, HistoryOfBeginCall, HistoryOfHeartbeat, HistoryOfBeginTurn, HistoryOfEndTurn
         DEF CallerStep
    <2> QED BY <2>1, <2>2, <2>3, <2>4, <2>5, <2>6 DEF CallsNext
  <1>2. HistoryKept => RequestIsAnchored
    BY DEF HistoryKept
  <1> QED BY <1>1, <1>2, HistoryInit, CallsInvariant, PTL DEF CallsSpec
=============================================================================
