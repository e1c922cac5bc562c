------------------------------ MODULE Governor ------------------------------
(***************************************************************************)
(* One governed execution of a chat request: ExecutionGovernor::execute    *)
(* (crates/orion-router/src/governor.rs) over its working memory           *)
(* ExecutionState, with the verdict of detect_progress                     *)
(* (crates/orion-router/src/execution_state.rs).                           *)
(*                                                                         *)
(* The planner turns the request into a goal frame.  In each round the     *)
(* executor model, or the recovery model, replies with tool calls or with  *)
(* none; the tools run one after the other; the verdict on the attempts    *)
(* made so far picks the strategy of the next round.                       *)
(*                                                                         *)
(* A failure is its kind_key.  A criterion is named by the tool that can   *)
(* verify it, and a risk by the failure kind it predicts.                  *)
(***************************************************************************)
EXTENDS Integers, Sequences, FiniteSets

CONSTANTS
  Tools,
  Kinds,       \* kind_key of structured failures
  Frames,      \* the goal frames the planner may come up with, its fallback included
  Replies,     \* sequences of tools that one reply may call
  WideOutputs  \* may a tool print 500 bytes that end inside a character?

ASSUME FramesAssumption ==
  Frames \subseteq [criteria : SUBSET Tools, risks : SUBSET Kinds, rounds : Nat, timed : BOOLEAN]
ASSUME RepliesAssumption == Replies \subseteq Seq(Tools) \ {<<>>}
ASSUME OkAssumption == "ok" \notin Kinds
ASSUME WideAssumption == WideOutputs \in BOOLEAN

VARIABLES
  pc,          \* where execute stands
  goal,        \* state.goal
  iteration,   \* state.iteration
  attempts,    \* state.attempts
  strategy,    \* state.strategy
  mitigation,  \* state.active_mitigation: the risk whose mitigation is advised
  calls,       \* tool calls of the current reply that have not run yet
  result       \* the GovernedResult

vars == <<pc, goal, iteration, attempts, strategy, mitigation, calls, result>>

NoFrame == [criteria |-> {}, risks |-> {}, rounds |-> 0, timed |-> FALSE]
NoRisk == "ok"

Strategies == {"Initial", "Retry", "Alternative", "EscalateToUser", "Abort"}

\* Mutant: a decision to ask does not stop the next round.
AbortAloneStops == [Abort |-> "Aborted"]

\* The strategies that end the run at the top of the next round.
Stopping == [EscalateToUser |-> "NeedsInput", Abort |-> "Aborted"]

Results == {"Success", "NeedsInput", "Incomplete", "MaxIterationsReached",
            "TimeBudgetExceeded", "Aborted"}

Init ==
  /\ pc = "planning"
  /\ goal = NoFrame
  /\ iteration = 0
  /\ attempts = <<>>
  /\ strategy = "Initial"
  /\ mitigation = NoRisk
  /\ calls = <<>>
  /\ result = "none"

-----------------------------------------------------------------------------
(* Reading the attempts.                                                   *)

Failed(i)    == attempts[i].outcome # "ok"
Now          == {i \in DOMAIN attempts : attempts[i].round = iteration}
Before       == {i \in DOMAIN attempts : attempts[i].round < iteration}
KindsIn(I)   == {attempts[i].outcome : i \in {j \in I : Failed(j)}}
SucceededNow == \E i \in Now : ~Failed(i)

\* The criteria whose status is Met: execute starts with none and never calls
\* mark_criterion_met.
CriteriaMet == {}
AllCriteriaMet == CriteriaMet = goal.criteria

\* Mutant: the failures are counted before the last three are taken.
RecentOfAll ==
  {i \in DOMAIN attempts :
     Failed(i) /\ Cardinality({j \in DOMAIN attempts : j > i /\ Failed(j)}) < 3}

\* Those of the last three attempts that failed.
RecentFailures == {i \in DOMAIN attempts : i > Len(attempts) - 3 /\ Failed(i)}

\* Two or three failures among the last three attempts, all of one kind.
Looping ==
  /\ \E i, j \in RecentFailures : i # j
  /\ \A i, j \in RecentFailures : attempts[i].outcome = attempts[j].outcome

\* Mutant: failures seen in this very round count as known.
StalledOnNews == ~SucceededNow /\ KindsIn(Now) \subseteq KindsIn(Now \cup Before)

\* Mutant: a round is stalled only if it fails in every way seen before.
StalledOnAllOld == ~SucceededNow /\ KindsIn(Now) = KindsIn(Before)

\* A round without success in which nothing failed that had not failed before.
Stalled ==
  /\ ~SucceededNow
  /\ KindsIn(Now) # {}
  /\ KindsIn(Now) \subseteq KindsIn(Before)

-----------------------------------------------------------------------------
(* The loop.                                                               *)

Finish(r) == pc' = "done" /\ result' = r

Plan ==
  /\ pc = "planning"
  /\ \E f \in Frames : goal' = f
  /\ pc' = "top"
  /\ UNCHANGED <<iteration, attempts, strategy, mitigation, calls, result>>

\* Mutant: the loop falls through without a result.
OutOfRoundsSilent ==
  /\ pc = "top"
  /\ iteration >= goal.rounds
  /\ pc' = "done"
  /\ UNCHANGED <<goal, iteration, attempts, strategy, mitigation, calls, result>>

OutOfRounds ==
  /\ pc = "top"
  /\ iteration >= goal.rounds
  /\ Finish("MaxIterationsReached")
  /\ UNCHANGED <<goal, iteration, attempts, strategy, mitigation, calls>>

OutOfTime ==
  /\ pc = "top"
  /\ iteration < goal.rounds
  /\ goal.timed
  /\ Finish("TimeBudgetExceeded")
  /\ UNCHANGED <<goal, iteration, attempts, strategy, mitigation, calls>>

Stop ==
  /\ pc = "top"
  /\ iteration < goal.rounds
  /\ strategy \in DOMAIN Stopping
  /\ Finish(Stopping[strategy])
  /\ UNCHANGED <<goal, iteration, attempts, strategy, mitigation, calls>>

\* The executor or, for an alternative approach, the recovery model is asked.
AskModel ==
  /\ pc = "top"
  /\ iteration < goal.rounds
  /\ strategy \notin DOMAIN Stopping

ModelFails ==
  /\ AskModel
  /\ strategy' = "Retry"
  /\ iteration' = iteration + 1
  /\ UNCHANGED <<pc, goal, attempts, mitigation, calls, result>>

ModelCallsTools ==
  /\ AskModel
  /\ \E reply \in Replies : calls' = reply
  /\ pc' = "tools"
  /\ UNCHANGED <<goal, iteration, attempts, strategy, mitigation, result>>

\* The reply calls no tool: the model thinks it is done, or gives up.
ModelStops ==
  /\ AskModel
  /\ \/ /\ AllCriteriaMet
        /\ Finish("Success")
        /\ UNCHANGED <<iteration, strategy>>
     \/ /\ ~AllCriteriaMet
        /\ iteration < goal.rounds - 1
        /\ strategy' = "Retry"
        /\ iteration' = iteration + 1
        /\ UNCHANGED <<pc, result>>
     \/ /\ ~AllCriteriaMet
        /\ iteration = goal.rounds - 1
        /\ Finish("Incomplete")
        /\ UNCHANGED <<iteration, strategy>>
  /\ UNCHANGED <<goal, attempts, mitigation, calls>>

RunTool ==
  /\ pc = "tools"
  /\ calls # <<>>
  /\ \E outcome \in Kinds \cup {"ok"} :
       attempts' = Append(attempts,
                          [round |-> iteration, tool |-> Head(calls), outcome |-> outcome])
  /\ calls' = Tail(calls)
  /\ UNCHANGED <<pc, goal, iteration, strategy, mitigation, result>>

\* &output_text[..500] splits a character: the task that runs execute panics, and
\* its working memory is lost.
OutputSplitsCharacter ==
  /\ pc = "tools"
  /\ calls # <<>>
  /\ WideOutputs
  /\ pc' = "panicked"
  /\ UNCHANGED <<goal, iteration, attempts, strategy, mitigation, calls, result>>

-----------------------------------------------------------------------------
(* The verdict on a round whose tools have all run.                        *)

Evaluating == pc = "tools" /\ calls = <<>>

NextRound == pc' = "top" /\ iteration' = iteration + 1

Complete ==
  /\ Evaluating
  /\ AllCriteriaMet
  /\ Finish("Success")
  /\ UNCHANGED <<goal, iteration, attempts, strategy, mitigation, calls>>

\* Mutant: the mitigation of a risk is tried whether it was predicted or not.
BreakLoopUnpredicted ==
  /\ Evaluating
  /\ ~AllCriteriaMet
  /\ Looping
  /\ NextRound
  /\ mitigation' = attempts[Len(attempts)].outcome
  /\ strategy' = "Alternative"
  /\ UNCHANGED <<goal, attempts, calls, result>>

BreakLoop ==
  /\ Evaluating
  /\ ~AllCriteriaMet
  /\ Looping
  /\ NextRound
  /\ \E kind \in KindsIn(RecentFailures) :
       IF kind \in goal.risks
       THEN mitigation' = kind /\ strategy' = "Alternative"
       ELSE mitigation' = mitigation /\ strategy' = "EscalateToUser"
  /\ UNCHANGED <<goal, attempts, calls, result>>

EscalateStall ==
  /\ Evaluating
  /\ ~AllCriteriaMet
  /\ ~Looping
  /\ Stalled
  /\ NextRound
  /\ strategy' = "EscalateToUser"
  /\ UNCHANGED <<goal, attempts, mitigation, calls, result>>

CarryOn ==
  /\ Evaluating
  /\ ~AllCriteriaMet
  /\ ~Looping
  /\ ~Stalled
  /\ NextRound
  /\ strategy' = "Retry"
  /\ UNCHANGED <<goal, attempts, mitigation, calls, result>>

-----------------------------------------------------------------------------
Top  == OutOfRounds \/ OutOfTime \/ Stop \/ ModelFails \/ ModelCallsTools \/ ModelStops
Work == RunTool \/ OutputSplitsCharacter
Verdict == Complete \/ BreakLoop \/ EscalateStall \/ CarryOn

Step == Plan \/ Top \/ Work \/ Verdict

Over == pc \in {"done", "panicked"} /\ UNCHANGED vars

Next == Step \/ Over

Spec == Init /\ [][Next]_vars

\* The runtime polls execute whenever it can move, and the skill executor gives
\* every tool a time limit.  A model call may hang, for the OpenAI client sets no
\* limit to a request and the time budget is looked at between calls only: the
\* planner's, the round's, and the summary's once all criteria are met.
AwaitsModel ==
  \/ pc = "planning"
  \/ AskModel
  \/ Evaluating /\ AllCriteriaMet
OwnStep  == ~AwaitsModel /\ Step
FairSpec == Spec /\ WF_vars(OwnStep)

-----------------------------------------------------------------------------
(* Properties.                                                             *)

\* Each variable stays in its range.
TypeOK ==
  /\ pc \in {"planning", "top", "tools", "done", "panicked"}
  /\ goal \in [criteria : SUBSET Tools, risks : SUBSET Kinds, rounds : Nat, timed : BOOLEAN]
  /\ iteration \in 0 .. goal.rounds
  /\ attempts \in Seq([round : Nat, tool : Tools, outcome : Kinds \cup {"ok"}])
  /\ strategy \in Strategies
  /\ mitigation \in Kinds \cup {NoRisk}
  /\ calls \in Seq(Tools)
  /\ result \in Results \cup {"none"}

\* Some failure happened more than once.
RepeatedFailure(kind) ==
  \E i, j \in DOMAIN attempts : i # j /\ attempts[i].outcome = kind /\ attempts[j].outcome = kind

\* The user is only asked for help after some failure repeated itself: neither a
\* first failure nor a model that stops, errs or runs out of rounds gets there.
AskedForAReason ==
  result = "NeedsInput" => \E kind \in Kinds : RepeatedFailure(kind)

\* The recovery model works on a mitigation only while the failure that the
\* planner predicted, and the mitigation is for, has actually repeated itself.
MitigationFitsFailure ==
  strategy = "Alternative" => mitigation \in goal.risks /\ RepeatedFailure(mitigation)

\* A round that neither succeeded nor failed in a new way is not simply tried
\* again: the next one asks the user or follows a predicted mitigation.
StuckIsNotRetried ==
  [][(Verdict /\ ~SucceededNow /\ KindsIn(Now) \subseteq KindsIn(Before) /\ goal.criteria # {})
       => strategy' \in {"Alternative", "EscalateToUser"}]_vars

\* Once it is decided to ask the user, no model and no tool is asked any more, and
\* the run ends with that question unless the plan's rounds or time ended first.
AskingIsFinal ==
  [][strategy = "EscalateToUser" =>
       /\ UNCHANGED <<attempts, iteration, calls, strategy>>
       /\ result' \in {"NeedsInput", "MaxIterationsReached", "TimeBudgetExceeded"}]_vars

\* A run whose last two calls both worked is neither taken to the user nor to the
\* recovery model, whatever failed before them.
LastTwoWorked ==
  Len(attempts) >= 2 /\ ~Failed(Len(attempts)) /\ ~Failed(Len(attempts) - 1)
WorkingRunGoesOn ==
  [][Verdict /\ LastTwoWorked => strategy' = "Retry" \/ result' = "Success"]_vars

\* However the model behaves, the rounds and the plan bound the run: it ends with
\* a result, unless the process gave up on an output it could not cut or a model
\* call never comes back.
EveryRunEnds == <>(result # "none" \/ pc = "panicked") \/ <>[]AwaitsModel

-----------------------------------------------------------------------------
(* What the documentation says and the code does not do.                   *)

\* "Guaranteed response on every exit path": the run ends with a result.
EveryRunAnswers == <>(result # "none")

\* The criteria whose verifying tool has run and succeeded.
Verified == {attempts[i].tool : i \in {j \in DOMAIN attempts : ~Failed(j)}}

\* "Structural verification of done_criteria": a run whose criteria were all
\* verified by their tools is not reported as unfinished.
VerifiedIsSuccess ==
  result \in {"Incomplete", "MaxIterationsReached"} => ~(goal.criteria \subseteq Verified)
=============================================================================
