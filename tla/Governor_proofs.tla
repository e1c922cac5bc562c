-------------------------- MODULE Governor_proofs --------------------------
(***************************************************************************)
(* What a governed execution guarantees for every set of tools, failure    *)
(* kinds, goal frames and replies.                                         *)
(*                                                                         *)
(* AskedForAReason is about the result; it is carried by the strategy      *)
(* through the round in between, and the strategy by the attempts, which   *)
(* only ever grow.                                                         *)
(***************************************************************************)
EXTENDS Governor, TLAPS

\* Where execute stands bounds the round it is in.
PcInv ==
  /\ pc = "planning" => iteration = 0 /\ strategy = "Initial" /\ attempts = <<>>
  /\ pc = "tools" => iteration < goal.rounds

\* A decision to ask rests on a repeated failure, and a question on the decision.
AskInv ==
  /\ strategy = "EscalateToUser" => \E kind \in Kinds : RepeatedFailure(kind)
  /\ result = "NeedsInput" => strategy = "EscalateToUser"

\* A result ends the run.
ResultInv == result # "none" => pc = "done"

\* A round that runs tools was not to stop, and leaves the newest attempt behind.
RoundInv ==
  pc = "tools" => strategy \notin DOMAIN Stopping /\ (calls = <<>> => Len(attempts) \in Now)

Inv == TypeOK /\ PcInv /\ RoundInv /\ AskInv /\ MitigationFitsFailure /\ ResultInv

-----------------------------------------------------------------------------
\* The outcomes of attempts are failure kinds unless they are successes.
LEMMA FailedKind ==
  ASSUME TypeOK, NEW i \in DOMAIN attempts
  PROVE  /\ attempts[i].outcome \in Kinds \cup {"ok"}
         /\ attempts[i].round \in Nat
         /\ Failed(i) => attempts[i].outcome \in Kinds
<1> DEFINE Attempt == [round : Nat, tool : Tools, outcome : Kinds \cup {"ok"}]
<1>1. attempts \in Seq(Attempt)
  BY DEF TypeOK
<1>2. attempts[i] \in Attempt
  <2> HIDE DEF Attempt
  <2> QED
    BY <1>1
<1> QED
  BY <1>2 DEF Failed

\* What has failed twice has failed twice after another attempt.
LEMMA RepeatsStay ==
  ASSUME TypeOK, NEW kind, RepeatedFailure(kind),
         NEW a, attempts' = Append(attempts, a)
  PROVE  RepeatedFailure(kind)'
<1>1. PICK i, j \in DOMAIN attempts :
        i # j /\ attempts[i].outcome = kind /\ attempts[j].outcome = kind
  BY DEF RepeatedFailure
<1>2. i \in DOMAIN attempts' /\ j \in DOMAIN attempts'
      /\ attempts'[i] = attempts[i] /\ attempts'[j] = attempts[j]
  BY <1>1 DEF TypeOK
<1> QED
  BY <1>1, <1>2 DEF RepeatedFailure

\* A loop is a failure that repeated itself.
LEMMA LoopRepeats ==
  ASSUME TypeOK, Looping, NEW kind \in KindsIn(RecentFailures)
  PROVE  kind \in Kinds /\ RepeatedFailure(kind)
<1>1. PICK i, j \in RecentFailures : i # j
  BY DEF Looping
<1>2. PICK k \in RecentFailures : attempts[k].outcome = kind
  BY DEF KindsIn
<1>3. attempts[i].outcome = kind /\ attempts[j].outcome = kind
  BY <1>1, <1>2 DEF Looping
<1>4. i \in DOMAIN attempts /\ j \in DOMAIN attempts /\ Failed(i)
  BY <1>1 DEF RecentFailures
<1> QED
  BY <1>1, <1>3, <1>4, FailedKind DEF RepeatedFailure

\* So is a stall: one failure in this round, one in an earlier round.
LEMMA StallRepeats ==
  ASSUME TypeOK, Stalled
  PROVE  \E kind \in Kinds : RepeatedFailure(kind)
<1>1. PICK kind : kind \in KindsIn(Now) /\ kind \in KindsIn(Before)
  BY DEF Stalled
<1>2. PICK i \in Now : Failed(i) /\ attempts[i].outcome = kind
  BY <1>1 DEF KindsIn
<1>3. PICK j \in Before : Failed(j) /\ attempts[j].outcome = kind
  BY <1>1 DEF KindsIn
<1>4. i \in DOMAIN attempts /\ j \in DOMAIN attempts /\ i # j
  <2>1. attempts[i].round = iteration /\ attempts[j].round < iteration
    BY <1>2, <1>3 DEF Now, Before
  <2>2. iteration \in Int
    BY DEF TypeOK
  <2> QED
    BY <1>2, <1>3, <2>1, <2>2 DEF Now, Before
<1> QED
  BY <1>2, <1>3, <1>4, FailedKind DEF RepeatedFailure

-----------------------------------------------------------------------------
\* The run starts in order.
LEMMA InitInv == Init => Inv
  BY DEF Init, Inv, TypeOK, PcInv, RoundInv, AskInv, MitigationFitsFailure, ResultInv, NoFrame, NoRisk,
         Strategies, Results

\* Every step keeps the variables in their ranges and the rounds within bounds.
LEMMA TypeStep == TypeOK /\ PcInv /\ [Next]_vars => TypeOK' /\ PcInv'
<1> SUFFICES ASSUME TypeOK, PcInv, [Next]_vars PROVE TypeOK' /\ PcInv'
  OBVIOUS
<1> USE DEF TypeOK, PcInv
<1>1. CASE Plan
  BY <1>1, FramesAssumption DEF Plan
<1>2. CASE OutOfRounds \/ OutOfTime \/ Stop
  BY <1>2 DEF OutOfRounds, OutOfTime, Stop, Finish, Stopping, Results
<1>3. CASE ModelFails
  BY <1>3 DEF ModelFails, AskModel, Strategies
<1>4. CASE ModelCallsTools
  BY <1>4, RepliesAssumption DEF ModelCallsTools, AskModel
<1>5. CASE ModelStops
  BY <1>5 DEF ModelStops, AskModel, Finish, Strategies, Results
<1>6. CASE RunTool
  <2>1. Head(calls) \in Tools /\ Tail(calls) \in Seq(Tools)
    BY <1>6 DEF RunTool
  <2>2. PICK outcome \in Kinds \cup {"ok"} :
          attempts' = Append(attempts,
                             [round |-> iteration, tool |-> Head(calls), outcome |-> outcome])
    BY <1>6 DEF RunTool
  <2>3. attempts' \in Seq([round : Nat, tool : Tools, outcome : Kinds \cup {"ok"}])
    BY <2>1, <2>2
  <2> QED
    BY <1>6, <2>1, <2>3 DEF RunTool
<1>7. CASE OutputSplitsCharacter
  BY <1>7 DEF OutputSplitsCharacter
<1>8. CASE Complete
  BY <1>8 DEF Complete, Evaluating, Finish, Results
<1>9. CASE BreakLoop
  <2>1. PICK kind \in KindsIn(RecentFailures) :
          IF kind \in goal.risks
          THEN mitigation' = kind /\ strategy' = "Alternative"
          ELSE mitigation' = mitigation /\ strategy' = "EscalateToUser"
    BY <1>9 DEF BreakLoop
  <2>2. kind \in Kinds
    BY <1>9, LoopRepeats DEF BreakLoop
  <2> QED
    BY <1>9, <2>1, <2>2 DEF BreakLoop, Evaluating, NextRound, Strategies
<1>10. CASE EscalateStall \/ CarryOn
  BY <1>10 DEF EscalateStall, CarryOn, Evaluating, NextRound, Strategies
<1>11. CASE Over \/ UNCHANGED vars
  BY <1>11 DEF Over, vars
<1> QED
  BY <1>1, <1>2, <1>3, <1>4, <1>5, <1>6, <1>7, <1>8, <1>9, <1>10, <1>11
  DEF Next, Step, Top, Work, Verdict

\* Decisions keep resting on repeated failures.
LEMMA DecisionStep ==
  Inv /\ [Next]_vars => AskInv' /\ MitigationFitsFailure'
<1> SUFFICES ASSUME TypeOK, PcInv, AskInv, MitigationFitsFailure, ResultInv, [Next]_vars
             PROVE  AskInv' /\ MitigationFitsFailure'
  BY DEF Inv
<1>0. ASSUME attempts' = attempts, NEW kind, RepeatedFailure(kind)
      PROVE  RepeatedFailure(kind)'
  BY <1>0 DEF RepeatedFailure
<1>1. CASE UNCHANGED <<attempts, strategy, mitigation, goal>> /\ (result' = result \/ Stop \/ result' # "NeedsInput")
  BY <1>0, <1>1 DEF AskInv, MitigationFitsFailure, Stop, Finish, Stopping, RepeatedFailure
<1>2. CASE Plan
  BY <1>2 DEF Plan, PcInv, AskInv, MitigationFitsFailure, ResultInv
<1>3. CASE ModelFails \/ CarryOn
  BY <1>3 DEF ModelFails, CarryOn, AskModel, Evaluating, NextRound, AskInv,
              MitigationFitsFailure, ResultInv, Stopping
<1>4. CASE ModelStops
  <2>1. CASE UNCHANGED <<strategy, attempts, mitigation, goal>> /\ result' # "NeedsInput"
    BY <1>1, <2>1
  <2>2. CASE strategy' = "Retry" /\ result' = result
    BY <1>4, <2>2 DEF ModelStops, AskModel, AskInv, MitigationFitsFailure, ResultInv
  <2> QED
    BY <1>4, <2>1, <2>2 DEF ModelStops, Finish
<1>5. CASE RunTool
  <2>1. PICK a : attempts' = Append(attempts, a)
    BY <1>5 DEF RunTool
  <2>2. \A kind : RepeatedFailure(kind) => RepeatedFailure(kind)'
    BY <2>1, RepeatsStay
  <2>3. UNCHANGED <<goal, strategy, mitigation, result>>
    BY <1>5 DEF RunTool
  <2> QED
    BY <2>2, <2>3 DEF AskInv, MitigationFitsFailure
<1>6. CASE BreakLoop
  <2>1. PICK kind \in KindsIn(RecentFailures) :
          IF kind \in goal.risks
          THEN mitigation' = kind /\ strategy' = "Alternative"
          ELSE mitigation' = mitigation /\ strategy' = "EscalateToUser"
    BY <1>6 DEF BreakLoop
  <2>2. kind \in Kinds /\ RepeatedFailure(kind)
    BY <1>6, LoopRepeats DEF BreakLoop
  <2>3. UNCHANGED <<goal, attempts, result>> /\ pc = "tools"
    BY <1>6 DEF BreakLoop, Evaluating
  <2>4. RepeatedFailure(kind)'
    BY <2>2, <2>3, <1>0
  <2> QED
    BY <2>1, <2>2, <2>3, <2>4 DEF AskInv, MitigationFitsFailure, ResultInv
<1>7. CASE EscalateStall
  <2>1. PICK kind \in Kinds : RepeatedFailure(kind)
    BY <1>7, StallRepeats DEF EscalateStall
  <2>2. UNCHANGED <<goal, attempts, mitigation, result>> /\ strategy' = "EscalateToUser"
    BY <1>7 DEF EscalateStall
  <2>3. RepeatedFailure(kind)'
    BY <2>1, <2>2, <1>0
  <2> QED
    BY <2>2, <2>3 DEF AskInv, MitigationFitsFailure
<1>8. CASE OutOfRounds \/ OutOfTime \/ Stop \/ ModelCallsTools \/ OutputSplitsCharacter
           \/ Complete \/ Over \/ UNCHANGED vars
  BY <1>1, <1>8 DEF OutOfRounds, OutOfTime, Stop, ModelCallsTools, OutputSplitsCharacter,
                    Complete, Over, Finish, vars
<1> QED
  BY <1>2, <1>3, <1>4, <1>5, <1>6, <1>7, <1>8 DEF Next, Step, Top, Work, Verdict

\* A result is final.
LEMMA ResultStep == Inv /\ [Next]_vars => ResultInv'
<1> SUFFICES ASSUME Inv, [Next]_vars PROVE ResultInv'
  OBVIOUS
<1> USE DEF Inv, ResultInv, Finish
<1>1. CASE Plan \/ Top \/ Work \/ Verdict
  BY <1>1 DEF Plan, Top, OutOfRounds, OutOfTime, Stop, ModelFails, ModelCallsTools, ModelStops,
              Work, RunTool, OutputSplitsCharacter, Verdict, Complete, BreakLoop,
              EscalateStall, CarryOn, AskModel, Evaluating, NextRound
<1>2. CASE Over \/ UNCHANGED vars
  BY <1>2 DEF Over, vars
<1> QED
  BY <1>1, <1>2 DEF Next, Step

\* A round that runs tools leaves an attempt behind.
LEMMA RoundStep == Inv /\ [Next]_vars => RoundInv'
<1> SUFFICES ASSUME Inv, [Next]_vars PROVE RoundInv'
  OBVIOUS
<1>1. CASE RunTool
  <2>1. PICK outcome \in Kinds \cup {"ok"} :
          attempts' = Append(attempts,
                             [round |-> iteration, tool |-> Head(calls), outcome |-> outcome])
    BY <1>1 DEF RunTool
  <2>2. Len(attempts) + 1 \in DOMAIN attempts'
        /\ attempts'[Len(attempts) + 1].round = iteration
    BY <2>1 DEF Inv, TypeOK
  <2>3. Len(attempts') \in Now'
    BY <2>1, <2>2, <1>1 DEF Now, RunTool, Inv, TypeOK
  <2> QED
    BY <1>1, <2>3 DEF RunTool, Inv, RoundInv
<1>2. CASE ModelCallsTools
  <2>1. calls' # <<>>
    BY <1>2, RepliesAssumption DEF ModelCallsTools
  <2> QED
    BY <1>2, <2>1 DEF ModelCallsTools, AskModel, RoundInv
<1>3. CASE Plan \/ Top \/ OutputSplitsCharacter \/ Verdict
  BY <1>2, <1>3
  DEF Plan, Top, OutOfRounds, OutOfTime, Stop, ModelFails, ModelStops, AskModel,
      OutputSplitsCharacter, Verdict, Complete, BreakLoop, EscalateStall, CarryOn, NextRound,
      Finish, RoundInv
<1>4. CASE Over \/ UNCHANGED vars
  BY <1>4 DEF Over, vars, Inv, RoundInv, Now
<1> QED
  BY <1>1, <1>3, <1>4 DEF Next, Step, Work

-----------------------------------------------------------------------------
\* The inductive invariant holds in every reachable state.
THEOREM Invariance == Spec => []Inv
<1>1. Inv /\ [Next]_vars => Inv'
  BY TypeStep, DecisionStep, ResultStep, RoundStep DEF Inv
<1> QED
  BY InitInv, <1>1, PTL DEF Spec

\* The variables of a governed execution keep their types, and its rounds stay
\* within the frame's limit.
THEOREM TypeCorrect == Spec => []TypeOK
<1>1. Inv => TypeOK
  BY DEF Inv
<1> QED
  BY Invariance, <1>1, PTL

\* The user is only asked after a failure repeated itself.
THEOREM NoIdleQuestions == Spec => []AskedForAReason
<1>1. Inv => AskedForAReason
  BY DEF Inv, AskInv, AskedForAReason
<1> QED
  BY Invariance, <1>1, PTL

\* An alternative approach is for a predicted failure that did repeat itself.
THEOREM MitigationsFit == Spec => []MitigationFitsFailure
<1>1. Inv => MitigationFitsFailure
  BY DEF Inv
<1> QED
  BY Invariance, <1>1, PTL

\* A round that brought neither a success nor a new failure is not simply tried
\* again.
THEOREM NoBlindRetry == Spec => StuckIsNotRetried
<1> DEFINE Stuck == Verdict /\ ~SucceededNow /\ KindsIn(Now) \subseteq KindsIn(Before)
                    /\ goal.criteria # {}
<1>1. Inv /\ Stuck => strategy' \in {"Alternative", "EscalateToUser"}
  <2> SUFFICES ASSUME Inv, Verdict, ~SucceededNow, KindsIn(Now) \subseteq KindsIn(Before),
                      goal.criteria # {}
               PROVE  strategy' \in {"Alternative", "EscalateToUser"}
    OBVIOUS
  <2>1. Now # {}
    BY DEF Inv, RoundInv, Verdict, Complete, BreakLoop, EscalateStall, CarryOn, Evaluating
  <2>2. KindsIn(Now) # {}
    BY <2>1 DEF SucceededNow, KindsIn
  <2>3. ~Complete /\ ~CarryOn
    BY <2>2 DEF Complete, AllCriteriaMet, CriteriaMet, CarryOn, Stalled
  <2> QED
    BY <2>3 DEF Verdict, BreakLoop, EscalateStall
<1>2. Inv => [Stuck => strategy' \in {"Alternative", "EscalateToUser"}]_vars
  BY <1>1
<1> QED
  BY Invariance, <1>2, PTL DEF StuckIsNotRetried

\* Once it is decided to ask the user nothing runs any more, and the run ends with
\* the question or at a limit.
THEOREM AskingStopsWork == Spec => AskingIsFinal
<1>1. Inv /\ [Next]_vars
        => [strategy = "EscalateToUser" =>
              /\ UNCHANGED <<attempts, iteration, calls, strategy>>
              /\ result' \in {"NeedsInput", "MaxIterationsReached", "TimeBudgetExceeded"}]_vars
  <2> SUFFICES ASSUME Inv, Next, ~UNCHANGED vars, strategy = "EscalateToUser"
               PROVE  /\ UNCHANGED <<attempts, iteration, calls, strategy>>
                      /\ result' \in {"NeedsInput", "MaxIterationsReached", "TimeBudgetExceeded"}
    OBVIOUS
  <2>1. pc # "tools" /\ pc # "planning" /\ ~AskModel
    BY DEF Inv, RoundInv, PcInv, AskModel, Stopping
  <2>2. OutOfRounds \/ OutOfTime \/ Stop
    BY <2>1
    DEF Next, Step, Top, Work, Verdict, Plan, ModelFails, ModelCallsTools, ModelStops, RunTool,
        OutputSplitsCharacter, Complete, BreakLoop, EscalateStall, CarryOn, Evaluating, Over
  <2> QED
    BY <2>2 DEF OutOfRounds, OutOfTime, Stop, Finish, Stopping
<1> QED
  BY Invariance, <1>1, PTL DEF Spec, AskingIsFinal

\* A run whose last two calls both worked is not interrupted: one failure among
\* the last three attempts is no loop, and a round that ends with a success is no
\* stall.
THEOREM RecoveredRunsGoOn == Spec => WorkingRunGoesOn
<1>1. ASSUME Inv, Verdict, LastTwoWorked
      PROVE  strategy' = "Retry" \/ result' = "Success"
  <2>1. Evaluating
    BY <1>1 DEF Verdict, Complete, BreakLoop, EscalateStall, CarryOn
  <2>2. Len(attempts) \in Now
    BY <1>1, <2>1 DEF Inv, RoundInv, Evaluating
  <2>3. ~Stalled
    BY <1>1, <2>2 DEF Stalled, SucceededNow, LastTwoWorked
  <2>4. ~Looping
    <3>1. ASSUME NEW i \in RecentFailures PROVE i = Len(attempts) - 2
      <4>1. i \in Int /\ i <= Len(attempts) /\ i > Len(attempts) - 3 /\ Len(attempts) \in Nat
        BY <1>1, <3>1 DEF RecentFailures, Inv, TypeOK
      <4>2. i # Len(attempts) /\ i # Len(attempts) - 1
        BY <1>1, <3>1 DEF RecentFailures, LastTwoWorked
      <4> QED
        BY <4>1, <4>2
    <3> QED
      BY <3>1 DEF Looping
  <2>5. Complete \/ CarryOn
    BY <1>1, <2>3, <2>4 DEF Verdict, BreakLoop, EscalateStall
  <2> QED
    BY <2>5 DEF Complete, CarryOn, Finish
<1>2. Inv => [Verdict /\ LastTwoWorked => strategy' = "Retry" \/ result' = "Success"]_vars
  BY <1>1
<1> QED
  BY Invariance, <1>2, PTL DEF WorkingRunGoesOn
=============================================================================
