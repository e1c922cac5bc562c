----------------------- MODULE GenesisInterview_proofs -----------------------
(***************************************************************************)
(* What a genesis session promises for every set of scenarios, every cap   *)
(* and every confidence a signal may carry.                                *)
(*                                                                         *)
(* That a manifest's archetype fits its weights is a fact about the stable *)
(* sort (ArchetypeFits) carried along by the session: it needs that every  *)
(* path that names an archetype determines it from the very weights it     *)
(* hands over, and that nothing changes a manifest once it is there.       *)
(***************************************************************************)
EXTENDS GenesisInterview, TLAPS

Weights == [Dimensions -> Int]
Archetypes == {None} \union [primary : Dimensions \union {None}, secondary : Dimensions \union {None}]

\* What is counted is a number, and what the forge weighs are weights.
Counted ==
    /\ turns \in Nat /\ heard \in Nat /\ missed \in Nat
    /\ complete \in BOOLEAN /\ begun \in BOOLEAN
    /\ complete => begun
    /\ app \in [state : {"Boot", "Intro", "Scenario", "Crystallize"}, index : Nat,
                weights : Weights, archetype : Archetypes]
    /\ app.state = "Scenario" => app.index \in 1 .. Len(Scenarios)
    /\ ~ begun => app.state = "Boot"

IInv == /\ Counted
        /\ LatticeEndsAtTheCap
        /\ ArchetypeFitsWeights
        /\ OneAnswerPerScenario

-----------------------------------------------------------------------------
(* The order of the dimensions.                                            *)

LEMMA PrimaryIsFirst ==
  ASSUME NEW w \in Weights
  PROVE  /\ Primary(w) \in Dimensions
         /\ \A e \in Dimensions \ {Primary(w)} : Before(w, Primary(w), e)
<1> w["duty"] \in Int /\ w["virtue"] \in Int /\ w["outcome"] \in Int /\ w["welfare"] \in Int
  BY DEF Weights, Dimensions
<1>1. \E d \in Dimensions : \A e \in Dimensions \ {d} : Before(w, d, e)
  BY DEF Before, Dimensions
<1> QED
  BY <1>1 DEF Primary

LEMMA SecondaryIsNext ==
  ASSUME NEW w \in Weights
  PROVE  /\ Secondary(w) \in Dimensions \ {Primary(w)}
         /\ \A e \in Dimensions \ {Primary(w), Secondary(w)} : Before(w, Secondary(w), e)
<1> w["duty"] \in Int /\ w["virtue"] \in Int /\ w["outcome"] \in Int /\ w["welfare"] \in Int
  BY DEF Weights, Dimensions
<1>1. ASSUME NEW p \in Dimensions
      PROVE  \E d \in Dimensions \ {p} : \A e \in Dimensions \ {p, d} : Before(w, d, e)
  BY DEF Before, Dimensions
<1>2. \E d \in Dimensions \ {Primary(w)} : \A e \in Dimensions \ {Primary(w), d} : Before(w, d, e)
  BY <1>1, PrimaryIsFirst
<1> QED
  BY <1>2 DEF Secondary

\* The archetype determined from weights belongs to them.
LEMMA ArchetypeFits ==
  ASSUME NEW w \in Weights PROVE Fits(DetermineArchetype(w), w)
<1> DEFINE p == Primary(w)
           q == Secondary(w)
           a == DetermineArchetype(w)
           Ahead(d) == 100 * (w[p] - w[d]) > 15 * SumOf(w)
<1>1. p \in Dimensions /\ q \in Dimensions \ {p} /\ \A d \in Dimensions : w[d] \in Int
  BY PrimaryIsFirst, SecondaryIsNext DEF Weights
<1>2. \A d \in Dimensions \ {p} : w[p] >= w[d]
  BY <1>1, PrimaryIsFirst DEF Before
<1>3. \A d \in Dimensions \ {p} : w[q] >= w[d]
  BY <1>1, SecondaryIsNext DEF Before
<1>4. SumOf(w) \in Int
  BY <1>1 DEF SumOf, Dimensions
<1>5. p # None /\ q # None
  BY <1>1, InterviewAssumption
<1>6. Leads(w) <=> Ahead(q)
  BY DEF Leads
<1>8. /\ Leads(w) => a = [primary |-> p, secondary |-> None]
      /\ ~ Leads(w) /\ <<p, q>> = Uncompounded => a = Balanced
      /\ ~ Leads(w) /\ <<p, q>> # Uncompounded => a = [primary |-> p, secondary |-> q]
  BY DEF DetermineArchetype
<1> HIDE DEF p, q, a
<1>9. w[p] >= w[p]
  BY <1>1
<1>10. Ahead(q) <=> \A d \in Dimensions \ {p} : Ahead(d)
  BY <1>1, <1>3, <1>4
<1>11. \A d \in Dimensions : w[p] >= w[d]
  BY <1>2, <1>9
<1>12. CASE Leads(w)
  <2>1. a # Balanced /\ a.primary = p /\ a.secondary = None
    BY <1>5, <1>8, <1>12 DEF Balanced
  <2>2. <<p, None>> # Uncompounded
    BY InterviewAssumption DEF Uncompounded, Dimensions
  <2>3. FitsPair(p, None, w)
    BY <1>6, <1>10, <1>11, <1>12 DEF FitsPair
  <2> QED
    BY <2>1, <2>2, <2>3 DEF Fits, a
<1>13. FitsPair(p, q, w) \/ Leads(w)
  BY <1>1, <1>3, <1>5, <1>6, <1>10, <1>11 DEF FitsPair
<1>14. CASE ~ Leads(w) /\ <<p, q>> = Uncompounded
  <2>1. a = Balanced /\ Uncompounded[1] = p /\ Uncompounded[2] = q
    BY <1>8, <1>14 DEF Uncompounded
  <2> QED
    BY <1>13, <1>14, <2>1 DEF Fits, a
<1>15. CASE ~ Leads(w) /\ <<p, q>> # Uncompounded
  <2>1. a # Balanced /\ a.primary = p /\ a.secondary = q
    BY <1>5, <1>8, <1>15 DEF Balanced
  <2> QED
    BY <1>13, <1>15, <2>1 DEF Fits, a
<1> QED
  BY <1>12, <1>14, <1>15

LEMMA ArchetypeIsOne ==
  ASSUME NEW w \in Weights PROVE DetermineArchetype(w) \in Archetypes
<1>1. DetermineArchetype(w) \in {[primary |-> Primary(w), secondary |-> None], Balanced,
                                 [primary |-> Primary(w), secondary |-> Secondary(w)]}
  BY DEF DetermineArchetype
<1> QED
  BY <1>1, PrimaryIsFirst, SecondaryIsNext DEF Balanced, Archetypes

\* The weights that are made without scenarios, and those that are clamped.
LEMMA WeightsMade ==
  /\ Even \in Weights /\ CalibrateCompass(NeutralProfile) \in Weights
  /\ \A w \in Weights : FinalizeWeights(w) \in Weights
<1>1. Even \in Weights
  BY DEF Even, Weights
<1>2. CalibrateCompass(NeutralProfile) \in Weights
  BY DEF CalibrateCompass, NeutralProfile, Weights, Dimensions
<1>3. ASSUME NEW w \in Weights PROVE FinalizeWeights(w) \in Weights
  <2>1. \A d \in Dimensions : Clamp(w[d], 10, 95) \in Int
    BY DEF Weights, Clamp
  <2> QED
    BY <2>1 DEF FinalizeWeights, Weights
<1> QED
  BY <1>1, <1>2, <1>3

-----------------------------------------------------------------------------
(* The session.                                                            *)

\* A manifest made of weights and the archetype determined from them fits, and none
\* of the paths that pick one otherwise is a forge or a crystallization.
LEMMA CompleteFits ==
  ASSUME NEW w, NEW a, Complete(w, a), UNCHANGED path,
         \/ path \notin {"soul_forge", "soul_crystallization"}
         \/ w \in Weights /\ a = DetermineArchetype(w)
  PROVE  ArchetypeFitsWeights' /\ complete' = TRUE
<1>1. manifest'.weights = w /\ manifest'.archetype = a /\ complete' = TRUE
  BY DEF Complete
<1> QED
  BY <1>1, ArchetypeFits DEF ArchetypeFitsWeights

LEMMA ManifestKept ==
  ASSUME ArchetypeFitsWeights, UNCHANGED <<path, complete, manifest>>
  PROVE  ArchetypeFitsWeights'
  BY DEF ArchetypeFitsWeights

\* There is a scenario, and what a choice adds are weights.
LEMMA ScenariosAreSome ==
  /\ Len(Scenarios) \in Nat /\ 1 \in 1 .. Len(Scenarios)
  /\ \A i \in 1 .. Len(Scenarios) :
       \A k \in 1 .. Len(Scenarios[i]) : Scenarios[i][k] \in Weights
  BY InterviewAssumption DEF Weights

LEMMA InitIInv == Init => IInv
<1> SUFFICES ASSUME Init PROVE IInv
  OBVIOUS
<1>1. Counted
  BY WeightsMade DEF Init, Counted, Archetypes
<1>2. LatticeEndsAtTheCap /\ ArchetypeFitsWeights /\ OneAnswerPerScenario
  BY InterviewAssumption DEF Init, LatticeEndsAtTheCap, ArchetypeFitsWeights, OneAnswerPerScenario
<1> QED
  BY <1>1, <1>2 DEF IInv

LEMMA Step == IInv /\ [Next]_vars => IInv'
<1> SUFFICES ASSUME IInv, [Next]_vars PROVE IInv'
  OBVIOUS
<1> USE DEF IInv
<1>0. \A n \in Nat : OneMore(n) \in Nat
  BY DEF OneMore
<1>1. CASE Begin
  <2> ~ begun /\ begun' = TRUE /\ UNCHANGED <<path, depth, engine, answered>>
    BY <1>1 DEF Begin
  <2> app.state = "Boot" /\ ~ complete
    BY DEF Counted
  <2>1. CASE path = "soul_forge"
    <3>1. /\ app' = [app EXCEPT !.state = "Intro"] /\ UNCHANGED <<complete, manifest, heard, missed>>
      BY <1>1, <2>1 DEF Begin, BeginQuickStart, BeginDiscovery, BeginForge, BeginCrystallization
    <3>2. Counted'
      BY <3>1 DEF Counted, engine
    <3>3. ArchetypeFitsWeights' /\ LatticeEndsAtTheCap' /\ OneAnswerPerScenario'
      BY <2>1, <3>1 DEF ArchetypeFitsWeights, LatticeEndsAtTheCap, OneAnswerPerScenario, Counted
    <3> QED
      BY <3>2, <3>3
  <2>2. CASE path # "soul_forge"
    <3>1. UNCHANGED forge
      BY <1>1, <2>2 DEF Begin, BeginQuickStart, BeginDiscovery, BeginForge, BeginCrystallization
    <3>2. \/ UNCHANGED <<complete, manifest>>
          \/ ArchetypeFitsWeights' /\ complete' = TRUE
      <4>1. CASE BeginQuickStart
        BY <4>1, CompleteFits DEF BeginQuickStart
      <4>2. CASE BeginCrystallization
        BY <4>2, CompleteFits, WeightsMade DEF BeginCrystallization
      <4> QED
        BY <1>1, <2>2, <4>1, <4>2 DEF Begin, BeginDiscovery, BeginForge
    <3>3. ArchetypeFitsWeights' /\ complete' \in BOOLEAN
      BY <3>2, ManifestKept DEF Counted
    <3>4. Counted'
      BY <3>1, <3>3 DEF Counted, forge, engine
    <3>5. LatticeEndsAtTheCap' /\ OneAnswerPerScenario'
      BY <2>2, <3>1 DEF LatticeEndsAtTheCap, OneAnswerPerScenario, forge, engine
    <3> QED
      BY <3>3, <3>4, <3>5
  <2> QED
    BY <2>1, <2>2
<1>2. CASE DiscoveryTurn
  <2>1. /\ path = "direct_discovery" /\ UNCHANGED <<path, depth, begun, forge, phase>>
        /\ turns' \in Nat /\ Open
    BY <1>0, <1>2 DEF DiscoveryTurn, Counted
  <2>2. \/ UNCHANGED <<complete, manifest>>
        \/ ArchetypeFitsWeights' /\ complete' = TRUE
    BY <1>2, CompleteFits DEF DiscoveryTurn
  <2>3. ArchetypeFitsWeights' /\ complete' \in BOOLEAN
    BY <2>1, <2>2, ManifestKept DEF Counted
  <2>4. Counted'
    BY <2>1, <2>3 DEF Counted, forge, Open
  <2>5. LatticeEndsAtTheCap' /\ OneAnswerPerScenario'
    BY <2>1 DEF LatticeEndsAtTheCap, OneAnswerPerScenario
  <2> QED
    BY <2>3, <2>4, <2>5
<1>3. CASE ForgeIntro
  <2>1. /\ path = "soul_forge" /\ app.state = "Intro" /\ Open
        /\ app' = [app EXCEPT !.state = "Scenario", !.index = 1]
        /\ UNCHANGED <<path, begun, complete, manifest, heard, missed, engine, answered>>
    BY <1>3 DEF ForgeIntro, NextStage
  <2>2. Counted'
    <3>1. /\ app' \in [state : {"Boot", "Intro", "Scenario", "Crystallize"}, index : Nat,
                       weights : Weights, archetype : Archetypes]
          /\ app'.state = "Scenario" /\ app'.index = 1
      BY <2>1 DEF Counted
    <3> QED
      BY <2>1, <3>1, ScenariosAreSome DEF Counted, engine, Open
  <2>3. ArchetypeFitsWeights' /\ LatticeEndsAtTheCap'
    BY <2>1 DEF ArchetypeFitsWeights, LatticeEndsAtTheCap
  <2>4. OneAnswerPerScenario'
    BY <2>1 DEF OneAnswerPerScenario, Counted
  <2> QED
    BY <2>2, <2>3, <2>4
<1>4. ASSUME NEW choice \in 1 .. MaxChoice, ForgeChoice(choice) PROVE IInv'
  <2> DEFINE choices == Scenarios[app.index]
             sum == [d \in Dimensions |-> app.weights[d] + choices[choice][d]]
             w == IF choice \in 1 .. Len(choices) THEN sum ELSE app.weights
  <2>1. /\ path = "soul_forge" /\ app.state = "Scenario" /\ begun /\ ~ complete
        /\ app.index \in 1 .. Len(Scenarios) /\ app.weights \in Weights
        /\ app.archetype \in Archetypes /\ heard + missed = app.index - 1
        /\ UNCHANGED <<path, begun, engine, answered>>
    BY <1>4 DEF ForgeChoice, Open, Counted, OneAnswerPerScenario
  <2>2. w \in Weights
    <3>1. CASE choice \in 1 .. Len(choices)
      <4>1. choices[choice] \in Weights
        BY <2>1, <3>1, ScenariosAreSome
      <4> QED
        BY <2>1, <3>1, <4>1 DEF Weights
    <3>2. CASE choice \notin 1 .. Len(choices)
      BY <2>1, <3>2
    <3> QED
      BY <3>1, <3>2
  <2>3. /\ app' = NextStage(app, w)
        /\ heard' \in Nat /\ missed' \in Nat /\ heard' + missed' = heard + missed + 1
    <3>1. CASE choice \in 1 .. Len(choices)
      BY <1>4, <3>1 DEF ForgeChoice, Counted
    <3>2. CASE choice \notin 1 .. Len(choices)
      BY <1>4, <3>2 DEF ForgeChoice, Counted
    <3> QED
      BY <3>1, <3>2
  <2>4. IF app'.state = "Crystallize"
        THEN Complete(app'.weights, app'.archetype) ELSE UNCHANGED <<complete, manifest>>
    BY <1>4 DEF ForgeChoice
  <2> HIDE DEF w
  <2>5. CASE app.index < Len(Scenarios)
    <3>1. app' = [app EXCEPT !.index = app.index + 1, !.weights = w]
      BY <2>1, <2>3, <2>5 DEF NextStage
    <3>2. /\ app' \in [state : {"Boot", "Intro", "Scenario", "Crystallize"}, index : Nat,
                       weights : Weights, archetype : Archetypes]
          /\ app'.state = "Scenario" /\ app'.index = app.index + 1
      <4>1. app.index + 1 \in Nat
        BY DEF Counted
      <4> QED
        BY <2>1, <2>2, <3>1, <4>1 DEF Counted
    <3>3. app'.index \in 1 .. Len(Scenarios)
      BY <2>1, <2>5, <3>2, ScenariosAreSome
    <3>4. UNCHANGED <<complete, manifest>>
      BY <2>4, <3>2
    <3>5. Counted'
      BY <2>1, <2>3, <3>2, <3>3, <3>4 DEF Counted, engine
    <3>6. ArchetypeFitsWeights' /\ LatticeEndsAtTheCap'
      BY <2>1, <3>4 DEF ArchetypeFitsWeights, LatticeEndsAtTheCap, engine
    <3>7. OneAnswerPerScenario'
      BY <2>1, <2>3, <3>2 DEF OneAnswerPerScenario, Counted
    <3> QED
      BY <3>5, <3>6, <3>7
  <2>6. CASE ~ (app.index < Len(Scenarios))
    <3> DEFINE final == FinalizeWeights(w)
    <3>1. app' = [state |-> "Crystallize", index |-> Len(Scenarios), weights |-> final,
                  archetype |-> DetermineArchetype(final)]
      BY <2>1, <2>3, <2>6 DEF NextStage, Crystallized
    <3>2. final \in Weights /\ DetermineArchetype(final) \in Archetypes
      BY <2>2, WeightsMade, ArchetypeIsOne
    <3> HIDE DEF final
    <3>3. Complete(final, DetermineArchetype(final))
      BY <2>4, <3>1
    <3>4. ArchetypeFitsWeights' /\ complete' = TRUE
      BY <2>1, <3>2, <3>3, CompleteFits
    <3>5. Len(Scenarios) \in Nat /\ app.index = Len(Scenarios)
      BY <2>1, <2>6, ScenariosAreSome
    <3>6. Counted'
      BY <2>1, <2>3, <3>1, <3>2, <3>4, <3>5 DEF Counted, engine
    <3>7. LatticeEndsAtTheCap'
      BY <2>1 DEF LatticeEndsAtTheCap, engine
    <3>8. OneAnswerPerScenario'
      BY <2>1, <2>3, <3>1, <3>4, <3>5 DEF OneAnswerPerScenario, Counted
    <3> QED
      BY <3>4, <3>6, <3>7, <3>8
  <2> QED
    BY <2>5, <2>6
<1>5. CASE CrystallizationTurn
  <2>1. /\ path = "soul_crystallization" /\ UNCHANGED <<path, depth, begun, forge>>
        /\ turns' = OneMore(turns) /\ turns' \in Nat /\ Open
    BY <1>0, <1>5 DEF CrystallizationTurn, Counted
  <2>2. \/ UNCHANGED <<complete, manifest>>
        \/ ArchetypeFitsWeights' /\ complete' = TRUE
    BY <1>5, CompleteFits, WeightsMade DEF CrystallizationTurn
  <2>3. ArchetypeFitsWeights' /\ complete' \in BOOLEAN
    BY <2>1, <2>2, ManifestKept DEF Counted
  <2>4. Counted'
    BY <2>1, <2>3 DEF Counted, forge, Open
  <2>5. LatticeEndsAtTheCap'
    <3>1. ASSUME phase' = "Lattice", answered' PROVE turns' < HardCap
      <4>1. phase' = NextPhase
        BY <1>5, <3>1 DEF CrystallizationTurn
      <4>2. phase = "Lattice" /\ ~ LatticeDone
        BY <3>1, <4>1 DEF NextPhase
      <4> QED
        BY <2>1, <4>2, InterviewAssumption DEF LatticeDone
    <3> QED
      BY <3>1 DEF LatticeEndsAtTheCap
  <2>6. OneAnswerPerScenario'
    BY <2>1 DEF OneAnswerPerScenario
  <2> QED
    BY <2>3, <2>4, <2>5, <2>6
<1>6. CASE UNCHANGED vars
  BY <1>6 DEF vars, forge, engine, Counted, LatticeEndsAtTheCap, ArchetypeFitsWeights,
              OneAnswerPerScenario
<1> QED
  BY <1>1, <1>2, <1>3, <1>4, <1>5, <1>6 DEF Next, ForgeAnswer

\* The invariant of every session.
LEMMA SessionInvariant == Spec => []IInv
  BY InitIInv, Step, PTL DEF Spec

\* The Lattice is over when a turn is answered at or past the cap.
THEOREM LatticeIsCapped == Spec => []LatticeEndsAtTheCap
<1>1. IInv => LatticeEndsAtTheCap
  BY DEF IInv
<1> QED
  BY SessionInvariant, <1>1, PTL

\* The archetype a manifest names fits the weights it carries.
THEOREM ManifestsFit == Spec => []ArchetypeFitsWeights
<1>1. IInv => ArchetypeFitsWeights
  BY DEF IInv
<1> QED
  BY SessionInvariant, <1>1, PTL

\* A forge session takes one answer per scenario, choices that do not exist included.
THEOREM ScenariosPassOnce == Spec => []OneAnswerPerScenario
<1>1. IInv => OneAnswerPerScenario
  BY DEF IInv
<1> QED
  BY SessionInvariant, <1>1, PTL

=============================================================================
