-------------------------- MODULE GenesisInterview --------------------------
(***************************************************************************)
(* One genesis session: the strategy object that genesis/start creates and *)
(* genesis/step advances until it returns a manifest (genesis-core,        *)
(* genesis-paths/*, soul-forge, orion-soul-crystallization).               *)
(*                                                                         *)
(* The mentor may answer anything: a message where a choice is asked for,  *)
(* a choice that does not exist.  The model behind a conversation may fail *)
(* at any turn, record signals, or recommend to crystallize.  Weights and  *)
(* confidences are whole hundredths and tenths; only their order, gaps and *)
(* thresholds matter.                                                      *)
(***************************************************************************)
EXTENDS Integers, Sequences, FiniteSetsExt

CONSTANTS Scenarios,   \* scenarios of a forge session, each the sequence of its choices
          HardCap,     \* turns after which the Lattice ends in any case
          Levels,      \* confidences the signals of a reply may add, in tenths
          OceanDims, MoralDims,  \* dimensions signals are about
          MaxChoice,   \* choices the mentor may try
          MaxTurns,    \* bound on the turns that are counted
          None

Dimensions == {"duty", "virtue", "outcome", "welfare"}
Depths == {"QuickStart", "Conversation", "DeepDive"}
Strategies == {"quick_start", "direct_discovery", "soul_crystallization", "soul_forge"}

ASSUME InterviewAssumption ==
    /\ None \notin Dimensions
    /\ Scenarios \in Seq(Seq([Dimensions -> Int])) /\ Scenarios # <<>>
    /\ HardCap \in Nat \ {0} /\ MaxTurns \in Nat /\ MaxTurns > HardCap
    /\ Levels \subseteq 0 .. 10 /\ 0 \in Levels
    \* a reply may carry any number of signals, and two of them add up to one
    /\ \A l, m \in Levels : (IF l + m > 10 THEN 10 ELSE l + m) \in Levels

VARIABLES
    path, depth,    \* the strategy that was created and its variant
    begun,          \* begin() has run
    complete,       \* the strategy has returned its manifest
    manifest,       \* that manifest: weights and archetype
    app,            \* soul forge: state, scenario, accumulated weights, archetype
    heard,          \* soul forge: entropy_source, one label per choice that counted
    phase, turns,   \* crystallization engine
    ocean, moral,   \* confidence of each dimension with a signal, in tenths
    attachment,     \* confidence in the attachment style, in tenths
    answered,       \* history: the last turn got a reply
    missed          \* history: choices that did not exist

forge == <<app, heard, missed>>
engine == <<phase, turns, ocean, moral, attachment>>
vars == <<path, depth, begun, complete, manifest, forge, engine, answered>>

-----------------------------------------------------------------------------
(* Compass weights (genesis-core/src/ethics.rs, soul-forge/src/archetype.rs). *)

Even == [d \in Dimensions |-> 25]

SumOf(w) == w["duty"] + w["virtue"] + w["outcome"] + w["welfare"]

Clamp(x, lo, hi) == IF x < lo THEN lo ELSE IF x > hi THEN hi ELSE x

\* session::finalize_weights; the division by the sum is left to the readers.
FinalizeWeights(w) == [d \in Dimensions |-> Clamp(w[d], 10, 95)]

\* ranked(): a stable sort from the order duty, virtue, outcome, welfare.
Before(w, d, e) ==
    LET place == [duty |-> 1, virtue |-> 2, outcome |-> 3, welfare |-> 4]
    IN  w[d] > w[e] \/ (w[d] = w[e] /\ place[d] < place[e])
Primary(w) == CHOOSE d \in Dimensions : \A e \in Dimensions \ {d} : Before(w, d, e)
Secondary(w) ==
    CHOOSE d \in Dimensions \ {Primary(w)} :
        \A e \in Dimensions \ {Primary(w), d} : Before(w, d, e)

\* More than 0.15 ahead of the second is a pure archetype.
Leads(w) == 100 * (w[Primary(w)] - w[Secondary(w)]) > 15 * SumOf(w)

\* THE BALANCED SYNTHESIST, "balanced" and nothing else.
Balanced == [primary |-> None, secondary |-> None]

\* The one pair without a compound of its own falls back to the balanced one.
Uncompounded == <<"welfare", "outcome">>

DetermineArchetype(w) ==
    CASE Leads(w) -> [primary |-> Primary(w), secondary |-> None]
      [] ~Leads(w) /\ <<Primary(w), Secondary(w)>> = Uncompounded -> Balanced
      [] ~Leads(w) /\ <<Primary(w), Secondary(w)>> # Uncompounded ->
             [primary |-> Primary(w), secondary |-> Secondary(w)]

\* calibrate_compass_ethic, in twentieths of a hundredth.
CalibrateCompass(p) ==
    LET AtLeast(x) == IF x < 20 THEN 20 ELSE x
        Style(s) == IF p.attachment = s THEN 60 ELSE 0
    IN  [duty    |-> AtLeast(10 * (p.authority + p.sanctity) + 2 * (p.conscientiousness - 50)
                             + Style("Anxious")),
         virtue  |-> AtLeast(10 * (p.liberty + p.sanctity) + 2 * (p.openness - 50)),
         outcome |-> AtLeast(10 * (p.loyalty + p.liberty) + 2 * (p.extraversion - 50)
                             + Style("Avoidant")),
         welfare |-> AtLeast(10 * (p.care + p.fairness) + 2 * (p.agreeableness - 50)
                             + Style("Secure"))]

\* MentorProfile::new: the only profile a manifest is ever made from, as the
\* one depth that reaches Crystallization holds no conversation.
NeutralProfile ==
    [authority |-> 50, sanctity |-> 50, liberty |-> 50, loyalty |-> 50, care |-> 50,
     fairness |-> 50, conscientiousness |-> 50, openness |-> 50, extraversion |-> 50,
     agreeableness |-> 50, attachment |-> "Secure"]

\* ethics_from_preference: none, or one dimension at 0.40 and the rest at 0.20.
EthicsFromPreference(pref) ==
    [d \in Dimensions |-> IF pref = None THEN 25 ELSE IF d = pref THEN 40 ELSE 20]

-----------------------------------------------------------------------------
TypeOK ==
    /\ path \in Strategies /\ depth \in Depths
    /\ begun \in BOOLEAN /\ complete \in BOOLEAN /\ answered \in BOOLEAN
    /\ app.state \in {"Boot", "Intro", "Scenario", "Crystallize"}
    /\ app.index \in 0 .. Len(Scenarios) /\ app.weights \in [Dimensions -> Int]
    /\ heard \in Nat /\ missed \in Nat
    /\ phase \in {"Lattice", "Reflection", "Crucible", "Crystallization", "Complete"}
    /\ turns \in 0 .. MaxTurns
    /\ ocean \in [OceanDims -> 0 .. 10] /\ moral \in [MoralDims -> 0 .. 10]
    /\ attachment \in 0 .. 10

\* GenesisRegistry::create and initialize.
Init ==
    /\ path \in Strategies
    /\ depth \in Depths
    /\ begun = FALSE /\ complete = FALSE /\ manifest = None
    /\ app = [state |-> "Boot", index |-> 0, weights |-> Even, archetype |-> None]
    /\ heard = 0 /\ missed = 0
    /\ phase = IF depth = "QuickStart" THEN "Crystallization" ELSE "Lattice"
    /\ turns = 0 /\ attachment = 0
    /\ ocean = [d \in OceanDims |-> 0] /\ moral = [d \in MoralDims |-> 0]
    /\ answered = TRUE

Complete(weights, archetype) ==
    /\ complete' = TRUE
    /\ manifest' = [weights |-> weights, archetype |-> archetype]

BeginQuickStart ==
    /\ path = "quick_start"
    /\ Complete(Even, Balanced)
    /\ UNCHANGED forge

BeginDiscovery ==
    /\ path = "direct_discovery"
    /\ UNCHANGED <<complete, manifest, forge>>

BeginForge ==
    /\ path = "soul_forge"
    /\ app' = [app EXCEPT !.state = "Intro"]
    /\ UNCHANGED <<complete, manifest, heard, missed>>

\* The quick start depth is complete before a word is said.
BeginCrystallization ==
    /\ path = "soul_crystallization"
    /\ IF depth = "QuickStart"
       THEN LET w == CalibrateCompass(NeutralProfile) IN Complete(w, DetermineArchetype(w))
       ELSE UNCHANGED <<complete, manifest>>
    /\ UNCHANGED forge

Begin ==
    /\ ~begun /\ begun' = TRUE
    /\ BeginQuickStart \/ BeginDiscovery \/ BeginForge \/ BeginCrystallization
    /\ UNCHANGED <<path, depth, engine, answered>>

Open == begun /\ ~complete

\* The count of turns stops at its bound, the conversation does not.
OneMore(n) == IF n < MaxTurns THEN n + 1 ELSE n

(***************************************************************************)
(* Direct discovery: every message is a turn, replied to or not.           *)
(***************************************************************************)
DiscoveryTurn ==
    /\ Open /\ path = "direct_discovery"
    /\ turns' = OneMore(turns)
    /\ \/ answered' \in BOOLEAN /\ UNCHANGED <<complete, manifest>>
       \/ /\ answered' = TRUE
          /\ \E pref \in Dimensions \union {None} :
                 Complete(EthicsFromPreference(pref), Balanced)
    /\ UNCHANGED <<path, depth, begun, forge, phase, ocean, moral, attachment>>

(***************************************************************************)
(* Soul forge: the session of App, one scenario after the other.           *)
(***************************************************************************)
\* The archetype is determined first.
CrystallizedEarly(w) ==
    [state |-> "Crystallize", index |-> Len(Scenarios), weights |-> FinalizeWeights(w),
     archetype |-> DetermineArchetype(w)]

\* App::next_stage; leaving the last scenario finalizes the weights and only
\* then determines the archetype.
Crystallized(w) ==
    LET final == FinalizeWeights(w)
    IN  [state |-> "Crystallize", index |-> Len(Scenarios), weights |-> final,
         archetype |-> DetermineArchetype(final)]

NextStage(a, w) ==
    CASE a.state = "Intro" -> [a EXCEPT !.state = "Scenario", !.index = 1]
      [] a.state = "Scenario" /\ a.index < Len(Scenarios) ->
             [a EXCEPT !.index = a.index + 1, !.weights = w]
      [] OTHER -> Crystallized(w)

ForgeIntro ==
    /\ Open /\ path = "soul_forge" /\ app.state = "Intro"
    /\ app' = NextStage(app, app.weights)
    /\ UNCHANGED <<path, depth, begun, complete, manifest, heard, missed, engine, answered>>

\* App::handle_selection: a choice that does not exist counts for nothing, and
\* the session goes on to the next scenario all the same.
ForgeChoice(choice) ==
    /\ Open /\ path = "soul_forge" /\ app.state = "Scenario"
    /\ LET choices == Scenarios[app.index]
           w == [d \in Dimensions |-> app.weights[d] + choices[choice][d]]
       IN  IF choice \in 1 .. Len(choices)
           THEN app' = NextStage(app, w) /\ heard' = heard + 1 /\ UNCHANGED missed
           ELSE app' = NextStage(app, app.weights) /\ missed' = missed + 1 /\ UNCHANGED heard
    /\ IF app'.state = "Crystallize"
       THEN Complete(app'.weights, app'.archetype)
       ELSE UNCHANGED <<complete, manifest>>
    /\ UNCHANGED <<path, depth, begun, engine, answered>>

(***************************************************************************)
(* Soul crystallization.                                                   *)
(***************************************************************************)
\* apply_ocean_signal and apply_moral_signal: confidence adds up, to one.
Strengthen(c, gain) == [d \in DOMAIN c |-> Clamp(c[d] + gain[d], 0, 10)]

\* avg_ocean_confidence and avg_moral_confidence: over the dimensions that
\* have had a signal, so a weak signal on a new one lowers the average.
Seen(c) == {d \in DOMAIN c : c[d] > 0}
AverageAtLeast(c, tenths) ==
    /\ Seen(c) # {}
    /\ MapThenSumSet(LAMBDA d : c[d], Seen(c)) >= tenths * Cardinality(Seen(c))

\* The signals of one reply, any number of them on any of the instruments.
ApplySignals ==
    /\ \E gain \in [OceanDims -> Levels] : ocean' = Strengthen(ocean, gain)
    /\ \E gain \in [MoralDims -> Levels] : moral' = Strengthen(moral, gain)
    /\ attachment' \in {attachment} \union {l \in Levels : l > attachment}

\* The cap is compared with the turns before this one.
LatticeDoneLate ==
    \/ AverageAtLeast(ocean', 4) /\ AverageAtLeast(moral', 3) /\ attachment' >= 5
    \/ turns >= HardCap

\* should_advance_phase in the Lattice: enough is known, or enough was asked.
LatticeDone ==
    \/ AverageAtLeast(ocean', 4) /\ AverageAtLeast(moral', 3) /\ attachment' >= 5
    \/ turns' >= HardCap

\* should_advance_phase in Reflection asks for a mirror text.
MirrorShown == FALSE

\* advance_phase.
NextPhase ==
    CASE phase = "Lattice" /\ LatticeDone -> "Reflection"
      [] phase = "Reflection" /\ MirrorShown ->
             IF depth = "DeepDive" THEN "Crucible" ELSE "Crystallization"
      [] OTHER -> phase

\* add_user_message comes first, so a turn whose reply fails counts as well.
CrystallizationTurn ==
    /\ Open /\ path = "soul_crystallization"
    /\ turns' = OneMore(turns)
    /\ \/ answered' = FALSE /\ UNCHANGED <<phase, ocean, moral, attachment>>
       \/ answered' = TRUE /\ ApplySignals /\ phase' = NextPhase
    /\ IF phase' = "Crystallization"
       THEN LET w == CalibrateCompass(NeutralProfile) IN Complete(w, DetermineArchetype(w))
       ELSE UNCHANGED <<complete, manifest>>
    /\ UNCHANGED <<path, depth, begun, forge>>

-----------------------------------------------------------------------------
ForgeAnswer == ForgeIntro \/ \E choice \in 1 .. MaxChoice : ForgeChoice(choice)

Next == Begin \/ DiscoveryTurn \/ ForgeAnswer \/ CrystallizationTurn

\* The mentor stays with the session, and the model does answer now and then.
Fairness ==
    /\ WF_vars(Begin)
    /\ WF_vars(ForgeAnswer)
    /\ WF_vars(CrystallizationTurn /\ answered')

Spec == Init /\ [][Next]_vars /\ Fairness

-----------------------------------------------------------------------------
\* However many of its turns failed, the Lattice is over when a turn is
\* answered at or past the cap (engine.rs, hard_cap).
LatticeEndsAtTheCap ==
    path = "soul_crystallization" /\ phase = "Lattice" /\ answered => turns < HardCap

\* The archetype the forge or the crystallization names fits the weights it hands
\* over (determine_archetype, after the weights are final): no dimension is above its
\* primary one; it is pure exactly when that one leads by more than 0.15; a compound
\* names the next one too; and it is the balanced one exactly when welfare comes
\* first and outcome next without such a lead, the pair that has no compound.
FitsPair(first, second, w) ==
    LET others == Dimensions \ {first}
    IN  /\ \A d \in Dimensions : w[first] >= w[d]
        /\ (second = None) <=> \A d \in others : 100 * (w[first] - w[d]) > 15 * SumOf(w)
        /\ second # None => second \in others /\ \A d \in others : w[second] >= w[d]

Fits(a, w) ==
    IF a = Balanced THEN FitsPair(Uncompounded[1], Uncompounded[2], w)
    ELSE <<a.primary, a.secondary>> # Uncompounded /\ FitsPair(a.primary, a.secondary, w)

ArchetypeFitsWeights ==
    complete /\ path \in {"soul_forge", "soul_crystallization"} =>
        Fits(manifest.archetype, manifest.weights)

\* A forge session takes one answer per scenario and no more, choices that do
\* not exist included: they are passed over and cannot hold it up.
OneAnswerPerScenario ==
    path = "soul_forge" =>
        CASE app.state = "Scenario" -> heard + missed = app.index - 1
          [] app.state = "Crystallize" -> complete /\ heard + missed = Len(Scenarios)
          [] OTHER -> heard + missed = 0

------------------------------------------------------------------------------
(* What the documentation says and the code does not do.                   *)

\* "Adaptive Socratic dialogue (6-10 turns)", says the path's description: a
\* crystallization that keeps being answered comes to its manifest.
InterviewEnds == <>(path = "soul_crystallization" => complete)
=============================================================================
