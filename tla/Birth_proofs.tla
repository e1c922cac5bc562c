---------------------------- MODULE Birth_proofs ----------------------------
(***************************************************************************)
(* Proofs about Birth: a complete agent is signed with its own key, the    *)
(* key on disk outlives everything but a complete birth, and only stale    *)
(* saves undo a stage, for any number of requests, keys, failures and      *)
(* crashes.                                                                *)
(*                                                                         *)
(* The argument.  Public and private key are written by different steps,   *)
(* and what is signed is written by a third; the properties relate them    *)
(* only once the birth is complete.  The invariant follows the key: while  *)
(* the configuration is fresh nobody holds one (FreshIsKeyless), so the    *)
(* first keypair is the only one generated by a request that overwrites    *)
(* nothing (GeneratesOnce), and every copy of a key is that one (OwnKey).  *)
(* What a request knows from its copy of the configuration (CopiesHold)    *)
(* rules out that documents are written once they are signed (SignedFirst).*)
(***************************************************************************)
EXTENDS Birth, TLAPS

\* The type of a request, and TypeOK in two parts: the requests and the rest.
Arguments == Paths \union Contents \union {None}
Requests == [pc : PCs, cfg : Configs, key : Keys, arg : Arguments]

RequestsTyped == req \in [Slots -> Requests]

StateTyped ==
    /\ config \in Configs
    /\ pubkey \in Keys /\ keyFile \in Keys /\ birthKeys \in Keys /\ minted \in Keys
    /\ soul \in Souls \union {None}
    /\ signed = None \/ signed \in [by : Keys, of : Souls]
    /\ born \in BOOLEAN /\ persisted \in BOOLEAN /\ raced \in BOOLEAN
    /\ genesisPath \in Paths \union {"quick_start", None}
    /\ session \in {"none", "open", "finished"}
    /\ locked \in Slots \union {None}
    /\ faults \in 0 .. MaxFaults

LEMMA TypeOKSplit == TypeOK <=> RequestsTyped /\ StateTyped
BY DEF TypeOK, RequestsTyped, StateTyped, Requests, Arguments

LEMMA KeyNumbers == /\ 0 \in Keys
                    /\ \A k \in Keys : k \in Nat
                    /\ \A k \in Keys : k < MaxKeys => k + 1 \in Keys
BY BirthAssumption DEF Keys

\* Saving another stage keeps a configuration one.
LEMMA StagesFit ==
    /\ \A c \in Configs, st \in StageNames : [c EXCEPT !.stage = st] \in Configs
    /\ \A st \in StageNames, done \in BOOLEAN : [stage |-> st, complete |-> done] \in Configs
BY DEF Configs

LEMMA IdleFits == Idle \in Requests
BY KeyNumbers, StagesFit DEF Idle, Requests, Arguments, PCs, StageNames

\* The ways a step changes a request keep it one.
LEMMA AnswerFits ==
  ASSUME RequestsTyped, NEW s \in Slots, Answer(s)
  PROVE  RequestsTyped'
BY IdleFits DEF RequestsTyped, Answer

LEMMA GotoFits ==
  ASSUME RequestsTyped, NEW s \in Slots, NEW pc \in PCs, Goto(s, pc)
  PROVE  RequestsTyped'
BY DEF RequestsTyped, Goto, Requests

LEMMA LoadFits ==
  ASSUME RequestsTyped, StateTyped, NEW s \in Slots, NEW pc \in PCs, Load(s, pc)
  PROVE  RequestsTyped'
BY DEF RequestsTyped, StateTyped, Load, Requests

LEMMA KeyFits ==
  ASSUME RequestsTyped, NEW s \in Slots, NEW pc \in PCs, NEW key \in Keys,
         req' = [req EXCEPT ![s].pc = pc, ![s].key = key]
  PROVE  RequestsTyped'
BY DEF RequestsTyped, Requests

LEMMA ArgFits ==
  ASSUME RequestsTyped, NEW s \in Slots, NEW pc \in PCs, NEW arg \in Arguments,
         req' = [req EXCEPT ![s].pc = pc, ![s].arg = arg]
  PROVE  RequestsTyped'
BY DEF RequestsTyped, Requests

LEMMA ArriveFits ==
  ASSUME RequestsTyped, StateTyped, NEW s \in Slots, NEW pc \in PCs, NEW key \in Keys,
         NEW arg \in Arguments, Arrive(s, pc, key, arg)
  PROVE  RequestsTyped'
BY DEF RequestsTyped, StateTyped, Arrive, Requests

\* A request that has begun with a path or a soul still has it, and one about
\* to sign has something to sign.
ArgumentsFit ==
    \A s \in Slots :
        /\ req[s].pc \in {"open", "path", "session"} => req[s].arg \in Paths
        /\ req[s].pc \in {"manifest", "manifestDocs", "manifestSave",
                          "chatLoad", "chatDocs", "chatSave"} => req[s].arg \in Contents
        /\ req[s].pc = "quickSign" => soul # None

LEMMA InitTyped == Init => RequestsTyped /\ StateTyped /\ ArgumentsFit
<1> SUFFICES ASSUME Init PROVE RequestsTyped /\ StateTyped /\ ArgumentsFit
  OBVIOUS
<1>1. RequestsTyped
  BY IdleFits DEF Init, RequestsTyped
<1>2. StateTyped
  <2>1. config \in Configs
    BY StagesFit DEF Init, StageNames
  <2>2. faults \in 0 .. MaxFaults
    BY BirthAssumption DEF Init
  <2> QED
    BY <2>1, <2>2, KeyNumbers DEF Init, StateTyped
<1>3. ArgumentsFit
  BY DEF Init, ArgumentsFit, Idle
<1> QED
  BY <1>1, <1>2, <1>3

\* Every step keeps the requests well typed: it changes one in one of the ways
\* above, or drops it.
LEMMA RequestsStep ==
  ASSUME RequestsTyped, StateTyped, [Next]_vars
  PROVE  RequestsTyped'
<1>1. CASE Crash
  BY IdleFits, <1>1 DEF Crash, RequestsTyped
<1>2. ASSUME NEW s \in Slots, BirthState(s)
      PROVE  RequestsTyped'
  BY ArriveFits, KeyNumbers, <1>2 DEF BirthState, PCs, Arguments
<1>3. ASSUME NEW s \in Slots, OpenState(s)
      PROVE  RequestsTyped'
  BY AnswerFits, GotoFits, <1>3 DEF OpenState, PCs
<1>4. ASSUME NEW s \in Slots, GenerateIdentity(s)
      PROVE  RequestsTyped'
  BY KeyNumbers, KeyFits, <1>4 DEF GenerateIdentity, PCs, StateTyped
<1>5. ASSUME NEW s \in Slots, SaveDarkness(s)
      PROVE  RequestsTyped'
  BY GotoFits, <1>5 DEF SaveDarkness, PCs
<1>6. ASSUME NEW s \in Slots, KeepKey(s)
      PROVE  RequestsTyped'
  BY AnswerFits, <1>6 DEF KeepKey, PCs
<1>7. ASSUME NEW s \in Slots, AdvanceDarkness(s)
      PROVE  RequestsTyped'
  BY ArriveFits, KeyNumbers, <1>7 DEF AdvanceDarkness, PCs, Arguments
<1>8. ASSUME NEW s \in Slots, AdvancePastDarkness(s)
      PROVE  RequestsTyped'
  BY AnswerFits, <1>8 DEF AdvancePastDarkness, PCs
<1>9. ASSUME NEW s \in Slots, Ignition(s)
      PROVE  RequestsTyped'
  BY ArriveFits, KeyNumbers, <1>9 DEF Ignition, PCs, Arguments
<1>10. ASSUME NEW s \in Slots, AdvanceToConnectivity(s)
      PROVE  RequestsTyped'
  BY AnswerFits, <1>10 DEF AdvanceToConnectivity, PCs
<1>11. ASSUME NEW s \in Slots, StoreKey(s)
      PROVE  RequestsTyped'
  BY ArriveFits, KeyNumbers, <1>11 DEF StoreKey, PCs, Arguments
<1>12. ASSUME NEW s \in Slots, SaveCopy(s)
      PROVE  RequestsTyped'
  BY AnswerFits, GotoFits, <1>12 DEF SaveCopy, PCs
<1>13. ASSUME NEW s \in Slots, NEW path \in Paths, GenesisStart(s, path)
      PROVE  RequestsTyped'
  BY ArriveFits, KeyNumbers, <1>13 DEF GenesisStart, PCs, Arguments
<1>14. ASSUME NEW s \in Slots, AdvanceToGenesis(s)
      PROVE  RequestsTyped'
  BY AnswerFits, GotoFits, <1>14 DEF AdvanceToGenesis, PCs
<1>15. ASSUME NEW s \in Slots, PersistPath(s)
      PROVE  RequestsTyped'
  BY GotoFits, <1>15 DEF PersistPath, PCs
<1>16. ASSUME NEW s \in Slots, OpenSession(s)
      PROVE  RequestsTyped'
  BY AnswerFits, <1>16 DEF OpenSession, PCs
<1>17. ASSUME NEW s \in Slots, QuickStart(s)
      PROVE  RequestsTyped'
  BY ArriveFits, KeyNumbers, <1>17 DEF QuickStart, PCs, TakenKey,
     StateTyped, Arguments
<1>18. ASSUME NEW s \in Slots, QuickDocs(s)
      PROVE  RequestsTyped'
  BY LoadFits, <1>18 DEF QuickDocs, PCs
<1>19. ASSUME NEW s \in Slots, QuickSign(s)
      PROVE  RequestsTyped'
  BY GotoFits, <1>19 DEF QuickSign, PCs
<1>20. ASSUME NEW s \in Slots, QuickSave(s)
      PROVE  RequestsTyped'
  BY GotoFits, <1>20 DEF QuickSave, PCs
<1>21. ASSUME NEW s \in Slots, QuickPath(s)
      PROVE  RequestsTyped'
  BY GotoFits, <1>21 DEF QuickPath, PCs
<1>22. ASSUME NEW s \in Slots, GenesisStep(s)
      PROVE  RequestsTyped'
  BY ArriveFits, KeyNumbers, <1>22 DEF GenesisStep, PCs, Arguments
<1>23. ASSUME NEW s \in Slots, StrategyAdvances(s)
      PROVE  RequestsTyped'
  BY AnswerFits, ArgFits, <1>23 DEF StrategyAdvances, PCs, Arguments
<1>24. ASSUME NEW s \in Slots, LoadForManifest(s)
      PROVE  RequestsTyped'
  BY AnswerFits, LoadFits, <1>24 DEF LoadForManifest, PCs
<1>25. ASSUME NEW s \in Slots, WriteDocs(s)
      PROVE  RequestsTyped'
  BY GotoFits, <1>25 DEF WriteDocs, PCs
<1>26. ASSUME NEW s \in Slots, CrystallizeFromManifest(s)
      PROVE  RequestsTyped'
  BY AnswerFits, <1>26 DEF CrystallizeFromManifest, PCs
<1>27. ASSUME NEW s \in Slots, BirthChat(s)
      PROVE  RequestsTyped'
  BY ArriveFits, KeyNumbers, <1>27 DEF BirthChat, PCs, Arguments
<1>28. ASSUME NEW s \in Slots, BirthChatTurn(s)
      PROVE  RequestsTyped'
  BY AnswerFits, ArgFits, <1>28 DEF BirthChatTurn, PCs, Arguments
<1>29. ASSUME NEW s \in Slots, LoadForChat(s)
      PROVE  RequestsTyped'
  BY AnswerFits, LoadFits, <1>29 DEF LoadForChat, PCs
<1>30. ASSUME NEW s \in Slots, CrystallizeSoul(s)
      PROVE  RequestsTyped'
  BY AnswerFits, <1>30 DEF CrystallizeSoul, PCs
<1>31. ASSUME NEW s \in Slots, Emergence(s)
      PROVE  RequestsTyped'
  BY ArriveFits, KeyNumbers, <1>31 DEF Emergence, PCs, TakenKey, StateTyped,
     Arguments
<1>32. ASSUME NEW s \in Slots, SignDocuments(s)
      PROVE  RequestsTyped'
  BY AnswerFits, GotoFits, <1>32 DEF SignDocuments, PCs
<1>33. ASSUME NEW s \in Slots, RecordBirth(s)
      PROVE  RequestsTyped'
  BY AnswerFits, GotoFits, <1>33 DEF RecordBirth, PCs
<1>34. ASSUME NEW s \in Slots, SaveComplete(s)
      PROVE  RequestsTyped'
  BY GotoFits, <1>34 DEF SaveComplete, PCs
<1>35. ASSUME NEW s \in Slots, DeleteKeyFile(s)
      PROVE  RequestsTyped'
  BY AnswerFits, <1>35 DEF DeleteKeyFile, PCs
<1>36. ASSUME NEW s \in Slots, Fail(s)
      PROVE  RequestsTyped'
  BY AnswerFits, <1>36 DEF Fail, PCs
<1>37. CASE UNCHANGED vars
  BY <1>37 DEF vars, disk, memory, history, RequestsTyped
<1> QED
  BY <1>1, <1>2, <1>3, <1>4, <1>5, <1>6, <1>7, <1>8, <1>9, <1>10, <1>11,
     <1>12, <1>13, <1>14, <1>15, <1>16, <1>17, <1>18, <1>19, <1>20, <1>21,
     <1>22, <1>23, <1>24, <1>25, <1>26, <1>27, <1>28, <1>29, <1>30, <1>31,
     <1>32, <1>33, <1>34, <1>35, <1>36, <1>37 DEF Next, Early, Genesis,
     Emerge

\* The other variables keep their types.
LEMMA StateStep ==
  ASSUME RequestsTyped, StateTyped, ArgumentsFit, [Next]_vars
  PROVE  StateTyped'
<1>1. CASE Crash
  BY BirthAssumption, KeyNumbers, <1>1 DEF Crash, disk, history, StateTyped
<1>2. ASSUME NEW s \in Slots, BirthState(s)
      PROVE  StateTyped'
  BY <1>2 DEF BirthState, disk, memory, history, StateTyped, Arrive
<1>3. ASSUME NEW s \in Slots, OpenState(s)
      PROVE  StateTyped'
  BY <1>3 DEF OpenState, disk, memory, history, StateTyped
<1>4. ASSUME NEW s \in Slots, GenerateIdentity(s)
      PROVE  StateTyped'
  BY KeyNumbers, <1>4 DEF GenerateIdentity, disk, memory, history,
     StateTyped, RequestsTyped, Requests
<1>5. ASSUME NEW s \in Slots, SaveDarkness(s)
      PROVE  StateTyped'
  BY StagesFit, <1>5 DEF SaveDarkness, disk, memory, history, StateTyped,
     RequestsTyped, Requests, Save, SaveStage, Note, Stale, StageNames
<1>6. ASSUME NEW s \in Slots, KeepKey(s)
      PROVE  StateTyped'
  <2>1. CASE keyFile' = req[s].key /\ persisted' = TRUE /\ UNCHANGED faults
    BY <2>1, <1>6 DEF KeepKey, StateTyped, RequestsTyped, Requests
  <2>2. CASE faults < MaxFaults /\ faults' = faults + 1 /\ UNCHANGED <<keyFile, persisted>>
    BY <2>2, BirthAssumption, <1>6 DEF KeepKey, StateTyped, RequestsTyped,
       Requests
  <2> QED
    BY <2>1, <2>2, <1>6 DEF KeepKey
<1>7. ASSUME NEW s \in Slots, AdvanceDarkness(s)
      PROVE  StateTyped'
  BY <1>7 DEF AdvanceDarkness, disk, memory, history, StateTyped, Arrive
<1>8. ASSUME NEW s \in Slots, AdvancePastDarkness(s)
      PROVE  StateTyped'
  <2>1. CASE SaveStage(s, "Ignition")
    BY <2>1, StagesFit, <1>8 DEF AdvancePastDarkness, history, memory,
       StateTyped, RequestsTyped, Requests, Save, SaveStage, Note, StageNames
  <2>2. CASE UNCHANGED <<config, history>>
    BY <2>2, <1>8 DEF AdvancePastDarkness, history, memory, StateTyped
  <2> QED
    BY <2>1, <2>2, <1>8 DEF AdvancePastDarkness
<1>9. ASSUME NEW s \in Slots, Ignition(s)
      PROVE  StateTyped'
  BY <1>9 DEF Ignition, disk, memory, history, StateTyped, Arrive
<1>10. ASSUME NEW s \in Slots, AdvanceToConnectivity(s)
      PROVE  StateTyped'
  <2>1. CASE SaveStage(s, "Connectivity")
    BY <2>1, StagesFit, <1>10 DEF AdvanceToConnectivity, history, memory,
       StateTyped, RequestsTyped, Requests, Save, SaveStage, Note, StageNames
  <2>2. CASE UNCHANGED <<config, history>>
    BY <2>2, <1>10 DEF AdvanceToConnectivity, history, memory, StateTyped
  <2> QED
    BY <2>1, <2>2, <1>10 DEF AdvanceToConnectivity
<1>11. ASSUME NEW s \in Slots, StoreKey(s)
      PROVE  StateTyped'
  BY <1>11 DEF StoreKey, disk, memory, history, StateTyped, Arrive
<1>12. ASSUME NEW s \in Slots, SaveCopy(s)
      PROVE  StateTyped'
  BY StagesFit, <1>12 DEF SaveCopy, disk, memory, history, StateTyped,
     RequestsTyped, Requests, Save, SaveStage, Note, Stale, StageNames
<1>13. ASSUME NEW s \in Slots, NEW path \in Paths, GenesisStart(s, path)
      PROVE  StateTyped'
  BY <1>13 DEF GenesisStart, disk, memory, history, StateTyped, Arrive
<1>14. ASSUME NEW s \in Slots, AdvanceToGenesis(s)
      PROVE  StateTyped'
  <2>1. CASE SaveStage(s, "Genesis")
    BY <2>1, StagesFit, <1>14 DEF AdvanceToGenesis, history, memory,
       StateTyped, RequestsTyped, Requests, Save, SaveStage, Note, StageNames
  <2>2. CASE UNCHANGED <<config, history>>
    BY <2>2, <1>14 DEF AdvanceToGenesis, history, memory, StateTyped
  <2> QED
    BY <2>1, <2>2, <1>14 DEF AdvanceToGenesis
<1>15. ASSUME NEW s \in Slots, PersistPath(s)
      PROVE  StateTyped'
  BY <1>15 DEF PersistPath, disk, memory, history, StateTyped, ArgumentsFit,
     At
<1>16. ASSUME NEW s \in Slots, OpenSession(s)
      PROVE  StateTyped'
  BY <1>16 DEF OpenSession, disk, memory, history, StateTyped
<1>17. ASSUME NEW s \in Slots, QuickStart(s)
      PROVE  StateTyped'
  BY KeyNumbers, <1>17 DEF QuickStart, disk, memory, history, StateTyped,
     Arrive, RequestsTyped, Requests
<1>18. ASSUME NEW s \in Slots, QuickDocs(s)
      PROVE  StateTyped'
  BY <1>18 DEF QuickDocs, disk, memory, history, StateTyped, RequestsTyped,
     Requests, WriteSoul, Note, Stale, Crosses, Souls
<1>19. ASSUME NEW s \in Slots, QuickSign(s)
      PROVE  StateTyped'
  BY KeyNumbers, <1>19 DEF QuickSign, disk, memory, history, StateTyped,
     ArgumentsFit, At, RequestsTyped, Requests
<1>20. ASSUME NEW s \in Slots, QuickSave(s)
      PROVE  StateTyped'
  BY StagesFit, <1>20 DEF QuickSave, disk, memory, history, StateTyped,
     RequestsTyped, Requests, Save, SaveStage, Note, Stale, StageNames
<1>21. ASSUME NEW s \in Slots, QuickPath(s)
      PROVE  StateTyped'
  BY <1>21 DEF QuickPath, disk, memory, history, StateTyped
<1>22. ASSUME NEW s \in Slots, GenesisStep(s)
      PROVE  StateTyped'
  BY <1>22 DEF GenesisStep, disk, memory, history, StateTyped, Arrive
<1>23. ASSUME NEW s \in Slots, StrategyAdvances(s)
      PROVE  StateTyped'
  BY <1>23 DEF StrategyAdvances, disk, memory, history, StateTyped
<1>24. ASSUME NEW s \in Slots, LoadForManifest(s)
      PROVE  StateTyped'
  BY <1>24 DEF LoadForManifest, disk, memory, history, StateTyped
<1>25. ASSUME NEW s \in Slots, WriteDocs(s)
      PROVE  StateTyped'
  BY <1>25 DEF WriteDocs, disk, memory, history, StateTyped, RequestsTyped,
     Requests, WriteSoul, Note, Stale, Crosses, Souls, ArgumentsFit, At
<1>26. ASSUME NEW s \in Slots, CrystallizeFromManifest(s)
      PROVE  StateTyped'
  BY StagesFit, <1>26 DEF CrystallizeFromManifest, disk, memory, history,
     StateTyped, RequestsTyped, Requests, Save, SaveStage, Note, Stale,
     StageNames
<1>27. ASSUME NEW s \in Slots, BirthChat(s)
      PROVE  StateTyped'
  BY <1>27 DEF BirthChat, disk, memory, history, StateTyped, Arrive
<1>28. ASSUME NEW s \in Slots, BirthChatTurn(s)
      PROVE  StateTyped'
  BY <1>28 DEF BirthChatTurn, disk, memory, history, StateTyped
<1>29. ASSUME NEW s \in Slots, LoadForChat(s)
      PROVE  StateTyped'
  BY <1>29 DEF LoadForChat, disk, memory, history, StateTyped
<1>30. ASSUME NEW s \in Slots, CrystallizeSoul(s)
      PROVE  StateTyped'
  BY StagesFit, <1>30 DEF CrystallizeSoul, disk, memory, history,
     StateTyped, RequestsTyped, Requests, Save, SaveStage, Note, Stale,
     StageNames
<1>31. ASSUME NEW s \in Slots, Emergence(s)
      PROVE  StateTyped'
  BY KeyNumbers, <1>31 DEF Emergence, disk, memory, history, StateTyped,
     Arrive, RequestsTyped, Requests
<1>32. ASSUME NEW s \in Slots, SignDocuments(s)
      PROVE  StateTyped'
  BY KeyNumbers, <1>32 DEF SignDocuments, disk, memory, history, StateTyped,
     RequestsTyped, Requests
<1>33. ASSUME NEW s \in Slots, RecordBirth(s)
      PROVE  StateTyped'
  BY <1>33 DEF RecordBirth, disk, memory, history, StateTyped
<1>34. ASSUME NEW s \in Slots, SaveComplete(s)
      PROVE  StateTyped'
  BY StagesFit, <1>34 DEF SaveComplete, disk, memory, history, StateTyped,
     RequestsTyped, Requests, Save, SaveStage, Note, Stale, StageNames
<1>35. ASSUME NEW s \in Slots, DeleteKeyFile(s)
      PROVE  StateTyped'
  BY KeyNumbers, <1>35 DEF DeleteKeyFile, disk, memory, history, StateTyped,
     RequestsTyped, Requests
<1>36. ASSUME NEW s \in Slots, Fail(s)
      PROVE  StateTyped'
  BY BirthAssumption, <1>36 DEF Fail, disk, memory, history, StateTyped
<1>37. CASE UNCHANGED vars
  BY <1>37 DEF vars, disk, memory, history, StateTyped
<1> QED
  BY <1>1, <1>2, <1>3, <1>4, <1>5, <1>6, <1>7, <1>8, <1>9, <1>10, <1>11,
     <1>12, <1>13, <1>14, <1>15, <1>16, <1>17, <1>18, <1>19, <1>20, <1>21,
     <1>22, <1>23, <1>24, <1>25, <1>26, <1>27, <1>28, <1>29, <1>30, <1>31,
     <1>32, <1>33, <1>34, <1>35, <1>36, <1>37 DEF Next, Early, Genesis,
     Emerge

\* Nobody changes the argument of a request under way, or unwrites the soul.
LEMMA ArgumentsStep ==
  ASSUME RequestsTyped, ArgumentsFit, [Next]_vars
  PROVE  ArgumentsFit'
<1>1. CASE Crash
  BY <1>1 DEF Crash, ArgumentsFit, Idle, disk
<1>2. ASSUME NEW s \in Slots, BirthState(s)
      PROVE  ArgumentsFit'
  BY <1>2 DEF BirthState, ArgumentsFit, RequestsTyped, Requests, At, Goto,
     Load, Answer, Arrive, Idle, disk, memory, history
<1>3. ASSUME NEW s \in Slots, OpenState(s)
      PROVE  ArgumentsFit'
  BY <1>3 DEF OpenState, ArgumentsFit, RequestsTyped, Requests, At, Goto,
     Load, Answer, Arrive, Idle, disk, memory, history
<1>4. ASSUME NEW s \in Slots, GenerateIdentity(s)
      PROVE  ArgumentsFit'
  BY <1>4 DEF GenerateIdentity, ArgumentsFit, RequestsTyped, Requests, At,
     Goto, Load, Answer, Arrive, Idle, disk, memory, history
<1>5. ASSUME NEW s \in Slots, SaveDarkness(s)
      PROVE  ArgumentsFit'
  BY <1>5 DEF SaveDarkness, ArgumentsFit, RequestsTyped, Requests, At, Goto,
     Load, Answer, Arrive, Idle, disk, memory, history, Save, SaveStage,
     Note
<1>6. ASSUME NEW s \in Slots, KeepKey(s)
      PROVE  ArgumentsFit'
  BY <1>6 DEF KeepKey, ArgumentsFit, RequestsTyped, Requests, At, Goto,
     Load, Answer, Arrive, Idle, disk, memory, history
<1>7. ASSUME NEW s \in Slots, AdvanceDarkness(s)
      PROVE  ArgumentsFit'
  BY <1>7 DEF AdvanceDarkness, ArgumentsFit, RequestsTyped, Requests, At,
     Goto, Load, Answer, Arrive, Idle, disk, memory, history
<1>8. ASSUME NEW s \in Slots, AdvancePastDarkness(s)
      PROVE  ArgumentsFit'
  BY <1>8 DEF AdvancePastDarkness, ArgumentsFit, RequestsTyped, Requests,
     At, Goto, Load, Answer, Arrive, Idle, disk, memory, history, Save,
     SaveStage, Note
<1>9. ASSUME NEW s \in Slots, Ignition(s)
      PROVE  ArgumentsFit'
  BY <1>9 DEF Ignition, ArgumentsFit, RequestsTyped, Requests, At, Goto,
     Load, Answer, Arrive, Idle, disk, memory, history
<1>10. ASSUME NEW s \in Slots, AdvanceToConnectivity(s)
      PROVE  ArgumentsFit'
  BY <1>10 DEF AdvanceToConnectivity, ArgumentsFit, RequestsTyped, Requests,
     At, Goto, Load, Answer, Arrive, Idle, disk, memory, history, Save,
     SaveStage, Note
<1>11. ASSUME NEW s \in Slots, StoreKey(s)
      PROVE  ArgumentsFit'
  BY <1>11 DEF StoreKey, ArgumentsFit, RequestsTyped, Requests, At, Goto,
     Load, Answer, Arrive, Idle, disk, memory, history
<1>12. ASSUME NEW s \in Slots, SaveCopy(s)
      PROVE  ArgumentsFit'
  BY <1>12 DEF SaveCopy, ArgumentsFit, RequestsTyped, Requests, At,
     Goto, Load, Answer, Arrive, Idle, disk, memory, history, Save,
     SaveStage, Note
<1>13. ASSUME NEW s \in Slots, NEW path \in Paths, GenesisStart(s, path)
      PROVE  ArgumentsFit'
  BY <1>13 DEF GenesisStart, ArgumentsFit, RequestsTyped, Requests, At,
     Goto, Load, Answer, Arrive, Idle, disk, memory, history
<1>14. ASSUME NEW s \in Slots, AdvanceToGenesis(s)
      PROVE  ArgumentsFit'
  BY <1>14 DEF AdvanceToGenesis, ArgumentsFit, RequestsTyped, Requests, At,
     Goto, Load, Answer, Arrive, Idle, disk, memory, history, Save,
     SaveStage, Note
<1>15. ASSUME NEW s \in Slots, PersistPath(s)
      PROVE  ArgumentsFit'
  BY <1>15 DEF PersistPath, ArgumentsFit, RequestsTyped, Requests, At, Goto,
     Load, Answer, Arrive, Idle, disk, memory, history
<1>16. ASSUME NEW s \in Slots, OpenSession(s)
      PROVE  ArgumentsFit'
  BY <1>16 DEF OpenSession, ArgumentsFit, RequestsTyped, Requests, At, Goto,
     Load, Answer, Arrive, Idle, disk, memory, history
<1>17. ASSUME NEW s \in Slots, QuickStart(s)
      PROVE  ArgumentsFit'
  BY <1>17 DEF QuickStart, ArgumentsFit, RequestsTyped, Requests, At, Goto,
     Load, Answer, Arrive, Idle, disk, memory, history
<1>18. ASSUME NEW s \in Slots, QuickDocs(s)
      PROVE  ArgumentsFit'
  BY BirthAssumption, <1>18 DEF QuickDocs, ArgumentsFit, RequestsTyped,
     Requests, At, Goto, Load, Answer, Arrive, Idle, disk, memory, history,
     WriteSoul, Note, Souls
<1>19. ASSUME NEW s \in Slots, QuickSign(s)
      PROVE  ArgumentsFit'
  BY <1>19 DEF QuickSign, ArgumentsFit, RequestsTyped, Requests, At, Goto,
     Load, Answer, Arrive, Idle, disk, memory, history
<1>20. ASSUME NEW s \in Slots, QuickSave(s)
      PROVE  ArgumentsFit'
  BY <1>20 DEF QuickSave, ArgumentsFit, RequestsTyped, Requests, At, Goto,
     Load, Answer, Arrive, Idle, disk, memory, history, Save, SaveStage,
     Note
<1>21. ASSUME NEW s \in Slots, QuickPath(s)
      PROVE  ArgumentsFit'
  BY <1>21 DEF QuickPath, ArgumentsFit, RequestsTyped, Requests, At, Goto,
     Load, Answer, Arrive, Idle, disk, memory, history
<1>22. ASSUME NEW s \in Slots, GenesisStep(s)
      PROVE  ArgumentsFit'
  BY <1>22 DEF GenesisStep, ArgumentsFit, RequestsTyped, Requests, At, Goto,
     Load, Answer, Arrive, Idle, disk, memory, history
<1>23. ASSUME NEW s \in Slots, StrategyAdvances(s)
      PROVE  ArgumentsFit'
  BY <1>23 DEF StrategyAdvances, ArgumentsFit, RequestsTyped, Requests, At,
     Goto, Load, Answer, Arrive, Idle, disk, memory, history
<1>24. ASSUME NEW s \in Slots, LoadForManifest(s)
      PROVE  ArgumentsFit'
  BY <1>24 DEF LoadForManifest, ArgumentsFit, RequestsTyped, Requests, At,
     Goto, Load, Answer, Arrive, Idle, disk, memory, history
<1>25. ASSUME NEW s \in Slots, WriteDocs(s)
      PROVE  ArgumentsFit'
  BY BirthAssumption, <1>25 DEF WriteDocs, ArgumentsFit, RequestsTyped,
     Requests, At, Goto, Load, Answer, Arrive, Idle, disk, memory, history,
     WriteSoul, Note, Souls
<1>26. ASSUME NEW s \in Slots, CrystallizeFromManifest(s)
      PROVE  ArgumentsFit'
  BY <1>26 DEF CrystallizeFromManifest, ArgumentsFit, RequestsTyped,
     Requests, At, Goto, Load, Answer, Arrive, Idle, disk, memory, history,
     Save, SaveStage, Note
<1>27. ASSUME NEW s \in Slots, BirthChat(s)
      PROVE  ArgumentsFit'
  BY <1>27 DEF BirthChat, ArgumentsFit, RequestsTyped, Requests, At, Goto,
     Load, Answer, Arrive, Idle, disk, memory, history
<1>28. ASSUME NEW s \in Slots, BirthChatTurn(s)
      PROVE  ArgumentsFit'
  BY <1>28 DEF BirthChatTurn, ArgumentsFit, RequestsTyped, Requests, At,
     Goto, Load, Answer, Arrive, Idle, disk, memory, history
<1>29. ASSUME NEW s \in Slots, LoadForChat(s)
      PROVE  ArgumentsFit'
  BY <1>29 DEF LoadForChat, ArgumentsFit, RequestsTyped, Requests, At, Goto,
     Load, Answer, Arrive, Idle, disk, memory, history
<1>30. ASSUME NEW s \in Slots, CrystallizeSoul(s)
      PROVE  ArgumentsFit'
  BY <1>30 DEF CrystallizeSoul, ArgumentsFit, RequestsTyped, Requests, At,
     Goto, Load, Answer, Arrive, Idle, disk, memory, history, Save,
     SaveStage, Note
<1>31. ASSUME NEW s \in Slots, Emergence(s)
      PROVE  ArgumentsFit'
  BY <1>31 DEF Emergence, ArgumentsFit, RequestsTyped, Requests, At, Goto,
     Load, Answer, Arrive, Idle, disk, memory, history
<1>32. ASSUME NEW s \in Slots, SignDocuments(s)
      PROVE  ArgumentsFit'
  BY <1>32 DEF SignDocuments, ArgumentsFit, RequestsTyped, Requests, At,
     Goto, Load, Answer, Arrive, Idle, disk, memory, history
<1>33. ASSUME NEW s \in Slots, RecordBirth(s)
      PROVE  ArgumentsFit'
  BY <1>33 DEF RecordBirth, ArgumentsFit, RequestsTyped, Requests, At, Goto,
     Load, Answer, Arrive, Idle, disk, memory, history
<1>34. ASSUME NEW s \in Slots, SaveComplete(s)
      PROVE  ArgumentsFit'
  BY <1>34 DEF SaveComplete, ArgumentsFit, RequestsTyped, Requests, At,
     Goto, Load, Answer, Arrive, Idle, disk, memory, history, Save,
     SaveStage, Note
<1>35. ASSUME NEW s \in Slots, DeleteKeyFile(s)
      PROVE  ArgumentsFit'
  BY <1>35 DEF DeleteKeyFile, ArgumentsFit, RequestsTyped, Requests, At,
     Goto, Load, Answer, Arrive, Idle, disk, memory, history
<1>36. ASSUME NEW s \in Slots, Fail(s)
      PROVE  ArgumentsFit'
  BY <1>36 DEF Fail, ArgumentsFit, RequestsTyped, Requests, At, Goto, Load,
     Answer, Arrive, Idle, disk, memory, history
<1>37. CASE UNCHANGED vars
  BY <1>37 DEF vars, disk, memory, history, ArgumentsFit
<1> QED
  BY <1>1, <1>2, <1>3, <1>4, <1>5, <1>6, <1>7, <1>8, <1>9, <1>10, <1>11,
     <1>12, <1>13, <1>14, <1>15, <1>16, <1>17, <1>18, <1>19, <1>20, <1>21,
     <1>22, <1>23, <1>24, <1>25, <1>26, <1>27, <1>28, <1>29, <1>30, <1>31,
     <1>32, <1>33, <1>34, <1>35, <1>36, <1>37 DEF Next, Early, Genesis,
     Emerge

-----------------------------------------------------------------------------
\* A configuration without a stage and not complete: the agent's very first.
Fresh == [stage |-> "none", complete |-> FALSE]

\* What a request may rely on of its copy of the configuration and its key.
CopiesHold ==
    /\ config.complete => config.stage = "none"
    /\ config.stage = "Darkness" => pubkey # 0
    /\ \A s \in Slots :
        /\ req[s].cfg.complete => req[s].cfg.stage = "none"
        /\ req[s].cfg.stage = "Darkness" => pubkey # 0
        /\ req[s].pc \in {"state", "generate", "identity", "darkness", "advance", "url", "ignite",
                          "open", "quick"} =>
               ~req[s].cfg.complete
        /\ req[s].pc = "generate" => req[s].cfg.stage = "none"
        /\ req[s].pc \in {"identity", "darkness"} => req[s].cfg.stage = "none"
        /\ req[s].pc \in {"manifestDocs", "manifestSave", "chatDocs", "chatSave"} =>
               req[s].cfg.stage = "Genesis"
        /\ req[s].pc \in {"identity", "darkness", "keep", "quick", "quickSign", "quickSave",
                        "emerge", "record", "complete"} => req[s].key # 0
        /\ req[s].pc \in {"identity", "darkness", "keep"} => pubkey # 0

\* Every copy of the signing key is the agent's own, and the one on disk stays.
OwnKey ==
    ~raced =>
        /\ birthKeys \in {0, pubkey}
        /\ keyFile \in {0, pubkey}
        /\ \A s \in Slots : req[s].key \in {0, pubkey}
        /\ persisted => config.complete \/ keyFile = pubkey

\* While the configuration is fresh nobody has a key but those who just made it.
FreshIsKeyless ==
    ~raced /\ config = Fresh =>
        /\ birthKeys = 0 /\ keyFile = 0 /\ ~persisted
        /\ \A s \in Slots : req[s].key # 0 => req[s].pc \in {"identity", "darkness"}

\* Documents that a request is about to declare complete are signed already.
SignedFirst ==
    ~raced =>
        /\ config.complete => signed = [by |-> pubkey, of |-> soul]
        /\ \A s \in Slots :
            /\ req[s].pc \in {"quickSave", "record", "complete"} =>
                   signed = [by |-> pubkey, of |-> soul]
            /\ req[s].pc \in {"quickPath", "cleanup"} => config.complete

\* A copy of the configuration is replaced only by a newer one, and the public
\* key, once written, is only ever written over.
LEMMA CopiesStep ==
  ASSUME RequestsTyped, StateTyped, CopiesHold, [Next]_vars
  PROVE  CopiesHold'
<1>1. CASE Crash
  BY <1>1 DEF Crash, CopiesHold, Idle, disk
<1>2. ASSUME NEW s \in Slots, BirthState(s)
      PROVE  CopiesHold'
  BY <1>2 DEF BirthState, CopiesHold, RequestsTyped, Requests, At, Goto,
     Load, Answer, Arrive, Idle, disk, memory, history
<1>3. ASSUME NEW s \in Slots, OpenState(s)
      PROVE  CopiesHold'
  BY <1>3 DEF OpenState, CopiesHold, RequestsTyped, Requests, At, Goto,
     Load, Answer, Arrive, Idle, disk, memory, history, CurrentStage
<1>4. ASSUME NEW s \in Slots, GenerateIdentity(s)
      PROVE  CopiesHold'
  BY KeyNumbers, <1>4 DEF GenerateIdentity, CopiesHold, RequestsTyped,
     Requests, At, Goto, Load, Answer, Arrive, Idle, disk, memory, history,
     StateTyped, Configs
<1>5. ASSUME NEW s \in Slots, SaveDarkness(s)
      PROVE  CopiesHold'
  BY <1>5 DEF SaveDarkness, CopiesHold, RequestsTyped, Requests, At, Goto,
     Load, Answer, Arrive, Idle, disk, memory, history, Save, SaveStage,
     Note, Stale, StateTyped, Configs
<1>6. ASSUME NEW s \in Slots, KeepKey(s)
      PROVE  CopiesHold'
  BY <1>6 DEF KeepKey, CopiesHold, RequestsTyped, Requests, At, Goto, Load,
     Answer, Arrive, Idle, disk, memory, history
<1>7. ASSUME NEW s \in Slots, AdvanceDarkness(s)
      PROVE  CopiesHold'
  BY <1>7 DEF AdvanceDarkness, CopiesHold, RequestsTyped, Requests, At,
     Goto, Load, Answer, Arrive, Idle, disk, memory, history
<1>8. ASSUME NEW s \in Slots, AdvancePastDarkness(s)
      PROVE  CopiesHold'
  BY <1>8 DEF AdvancePastDarkness, CopiesHold, RequestsTyped, Requests, At,
     Goto, Load, Answer, Arrive, Idle, disk, memory, history, Save,
     SaveStage, Note, Stale, CurrentStage, StateTyped, Configs
<1>9. ASSUME NEW s \in Slots, Ignition(s)
      PROVE  CopiesHold'
  BY <1>9 DEF Ignition, CopiesHold, RequestsTyped, Requests, At, Goto, Load,
     Answer, Arrive, Idle, disk, memory, history
<1>10. ASSUME NEW s \in Slots, AdvanceToConnectivity(s)
      PROVE  CopiesHold'
  BY <1>10 DEF AdvanceToConnectivity, CopiesHold, RequestsTyped, Requests,
     At, Goto, Load, Answer, Arrive, Idle, disk, memory, history, Save,
     SaveStage, Note, Stale, CurrentStage, StateTyped, Configs
<1>11. ASSUME NEW s \in Slots, StoreKey(s)
      PROVE  CopiesHold'
  BY <1>11 DEF StoreKey, CopiesHold, RequestsTyped, Requests, At, Goto,
     Load, Answer, Arrive, Idle, disk, memory, history
<1>12. ASSUME NEW s \in Slots, SaveCopy(s)
      PROVE  CopiesHold'
  BY <1>12 DEF SaveCopy, CopiesHold, RequestsTyped, Requests, At, Goto,
     Load, Answer, Arrive, Idle, disk, memory, history, Save, SaveStage,
     Note, Stale, StateTyped, Configs
<1>13. ASSUME NEW s \in Slots, NEW path \in Paths, GenesisStart(s, path)
      PROVE  CopiesHold'
  BY <1>13 DEF GenesisStart, CopiesHold, RequestsTyped, Requests, At, Goto,
     Load, Answer, Arrive, Idle, disk, memory, history
<1>14. ASSUME NEW s \in Slots, AdvanceToGenesis(s)
      PROVE  CopiesHold'
  BY <1>14 DEF AdvanceToGenesis, CopiesHold, RequestsTyped, Requests, At,
     Goto, Load, Answer, Arrive, Idle, disk, memory, history, Save,
     SaveStage, Note, Stale, CurrentStage, StateTyped, Configs
<1>15. ASSUME NEW s \in Slots, PersistPath(s)
      PROVE  CopiesHold'
  BY <1>15 DEF PersistPath, CopiesHold, RequestsTyped, Requests, At, Goto,
     Load, Answer, Arrive, Idle, disk, memory, history
<1>16. ASSUME NEW s \in Slots, OpenSession(s)
      PROVE  CopiesHold'
  BY <1>16 DEF OpenSession, CopiesHold, RequestsTyped, Requests, At, Goto,
     Load, Answer, Arrive, Idle, disk, memory, history
<1>17. ASSUME NEW s \in Slots, QuickStart(s)
      PROVE  CopiesHold'
  BY <1>17 DEF QuickStart, CopiesHold, RequestsTyped, Requests, At, Goto,
     Load, Answer, Arrive, Idle, disk, memory, history, TakenKey
<1>18. ASSUME NEW s \in Slots, QuickDocs(s)
      PROVE  CopiesHold'
  BY <1>18 DEF QuickDocs, CopiesHold, RequestsTyped, Requests, At, Goto,
     Load, Answer, Arrive, Idle, disk, memory, history, WriteSoul, Note,
     Stale, Crosses
<1>19. ASSUME NEW s \in Slots, QuickSign(s)
      PROVE  CopiesHold'
  BY <1>19 DEF QuickSign, CopiesHold, RequestsTyped, Requests, At, Goto,
     Load, Answer, Arrive, Idle, disk, memory, history
<1>20. ASSUME NEW s \in Slots, QuickSave(s)
      PROVE  CopiesHold'
  BY <1>20 DEF QuickSave, CopiesHold, RequestsTyped, Requests, At, Goto,
     Load, Answer, Arrive, Idle, disk, memory, history, Save, SaveStage,
     Note, Stale, StateTyped, Configs
<1>21. ASSUME NEW s \in Slots, QuickPath(s)
      PROVE  CopiesHold'
  BY <1>21 DEF QuickPath, CopiesHold, RequestsTyped, Requests, At, Goto,
     Load, Answer, Arrive, Idle, disk, memory, history
<1>22. ASSUME NEW s \in Slots, GenesisStep(s)
      PROVE  CopiesHold'
  BY <1>22 DEF GenesisStep, CopiesHold, RequestsTyped, Requests, At, Goto,
     Load, Answer, Arrive, Idle, disk, memory, history
<1>23. ASSUME NEW s \in Slots, StrategyAdvances(s)
      PROVE  CopiesHold'
  BY <1>23 DEF StrategyAdvances, CopiesHold, RequestsTyped, Requests, At,
     Goto, Load, Answer, Arrive, Idle, disk, memory, history
<1>24. ASSUME NEW s \in Slots, LoadForManifest(s)
      PROVE  CopiesHold'
  BY <1>24 DEF LoadForManifest, CopiesHold, RequestsTyped, Requests, At,
     Goto, Load, Answer, Arrive, Idle, disk, memory, history, CurrentStage
<1>25. ASSUME NEW s \in Slots, WriteDocs(s)
      PROVE  CopiesHold'
  BY <1>25 DEF WriteDocs, CopiesHold, RequestsTyped, Requests, At, Goto,
     Load, Answer, Arrive, Idle, disk, memory, history, WriteSoul, Note,
     Stale, Crosses
<1>26. ASSUME NEW s \in Slots, CrystallizeFromManifest(s)
      PROVE  CopiesHold'
  BY <1>26 DEF CrystallizeFromManifest, CopiesHold, RequestsTyped, Requests,
     At, Goto, Load, Answer, Arrive, Idle, disk, memory, history, Save,
     SaveStage, Note, Stale, StateTyped, Configs
<1>27. ASSUME NEW s \in Slots, BirthChat(s)
      PROVE  CopiesHold'
  BY <1>27 DEF BirthChat, CopiesHold, RequestsTyped, Requests, At, Goto,
     Load, Answer, Arrive, Idle, disk, memory, history
<1>28. ASSUME NEW s \in Slots, BirthChatTurn(s)
      PROVE  CopiesHold'
  BY <1>28 DEF BirthChatTurn, CopiesHold, RequestsTyped, Requests, At, Goto,
     Load, Answer, Arrive, Idle, disk, memory, history
<1>29. ASSUME NEW s \in Slots, LoadForChat(s)
      PROVE  CopiesHold'
  BY <1>29 DEF LoadForChat, CopiesHold, RequestsTyped, Requests, At, Goto,
     Load, Answer, Arrive, Idle, disk, memory, history, CurrentStage
<1>30. ASSUME NEW s \in Slots, CrystallizeSoul(s)
      PROVE  CopiesHold'
  BY <1>30 DEF CrystallizeSoul, CopiesHold, RequestsTyped, Requests, At,
     Goto, Load, Answer, Arrive, Idle, disk, memory, history, Save,
     SaveStage, Note, Stale, StateTyped, Configs
<1>31. ASSUME NEW s \in Slots, Emergence(s)
      PROVE  CopiesHold'
  BY <1>31 DEF Emergence, CopiesHold, RequestsTyped, Requests, At, Goto,
     Load, Answer, Arrive, Idle, disk, memory, history, TakenKey
<1>32. ASSUME NEW s \in Slots, SignDocuments(s)
      PROVE  CopiesHold'
  BY <1>32 DEF SignDocuments, CopiesHold, RequestsTyped, Requests, At, Goto,
     Load, Answer, Arrive, Idle, disk, memory, history
<1>33. ASSUME NEW s \in Slots, RecordBirth(s)
      PROVE  CopiesHold'
  BY <1>33 DEF RecordBirth, CopiesHold, RequestsTyped, Requests, At, Goto,
     Load, Answer, Arrive, Idle, disk, memory, history
<1>34. ASSUME NEW s \in Slots, SaveComplete(s)
      PROVE  CopiesHold'
  BY <1>34 DEF SaveComplete, CopiesHold, RequestsTyped, Requests, At, Goto,
     Load, Answer, Arrive, Idle, disk, memory, history, Save, SaveStage,
     Note, Stale, StateTyped, Configs
<1>35. ASSUME NEW s \in Slots, DeleteKeyFile(s)
      PROVE  CopiesHold'
  BY <1>35 DEF DeleteKeyFile, CopiesHold, RequestsTyped, Requests, At, Goto,
     Load, Answer, Arrive, Idle, disk, memory, history
<1>36. ASSUME NEW s \in Slots, Fail(s)
      PROVE  CopiesHold'
  BY <1>36 DEF Fail, CopiesHold, RequestsTyped, Requests, At, Goto, Load,
     Answer, Arrive, Idle, disk, memory, history
<1>37. CASE UNCHANGED vars
  BY <1>37 DEF vars, disk, memory, history, CopiesHold
<1> QED
  BY <1>1, <1>2, <1>3, <1>4, <1>5, <1>6, <1>7, <1>8, <1>9, <1>10, <1>11,
     <1>12, <1>13, <1>14, <1>15, <1>16, <1>17, <1>18, <1>19, <1>20, <1>21,
     <1>22, <1>23, <1>24, <1>25, <1>26, <1>27, <1>28, <1>29, <1>30, <1>31,
     <1>32, <1>33, <1>34, <1>35, <1>36, <1>37 DEF Next, Early, Genesis,
     Emerge

\* A key that is generated while nothing is overwritten is the first one about:
\* the configuration is fresh and no other request holds a key.
LEMMA GeneratesOnce ==
  ASSUME RequestsTyped, StateTyped, CopiesHold, FreshIsKeyless,
         NEW s \in Slots, GenerateIdentity(s), ~raced'
  PROVE  /\ ~raced /\ config = Fresh
         /\ birthKeys = 0 /\ keyFile = 0 /\ ~persisted
         /\ \A t \in Slots \ {s} : req[t].key = 0
<1>1. ~raced /\ req[s].cfg = config
  BY DEF GenerateIdentity, Stale
<1>2. \A t \in Slots \ {s} : req[t].pc \notin {"identity", "darkness"}
  BY DEF GenerateIdentity, At
<1>3. ~req[s].cfg.complete /\ req[s].cfg.stage = "none"
  BY DEF GenerateIdentity, At, CopiesHold
<1>4. config = Fresh
  BY <1>1, <1>3 DEF Fresh, StateTyped, Configs
<1> QED
  BY <1>1, <1>2, <1>4 DEF FreshIsKeyless

\* Keys come from GenerateIdentity, and are deleted only after completion.
LEMMA OwnKeyStep ==
  ASSUME RequestsTyped, StateTyped, CopiesHold, OwnKey, FreshIsKeyless, SignedFirst,
         [Next]_vars
  PROVE  OwnKey'
<1>1. CASE Crash
  BY <1>1 DEF Crash, OwnKey, Idle, disk, history
<1>2. ASSUME NEW s \in Slots, BirthState(s)
      PROVE  OwnKey'
  BY <1>2 DEF BirthState, OwnKey, RequestsTyped, Requests, At, Goto, Load,
     Answer, Arrive, Idle, disk, memory, history
<1>3. ASSUME NEW s \in Slots, OpenState(s)
      PROVE  OwnKey'
  BY <1>3 DEF OpenState, OwnKey, RequestsTyped, Requests, At, Goto, Load,
     Answer, Arrive, Idle, disk, memory, history
<1>4. ASSUME NEW s \in Slots, GenerateIdentity(s)
      PROVE  OwnKey'
  <2> SUFFICES ASSUME ~raced'
               PROVE  /\ birthKeys = 0 /\ keyFile = 0 /\ ~persisted
                      /\ \A t \in Slots \ {s} : req[t].key = 0
    BY <1>4, KeyNumbers
       DEF GenerateIdentity, OwnKey, RequestsTyped, Requests, memory
  <2> QED
    BY GeneratesOnce, <1>4
<1>5. ASSUME NEW s \in Slots, SaveDarkness(s)
      PROVE  OwnKey'
  BY <1>5 DEF SaveDarkness, OwnKey, RequestsTyped, Requests, At, Goto, Load,
     Answer, Arrive, Idle, disk, memory, history, Save, SaveStage, Note,
     Stale, StateTyped, Configs, Fresh
<1>6. ASSUME NEW s \in Slots, KeepKey(s)
      PROVE  OwnKey'
  <2>1. CASE keyFile' = req[s].key /\ persisted' = TRUE /\ UNCHANGED faults
    BY <2>1, <1>6
    DEF KeepKey, OwnKey, RequestsTyped, Requests, At, Answer, Idle, CopiesHold
  <2>2. CASE faults < MaxFaults /\ faults' = faults + 1 /\ UNCHANGED <<keyFile, persisted>>
    BY <2>2, <1>6
    DEF KeepKey, OwnKey, RequestsTyped, Requests, At, Answer, Idle, CopiesHold
  <2> QED
    BY <2>1, <2>2, <1>6 DEF KeepKey
<1>7. ASSUME NEW s \in Slots, AdvanceDarkness(s)
      PROVE  OwnKey'
  BY <1>7 DEF AdvanceDarkness, OwnKey, RequestsTyped, Requests, At, Goto,
     Load, Answer, Arrive, Idle, disk, memory, history
<1>8. ASSUME NEW s \in Slots, AdvancePastDarkness(s)
      PROVE  OwnKey'
  BY <1>8 DEF AdvancePastDarkness, OwnKey, RequestsTyped, Requests, At,
     Goto, Load, Answer, Arrive, Idle, disk, memory, history, Save,
     SaveStage, Note, Stale, StateTyped, Configs, Fresh
<1>9. ASSUME NEW s \in Slots, Ignition(s)
      PROVE  OwnKey'
  BY <1>9 DEF Ignition, OwnKey, RequestsTyped, Requests, At, Goto, Load,
     Answer, Arrive, Idle, disk, memory, history
<1>10. ASSUME NEW s \in Slots, AdvanceToConnectivity(s)
      PROVE  OwnKey'
  BY <1>10 DEF AdvanceToConnectivity, OwnKey, RequestsTyped, Requests, At,
     Goto, Load, Answer, Arrive, Idle, disk, memory, history, Save,
     SaveStage, Note, Stale, StateTyped, Configs, Fresh
<1>11. ASSUME NEW s \in Slots, StoreKey(s)
      PROVE  OwnKey'
  BY <1>11 DEF StoreKey, OwnKey, RequestsTyped, Requests, At, Goto, Load,
     Answer, Arrive, Idle, disk, memory, history
<1>12. ASSUME NEW s \in Slots, SaveCopy(s)
      PROVE  OwnKey'
  BY <1>12 DEF SaveCopy, OwnKey, RequestsTyped, Requests, At, Goto,
     Load, Answer, Arrive, Idle, disk, memory, history, Save, SaveStage,
     Note, Stale, StateTyped, Configs, Fresh
<1>13. ASSUME NEW s \in Slots, NEW path \in Paths, GenesisStart(s, path)
      PROVE  OwnKey'
  BY <1>13 DEF GenesisStart, OwnKey, RequestsTyped, Requests, At, Goto,
     Load, Answer, Arrive, Idle, disk, memory, history
<1>14. ASSUME NEW s \in Slots, AdvanceToGenesis(s)
      PROVE  OwnKey'
  BY <1>14 DEF AdvanceToGenesis, OwnKey, RequestsTyped, Requests, At, Goto,
     Load, Answer, Arrive, Idle, disk, memory, history, Save, SaveStage,
     Note, Stale, StateTyped, Configs, Fresh
<1>15. ASSUME NEW s \in Slots, PersistPath(s)
      PROVE  OwnKey'
  BY <1>15 DEF PersistPath, OwnKey, RequestsTyped, Requests, At, Goto, Load,
     Answer, Arrive, Idle, disk, memory, history
<1>16. ASSUME NEW s \in Slots, OpenSession(s)
      PROVE  OwnKey'
  BY <1>16 DEF OpenSession, OwnKey, RequestsTyped, Requests, At, Goto, Load,
     Answer, Arrive, Idle, disk, memory, history
<1>17. ASSUME NEW s \in Slots, QuickStart(s)
      PROVE  OwnKey'
  BY <1>17 DEF QuickStart, OwnKey, RequestsTyped, Requests, At, Goto, Load,
     Answer, Arrive, Idle, disk, memory, history, TakenKey
<1>18. ASSUME NEW s \in Slots, QuickDocs(s)
      PROVE  OwnKey'
  BY <1>18 DEF QuickDocs, OwnKey, RequestsTyped, Requests, At, Goto, Load,
     Answer, Arrive, Idle, disk, memory, history, WriteSoul, Note, Stale,
     Crosses
<1>19. ASSUME NEW s \in Slots, QuickSign(s)
      PROVE  OwnKey'
  BY <1>19 DEF QuickSign, OwnKey, RequestsTyped, Requests, At, Goto, Load,
     Answer, Arrive, Idle, disk, memory, history
<1>20. ASSUME NEW s \in Slots, QuickSave(s)
      PROVE  OwnKey'
  BY <1>20 DEF QuickSave, OwnKey, RequestsTyped, Requests, At, Goto, Load,
     Answer, Arrive, Idle, disk, memory, history, Save, SaveStage, Note,
     Stale, StateTyped, Configs, Fresh
<1>21. ASSUME NEW s \in Slots, QuickPath(s)
      PROVE  OwnKey'
  BY <1>21 DEF QuickPath, OwnKey, RequestsTyped, Requests, At, Goto, Load,
     Answer, Arrive, Idle, disk, memory, history
<1>22. ASSUME NEW s \in Slots, GenesisStep(s)
      PROVE  OwnKey'
  BY <1>22 DEF GenesisStep, OwnKey, RequestsTyped, Requests, At, Goto, Load,
     Answer, Arrive, Idle, disk, memory, history
<1>23. ASSUME NEW s \in Slots, StrategyAdvances(s)
      PROVE  OwnKey'
  BY <1>23 DEF StrategyAdvances, OwnKey, RequestsTyped, Requests, At, Goto,
     Load, Answer, Arrive, Idle, disk, memory, history
<1>24. ASSUME NEW s \in Slots, LoadForManifest(s)
      PROVE  OwnKey'
  BY <1>24 DEF LoadForManifest, OwnKey, RequestsTyped, Requests, At, Goto,
     Load, Answer, Arrive, Idle, disk, memory, history
<1>25. ASSUME NEW s \in Slots, WriteDocs(s)
      PROVE  OwnKey'
  BY <1>25 DEF WriteDocs, OwnKey, RequestsTyped, Requests, At, Goto, Load,
     Answer, Arrive, Idle, disk, memory, history, WriteSoul, Note, Stale,
     Crosses
<1>26. ASSUME NEW s \in Slots, CrystallizeFromManifest(s)
      PROVE  OwnKey'
  BY <1>26 DEF CrystallizeFromManifest, OwnKey, RequestsTyped, Requests, At,
     Goto, Load, Answer, Arrive, Idle, disk, memory, history, Save,
     SaveStage, Note, Stale, StateTyped, Configs, Fresh
<1>27. ASSUME NEW s \in Slots, BirthChat(s)
      PROVE  OwnKey'
  BY <1>27 DEF BirthChat, OwnKey, RequestsTyped, Requests, At, Goto, Load,
     Answer, Arrive, Idle, disk, memory, history
<1>28. ASSUME NEW s \in Slots, BirthChatTurn(s)
      PROVE  OwnKey'
  BY <1>28 DEF BirthChatTurn, OwnKey, RequestsTyped, Requests, At, Goto,
     Load, Answer, Arrive, Idle, disk, memory, history
<1>29. ASSUME NEW s \in Slots, LoadForChat(s)
      PROVE  OwnKey'
  BY <1>29 DEF LoadForChat, OwnKey, RequestsTyped, Requests, At, Goto, Load,
     Answer, Arrive, Idle, disk, memory, history
<1>30. ASSUME NEW s \in Slots, CrystallizeSoul(s)
      PROVE  OwnKey'
  BY <1>30 DEF CrystallizeSoul, OwnKey, RequestsTyped, Requests, At, Goto,
     Load, Answer, Arrive, Idle, disk, memory, history, Save, SaveStage,
     Note, Stale, StateTyped, Configs, Fresh
<1>31. ASSUME NEW s \in Slots, Emergence(s)
      PROVE  OwnKey'
  BY <1>31 DEF Emergence, OwnKey, RequestsTyped, Requests, At, Goto, Load,
     Answer, Arrive, Idle, disk, memory, history, TakenKey
<1>32. ASSUME NEW s \in Slots, SignDocuments(s)
      PROVE  OwnKey'
  BY <1>32 DEF SignDocuments, OwnKey, RequestsTyped, Requests, At, Goto,
     Load, Answer, Arrive, Idle, disk, memory, history
<1>33. ASSUME NEW s \in Slots, RecordBirth(s)
      PROVE  OwnKey'
  BY <1>33 DEF RecordBirth, OwnKey, RequestsTyped, Requests, At, Goto, Load,
     Answer, Arrive, Idle, disk, memory, history
<1>34. ASSUME NEW s \in Slots, SaveComplete(s)
      PROVE  OwnKey'
  BY <1>34 DEF SaveComplete, OwnKey, RequestsTyped, Requests, At, Goto,
     Load, Answer, Arrive, Idle, disk, memory, history, Save, SaveStage,
     Note, Stale, StateTyped, Configs, Fresh
<1>35. ASSUME NEW s \in Slots, DeleteKeyFile(s)
      PROVE  OwnKey'
  BY <1>35 DEF DeleteKeyFile, OwnKey, RequestsTyped, Requests, At, Goto,
     Load, Answer, Arrive, Idle, disk, memory, history, SignedFirst
<1>36. ASSUME NEW s \in Slots, Fail(s)
      PROVE  OwnKey'
  BY <1>36 DEF Fail, OwnKey, RequestsTyped, Requests, At, Goto, Load,
     Answer, Arrive, Idle, disk, memory, history
<1>37. CASE UNCHANGED vars
  BY <1>37 DEF vars, disk, memory, history, OwnKey
<1> QED
  BY <1>1, <1>2, <1>3, <1>4, <1>5, <1>6, <1>7, <1>8, <1>9, <1>10, <1>11,
     <1>12, <1>13, <1>14, <1>15, <1>16, <1>17, <1>18, <1>19, <1>20, <1>21,
     <1>22, <1>23, <1>24, <1>25, <1>26, <1>27, <1>28, <1>29, <1>30, <1>31,
     <1>32, <1>33, <1>34, <1>35, <1>36, <1>37 DEF Next, Early, Genesis,
     Emerge

\* The first save ends freshness, before the key is kept.
LEMMA FreshStep ==
  ASSUME RequestsTyped, StateTyped, CopiesHold, OwnKey, FreshIsKeyless, [Next]_vars
  PROVE  FreshIsKeyless'
<1>1. CASE Crash
  BY <1>1 DEF Crash, FreshIsKeyless, Fresh, Idle, disk, history
<1>2. ASSUME NEW s \in Slots, BirthState(s)
      PROVE  FreshIsKeyless'
  BY <1>2 DEF BirthState, FreshIsKeyless, RequestsTyped, Requests, At, Goto,
     Load, Answer, Arrive, Idle, disk, memory, history, Fresh
<1>3. ASSUME NEW s \in Slots, OpenState(s)
      PROVE  FreshIsKeyless'
  BY <1>3 DEF OpenState, FreshIsKeyless, RequestsTyped, Requests, At, Goto,
     Load, Answer, Arrive, Idle, disk, memory, history, Fresh
<1>4. ASSUME NEW s \in Slots, GenerateIdentity(s)
      PROVE  FreshIsKeyless'
  BY <1>4 DEF GenerateIdentity, FreshIsKeyless, RequestsTyped, Requests, At,
     Goto, Load, Answer, Arrive, Idle, disk, memory, history, Stale, Fresh
<1>5. ASSUME NEW s \in Slots, SaveDarkness(s)
      PROVE  FreshIsKeyless'
  BY <1>5 DEF SaveDarkness, FreshIsKeyless, RequestsTyped, Requests, At,
     Goto, Load, Answer, Arrive, Idle, disk, memory, history, Save,
     SaveStage, Note, Stale, StateTyped, Configs, CopiesHold, Fresh
<1>6. ASSUME NEW s \in Slots, KeepKey(s)
      PROVE  FreshIsKeyless'
  BY <1>6 DEF KeepKey, FreshIsKeyless, RequestsTyped, Requests, At, Goto,
     Load, Answer, Arrive, Idle, disk, memory, history, CopiesHold, Fresh
<1>7. ASSUME NEW s \in Slots, AdvanceDarkness(s)
      PROVE  FreshIsKeyless'
  BY <1>7 DEF AdvanceDarkness, FreshIsKeyless, RequestsTyped, Requests, At,
     Goto, Load, Answer, Arrive, Idle, disk, memory, history, Fresh
<1>8. ASSUME NEW s \in Slots, AdvancePastDarkness(s)
      PROVE  FreshIsKeyless'
  BY <1>8 DEF AdvancePastDarkness, FreshIsKeyless, RequestsTyped, Requests,
     At, Goto, Load, Answer, Arrive, Idle, disk, memory, history, Save,
     SaveStage, Note, Stale, StateTyped, Configs, Fresh
<1>9. ASSUME NEW s \in Slots, Ignition(s)
      PROVE  FreshIsKeyless'
  BY <1>9 DEF Ignition, FreshIsKeyless, RequestsTyped, Requests, At, Goto,
     Load, Answer, Arrive, Idle, disk, memory, history, Fresh
<1>10. ASSUME NEW s \in Slots, AdvanceToConnectivity(s)
      PROVE  FreshIsKeyless'
  BY <1>10 DEF AdvanceToConnectivity, FreshIsKeyless, RequestsTyped,
     Requests, At, Goto, Load, Answer, Arrive, Idle, disk, memory, history,
     Save, SaveStage, Note, Stale, StateTyped, Configs, Fresh
<1>11. ASSUME NEW s \in Slots, StoreKey(s)
      PROVE  FreshIsKeyless'
  BY <1>11 DEF StoreKey, FreshIsKeyless, RequestsTyped, Requests, At, Goto,
     Load, Answer, Arrive, Idle, disk, memory, history, Fresh
<1>12. ASSUME NEW s \in Slots, SaveCopy(s)
      PROVE  FreshIsKeyless'
  <2> SUFFICES ASSUME ~raced', config' = Fresh
               PROVE  /\ birthKeys' = 0 /\ keyFile' = 0 /\ ~persisted'
                      /\ \A t \in Slots : req'[t].key # 0 => req'[t].pc \in {"identity", "darkness"}
    BY DEF FreshIsKeyless
  <2>1. ~raced /\ config = Fresh /\ UNCHANGED <<birthKeys, keyFile, persisted>>
    BY <1>12 DEF SaveCopy, Save, Note, Stale, memory
  <2>2. ASSUME NEW t \in Slots, req'[t].key # 0
        PROVE  req'[t].pc \in {"identity", "darkness"}
    <3>1. CASE t # s
      BY <2>1, <2>2, <3>1, <1>12 DEF SaveCopy, FreshIsKeyless, RequestsTyped, Goto, Answer
    <3>2. CASE t = s
      BY <2>1, <2>2, <3>2, <1>12
      DEF SaveCopy, FreshIsKeyless, RequestsTyped, Requests, At, Goto, Answer, Idle
    <3> QED
      BY <3>1, <3>2
  <2> QED
    BY <2>1, <2>2 DEF FreshIsKeyless
<1>13. ASSUME NEW s \in Slots, NEW path \in Paths, GenesisStart(s, path)
      PROVE  FreshIsKeyless'
  BY <1>13 DEF GenesisStart, FreshIsKeyless, RequestsTyped, Requests, At,
     Goto, Load, Answer, Arrive, Idle, disk, memory, history, Fresh
<1>14. ASSUME NEW s \in Slots, AdvanceToGenesis(s)
      PROVE  FreshIsKeyless'
  BY <1>14 DEF AdvanceToGenesis, FreshIsKeyless, RequestsTyped, Requests,
     At, Goto, Load, Answer, Arrive, Idle, disk, memory, history, Save,
     SaveStage, Note, Stale, StateTyped, Configs, Fresh
<1>15. ASSUME NEW s \in Slots, PersistPath(s)
      PROVE  FreshIsKeyless'
  BY <1>15 DEF PersistPath, FreshIsKeyless, RequestsTyped, Requests, At,
     Goto, Load, Answer, Arrive, Idle, disk, memory, history, Fresh
<1>16. ASSUME NEW s \in Slots, OpenSession(s)
      PROVE  FreshIsKeyless'
  BY <1>16 DEF OpenSession, FreshIsKeyless, RequestsTyped, Requests, At,
     Goto, Load, Answer, Arrive, Idle, disk, memory, history, Fresh
<1>17. ASSUME NEW s \in Slots, QuickStart(s)
      PROVE  FreshIsKeyless'
  BY <1>17 DEF QuickStart, FreshIsKeyless, RequestsTyped, Requests, At,
     Goto, Load, Answer, Arrive, Idle, disk, memory, history, TakenKey,
     Fresh
<1>18. ASSUME NEW s \in Slots, QuickDocs(s)
      PROVE  FreshIsKeyless'
  BY <1>18 DEF QuickDocs, FreshIsKeyless, RequestsTyped, Requests, At, Goto,
     Load, Answer, Arrive, Idle, disk, memory, history, WriteSoul, Note,
     Stale, Crosses, Fresh
<1>19. ASSUME NEW s \in Slots, QuickSign(s)
      PROVE  FreshIsKeyless'
  BY <1>19 DEF QuickSign, FreshIsKeyless, RequestsTyped, Requests, At, Goto,
     Load, Answer, Arrive, Idle, disk, memory, history, Fresh
<1>20. ASSUME NEW s \in Slots, QuickSave(s)
      PROVE  FreshIsKeyless'
  BY <1>20 DEF QuickSave, FreshIsKeyless, RequestsTyped, Requests, At, Goto,
     Load, Answer, Arrive, Idle, disk, memory, history, Save, SaveStage,
     Note, Stale, StateTyped, Configs, Fresh
<1>21. ASSUME NEW s \in Slots, QuickPath(s)
      PROVE  FreshIsKeyless'
  BY <1>21 DEF QuickPath, FreshIsKeyless, RequestsTyped, Requests, At, Goto,
     Load, Answer, Arrive, Idle, disk, memory, history, Fresh
<1>22. ASSUME NEW s \in Slots, GenesisStep(s)
      PROVE  FreshIsKeyless'
  BY <1>22 DEF GenesisStep, FreshIsKeyless, RequestsTyped, Requests, At,
     Goto, Load, Answer, Arrive, Idle, disk, memory, history, Fresh
<1>23. ASSUME NEW s \in Slots, StrategyAdvances(s)
      PROVE  FreshIsKeyless'
  BY <1>23 DEF StrategyAdvances, FreshIsKeyless, RequestsTyped, Requests,
     At, Goto, Load, Answer, Arrive, Idle, disk, memory, history, Fresh
<1>24. ASSUME NEW s \in Slots, LoadForManifest(s)
      PROVE  FreshIsKeyless'
  BY <1>24 DEF LoadForManifest, FreshIsKeyless, RequestsTyped, Requests, At,
     Goto, Load, Answer, Arrive, Idle, disk, memory, history, Fresh
<1>25. ASSUME NEW s \in Slots, WriteDocs(s)
      PROVE  FreshIsKeyless'
  BY <1>25 DEF WriteDocs, FreshIsKeyless, RequestsTyped, Requests, At, Goto,
     Load, Answer, Arrive, Idle, disk, memory, history, WriteSoul, Note,
     Stale, Crosses, Fresh
<1>26. ASSUME NEW s \in Slots, CrystallizeFromManifest(s)
      PROVE  FreshIsKeyless'
  BY <1>26 DEF CrystallizeFromManifest, FreshIsKeyless, RequestsTyped,
     Requests, At, Goto, Load, Answer, Arrive, Idle, disk, memory, history,
     Save, SaveStage, Note, Stale, StateTyped, Configs, Fresh
<1>27. ASSUME NEW s \in Slots, BirthChat(s)
      PROVE  FreshIsKeyless'
  BY <1>27 DEF BirthChat, FreshIsKeyless, RequestsTyped, Requests, At, Goto,
     Load, Answer, Arrive, Idle, disk, memory, history, Fresh
<1>28. ASSUME NEW s \in Slots, BirthChatTurn(s)
      PROVE  FreshIsKeyless'
  BY <1>28 DEF BirthChatTurn, FreshIsKeyless, RequestsTyped, Requests, At,
     Goto, Load, Answer, Arrive, Idle, disk, memory, history, Fresh
<1>29. ASSUME NEW s \in Slots, LoadForChat(s)
      PROVE  FreshIsKeyless'
  BY <1>29 DEF LoadForChat, FreshIsKeyless, RequestsTyped, Requests, At,
     Goto, Load, Answer, Arrive, Idle, disk, memory, history, Fresh
<1>30. ASSUME NEW s \in Slots, CrystallizeSoul(s)
      PROVE  FreshIsKeyless'
  BY <1>30 DEF CrystallizeSoul, FreshIsKeyless, RequestsTyped, Requests, At,
     Goto, Load, Answer, Arrive, Idle, disk, memory, history, Save,
     SaveStage, Note, Stale, StateTyped, Configs, Fresh
<1>31. ASSUME NEW s \in Slots, Emergence(s)
      PROVE  FreshIsKeyless'
  BY <1>31 DEF Emergence, FreshIsKeyless, RequestsTyped, Requests, At, Goto,
     Load, Answer, Arrive, Idle, disk, memory, history, TakenKey,
     StateTyped, Configs, Fresh
<1>32. ASSUME NEW s \in Slots, SignDocuments(s)
      PROVE  FreshIsKeyless'
  BY <1>32 DEF SignDocuments, FreshIsKeyless, RequestsTyped, Requests, At,
     Goto, Load, Answer, Arrive, Idle, disk, memory, history, Fresh
<1>33. ASSUME NEW s \in Slots, RecordBirth(s)
      PROVE  FreshIsKeyless'
  BY <1>33 DEF RecordBirth, FreshIsKeyless, RequestsTyped, Requests, At,
     Goto, Load, Answer, Arrive, Idle, disk, memory, history, Fresh
<1>34. ASSUME NEW s \in Slots, SaveComplete(s)
      PROVE  FreshIsKeyless'
  BY <1>34 DEF SaveComplete, FreshIsKeyless, RequestsTyped, Requests, At,
     Goto, Load, Answer, Arrive, Idle, disk, memory, history, Save,
     SaveStage, Note, Stale, StateTyped, Configs, Fresh
<1>35. ASSUME NEW s \in Slots, DeleteKeyFile(s)
      PROVE  FreshIsKeyless'
  BY <1>35 DEF DeleteKeyFile, FreshIsKeyless, RequestsTyped, Requests, At,
     Goto, Load, Answer, Arrive, Idle, disk, memory, history, Fresh
<1>36. ASSUME NEW s \in Slots, Fail(s)
      PROVE  FreshIsKeyless'
  BY <1>36 DEF Fail, FreshIsKeyless, RequestsTyped, Requests, At, Goto,
     Load, Answer, Arrive, Idle, disk, memory, history, Fresh
<1>37. CASE UNCHANGED vars
  BY <1>37 DEF vars, disk, memory, history, FreshIsKeyless
<1> QED
  BY <1>1, <1>2, <1>3, <1>4, <1>5, <1>6, <1>7, <1>8, <1>9, <1>10, <1>11,
     <1>12, <1>13, <1>14, <1>15, <1>16, <1>17, <1>18, <1>19, <1>20, <1>21,
     <1>22, <1>23, <1>24, <1>25, <1>26, <1>27, <1>28, <1>29, <1>30, <1>31,
     <1>32, <1>33, <1>34, <1>35, <1>36, <1>37 DEF Next, Early, Genesis,
     Emerge

\* Signing precedes the save that completes; a soul written in between is a race.
LEMMA SignedStep ==
  ASSUME RequestsTyped, StateTyped, CopiesHold, OwnKey, FreshIsKeyless, SignedFirst,
         [Next]_vars
  PROVE  SignedFirst'
<1>1. CASE Crash
  BY <1>1 DEF Crash, SignedFirst, Idle, disk, history
<1>2. ASSUME NEW s \in Slots, BirthState(s)
      PROVE  SignedFirst'
  BY <1>2 DEF BirthState, SignedFirst, RequestsTyped, Requests, At, Goto,
     Load, Answer, Arrive, Idle, disk, memory, history
<1>3. ASSUME NEW s \in Slots, OpenState(s)
      PROVE  SignedFirst'
  BY <1>3 DEF OpenState, SignedFirst, RequestsTyped, Requests, At, Goto,
     Load, Answer, Arrive, Idle, disk, memory, history
<1>4. ASSUME NEW s \in Slots, GenerateIdentity(s)
      PROVE  SignedFirst'
  <2> SUFFICES ASSUME ~raced'
               PROVE  SignedFirst'
    BY DEF SignedFirst
  <2>1. ~raced /\ config = Fresh
    BY GeneratesOnce, <1>4
  <2>2. \A t \in Slots : req[t].pc \notin {"quickSave", "record", "complete",
                                         "quickPath", "cleanup"}
    BY GeneratesOnce, <1>4, <2>1 DEF GenerateIdentity, At, SignedFirst,
       CopiesHold, Fresh
  <2> QED
    BY <2>1, <2>2, <1>4 DEF GenerateIdentity, SignedFirst, RequestsTyped,
       Requests, Fresh
<1>5. ASSUME NEW s \in Slots, SaveDarkness(s)
      PROVE  SignedFirst'
  BY <1>5 DEF SaveDarkness, SignedFirst, RequestsTyped, Requests, At, Goto,
     Load, Answer, Arrive, Idle, disk, memory, history, Save, SaveStage,
     Note, Stale, StateTyped, Configs
<1>6. ASSUME NEW s \in Slots, KeepKey(s)
      PROVE  SignedFirst'
  BY <1>6 DEF KeepKey, SignedFirst, RequestsTyped, Requests, At, Goto, Load,
     Answer, Arrive, Idle, disk, memory, history
<1>7. ASSUME NEW s \in Slots, AdvanceDarkness(s)
      PROVE  SignedFirst'
  BY <1>7 DEF AdvanceDarkness, SignedFirst, RequestsTyped, Requests, At,
     Goto, Load, Answer, Arrive, Idle, disk, memory, history
<1>8. ASSUME NEW s \in Slots, AdvancePastDarkness(s)
      PROVE  SignedFirst'
  BY <1>8 DEF AdvancePastDarkness, SignedFirst, RequestsTyped, Requests, At,
     Goto, Load, Answer, Arrive, Idle, disk, memory, history, Save,
     SaveStage, Note, Stale, StateTyped, Configs
<1>9. ASSUME NEW s \in Slots, Ignition(s)
      PROVE  SignedFirst'
  BY <1>9 DEF Ignition, SignedFirst, RequestsTyped, Requests, At, Goto,
     Load, Answer, Arrive, Idle, disk, memory, history
<1>10. ASSUME NEW s \in Slots, AdvanceToConnectivity(s)
      PROVE  SignedFirst'
  BY <1>10 DEF AdvanceToConnectivity, SignedFirst, RequestsTyped, Requests,
     At, Goto, Load, Answer, Arrive, Idle, disk, memory, history, Save,
     SaveStage, Note, Stale, StateTyped, Configs
<1>11. ASSUME NEW s \in Slots, StoreKey(s)
      PROVE  SignedFirst'
  BY <1>11 DEF StoreKey, SignedFirst, RequestsTyped, Requests, At, Goto,
     Load, Answer, Arrive, Idle, disk, memory, history
<1>12. ASSUME NEW s \in Slots, SaveCopy(s)
      PROVE  SignedFirst'
  BY <1>12 DEF SaveCopy, SignedFirst, RequestsTyped, Requests, At,
     Goto, Load, Answer, Arrive, Idle, disk, memory, history, Save,
     SaveStage, Note, Stale, StateTyped, Configs
<1>13. ASSUME NEW s \in Slots, NEW path \in Paths, GenesisStart(s, path)
      PROVE  SignedFirst'
  BY <1>13 DEF GenesisStart, SignedFirst, RequestsTyped, Requests, At, Goto,
     Load, Answer, Arrive, Idle, disk, memory, history
<1>14. ASSUME NEW s \in Slots, AdvanceToGenesis(s)
      PROVE  SignedFirst'
  BY <1>14 DEF AdvanceToGenesis, SignedFirst, RequestsTyped, Requests, At,
     Goto, Load, Answer, Arrive, Idle, disk, memory, history, Save,
     SaveStage, Note, Stale, StateTyped, Configs
<1>15. ASSUME NEW s \in Slots, PersistPath(s)
      PROVE  SignedFirst'
  BY <1>15 DEF PersistPath, SignedFirst, RequestsTyped, Requests, At, Goto,
     Load, Answer, Arrive, Idle, disk, memory, history
<1>16. ASSUME NEW s \in Slots, OpenSession(s)
      PROVE  SignedFirst'
  BY <1>16 DEF OpenSession, SignedFirst, RequestsTyped, Requests, At, Goto,
     Load, Answer, Arrive, Idle, disk, memory, history
<1>17. ASSUME NEW s \in Slots, QuickStart(s)
      PROVE  SignedFirst'
  BY <1>17 DEF QuickStart, SignedFirst, RequestsTyped, Requests, At, Goto,
     Load, Answer, Arrive, Idle, disk, memory, history, TakenKey
<1>18. ASSUME NEW s \in Slots, QuickDocs(s)
      PROVE  SignedFirst'
  BY <1>18 DEF QuickDocs, SignedFirst, RequestsTyped, Requests, At, Goto,
     Load, Answer, Arrive, Idle, disk, memory, history, WriteSoul, Note,
     Stale, Crosses, CopiesHold
<1>19. ASSUME NEW s \in Slots, QuickSign(s)
      PROVE  SignedFirst'
  BY <1>19 DEF QuickSign, SignedFirst, RequestsTyped, Requests, At, Goto,
     Load, Answer, Arrive, Idle, disk, memory, history, OwnKey, CopiesHold
<1>20. ASSUME NEW s \in Slots, QuickSave(s)
      PROVE  SignedFirst'
  BY <1>20 DEF QuickSave, SignedFirst, RequestsTyped, Requests, At, Goto,
     Load, Answer, Arrive, Idle, disk, memory, history, Save, SaveStage,
     Note, Stale, StateTyped, Configs
<1>21. ASSUME NEW s \in Slots, QuickPath(s)
      PROVE  SignedFirst'
  BY <1>21 DEF QuickPath, SignedFirst, RequestsTyped, Requests, At, Goto,
     Load, Answer, Arrive, Idle, disk, memory, history
<1>22. ASSUME NEW s \in Slots, GenesisStep(s)
      PROVE  SignedFirst'
  BY <1>22 DEF GenesisStep, SignedFirst, RequestsTyped, Requests, At, Goto,
     Load, Answer, Arrive, Idle, disk, memory, history
<1>23. ASSUME NEW s \in Slots, StrategyAdvances(s)
      PROVE  SignedFirst'
  BY <1>23 DEF StrategyAdvances, SignedFirst, RequestsTyped, Requests, At,
     Goto, Load, Answer, Arrive, Idle, disk, memory, history
<1>24. ASSUME NEW s \in Slots, LoadForManifest(s)
      PROVE  SignedFirst'
  BY <1>24 DEF LoadForManifest, SignedFirst, RequestsTyped, Requests, At,
     Goto, Load, Answer, Arrive, Idle, disk, memory, history
<1>25. ASSUME NEW s \in Slots, WriteDocs(s)
      PROVE  SignedFirst'
  BY <1>25 DEF WriteDocs, SignedFirst, RequestsTyped, Requests, At, Goto,
     Load, Answer, Arrive, Idle, disk, memory, history, WriteSoul, Note,
     Stale, Crosses, CopiesHold
<1>26. ASSUME NEW s \in Slots, CrystallizeFromManifest(s)
      PROVE  SignedFirst'
  BY <1>26 DEF CrystallizeFromManifest, SignedFirst, RequestsTyped,
     Requests, At, Goto, Load, Answer, Arrive, Idle, disk, memory, history,
     Save, SaveStage, Note, Stale, StateTyped, Configs
<1>27. ASSUME NEW s \in Slots, BirthChat(s)
      PROVE  SignedFirst'
  BY <1>27 DEF BirthChat, SignedFirst, RequestsTyped, Requests, At, Goto,
     Load, Answer, Arrive, Idle, disk, memory, history
<1>28. ASSUME NEW s \in Slots, BirthChatTurn(s)
      PROVE  SignedFirst'
  BY <1>28 DEF BirthChatTurn, SignedFirst, RequestsTyped, Requests, At,
     Goto, Load, Answer, Arrive, Idle, disk, memory, history
<1>29. ASSUME NEW s \in Slots, LoadForChat(s)
      PROVE  SignedFirst'
  BY <1>29 DEF LoadForChat, SignedFirst, RequestsTyped, Requests, At, Goto,
     Load, Answer, Arrive, Idle, disk, memory, history
<1>30. ASSUME NEW s \in Slots, CrystallizeSoul(s)
      PROVE  SignedFirst'
  BY <1>30 DEF CrystallizeSoul, SignedFirst, RequestsTyped, Requests, At,
     Goto, Load, Answer, Arrive, Idle, disk, memory, history, Save,
     SaveStage, Note, Stale, StateTyped, Configs
<1>31. ASSUME NEW s \in Slots, Emergence(s)
      PROVE  SignedFirst'
  BY <1>31 DEF Emergence, SignedFirst, RequestsTyped, Requests, At, Goto,
     Load, Answer, Arrive, Idle, disk, memory, history, TakenKey
<1>32. ASSUME NEW s \in Slots, SignDocuments(s)
      PROVE  SignedFirst'
  BY <1>32 DEF SignDocuments, SignedFirst, RequestsTyped, Requests, At,
     Goto, Load, Answer, Arrive, Idle, disk, memory, history, OwnKey,
     CopiesHold
<1>33. ASSUME NEW s \in Slots, RecordBirth(s)
      PROVE  SignedFirst'
  BY <1>33 DEF RecordBirth, SignedFirst, RequestsTyped, Requests, At, Goto,
     Load, Answer, Arrive, Idle, disk, memory, history
<1>34. ASSUME NEW s \in Slots, SaveComplete(s)
      PROVE  SignedFirst'
  BY <1>34 DEF SaveComplete, SignedFirst, RequestsTyped, Requests, At, Goto,
     Load, Answer, Arrive, Idle, disk, memory, history, Save, SaveStage,
     Note, Stale, StateTyped, Configs
<1>35. ASSUME NEW s \in Slots, DeleteKeyFile(s)
      PROVE  SignedFirst'
  BY <1>35 DEF DeleteKeyFile, SignedFirst, RequestsTyped, Requests, At,
     Goto, Load, Answer, Arrive, Idle, disk, memory, history
<1>36. ASSUME NEW s \in Slots, Fail(s)
      PROVE  SignedFirst'
  BY <1>36 DEF Fail, SignedFirst, RequestsTyped, Requests, At, Goto, Load,
     Answer, Arrive, Idle, disk, memory, history
<1>37. CASE UNCHANGED vars
  BY <1>37 DEF vars, disk, memory, history, SignedFirst
<1> QED
  BY <1>1, <1>2, <1>3, <1>4, <1>5, <1>6, <1>7, <1>8, <1>9, <1>10, <1>11,
     <1>12, <1>13, <1>14, <1>15, <1>16, <1>17, <1>18, <1>19, <1>20, <1>21,
     <1>22, <1>23, <1>24, <1>25, <1>26, <1>27, <1>28, <1>29, <1>30, <1>31,
     <1>32, <1>33, <1>34, <1>35, <1>36, <1>37 DEF Next, Early, Genesis,
     Emerge

-----------------------------------------------------------------------------
\* The inductive invariant.
IInv == /\ RequestsTyped /\ StateTyped /\ ArgumentsFit
        /\ CopiesHold /\ OwnKey /\ FreshIsKeyless /\ SignedFirst

LEMMA InitIInv == Init => IInv
<1> SUFFICES ASSUME Init PROVE IInv
  OBVIOUS
<1>1. CopiesHold
  BY DEF Init, CopiesHold, Idle
<1>2. OwnKey /\ FreshIsKeyless /\ SignedFirst
  BY DEF Init, OwnKey, FreshIsKeyless, SignedFirst, Idle
<1> QED
  BY <1>1, <1>2, InitTyped DEF IInv

LEMMA NextIInv == IInv /\ [Next]_vars => IInv'
BY RequestsStep, StateStep, ArgumentsStep, CopiesStep, OwnKeyStep, FreshStep,
   SignedStep
   DEF IInv

THEOREM IInvHolds == Spec => []IInv
BY InitIInv, NextIInv, PTL DEF Spec

\* Every variable keeps its type: no step of a birth leaves the stages, keys
\* and documents the files may hold.
THEOREM TypeCorrect == Spec => []TypeOK
<1>1. IInv => TypeOK
  BY TypeOKSplit DEF IInv
<1> QED
  BY <1>1, IInvHolds, PTL

\* Unless a request wrote over another one's work, a complete agent's documents
\* are signed with its own key, for any number of requests, failures and crashes.
THEOREM BornIsSigned == Spec => []SignatureHolds
<1>1. IInv => SignatureHolds
  BY DEF IInv, SignedFirst, SignatureHolds
<1> QED
  BY <1>1, IInvHolds, PTL

\* Under the same condition a key that reached the disk is there until the birth
\* is complete: no failure or crash leaves a birth that cannot be finished.
THEOREM KeyIsKept == Spec => []KeyOutlivesBirth
<1>1. IInv => KeyOutlivesBirth
  BY DEF IInv, OwnKey, KeyOutlivesBirth
<1> QED
  BY <1>1, IInvHolds, PTL

LEMMA RankIsNumber ==
  /\ \A c \in Configs : Rank(c) \in 1 .. 6
  /\ \A c \in Configs : c.complete => Rank(c) = 6
BY DEF Configs, StageNames, Rank, CurrentStage

\* A saved stage that is not an earlier one than the copy's own.
LEMMA SaveGoesOn ==
  ASSUME StateTyped, RequestsTyped, NEW s \in Slots, NEW stage \in StageNames,
         SaveStage(s, stage), req'[s] # req[s],
         Rank([req[s].cfg EXCEPT !.stage = stage]) >= Rank(req[s].cfg)
  PROVE  Rank(config') < Rank(config) => \E t \in Slots : Stale(t) /\ req'[t] # req[t]
<1>1. CASE Stale(s)
  BY <1>1
<1>2. CASE ~Stale(s)
  <2>1. Rank(config') >= Rank(config)
    BY <1>2 DEF Stale, SaveStage, Save
  <2>2. config \in Configs /\ config' \in Configs
    BY StagesFit DEF StateTyped, RequestsTyped, Requests, SaveStage, Save
  <2> QED
    BY <2>1, <2>2, RankIsNumber
<1> QED
  BY <1>1, <1>2

\* Every save that is not stale goes on from where the configuration stands.
LEMMA StagesStep ==
  ASSUME IInv, [Next]_vars
  PROVE  Rank(config') < Rank(config) => \E t \in Slots : Stale(t) /\ req'[t] # req[t]
<1> DEFINE Undone == Rank(config') < Rank(config) =>
                        \E t \in Slots : Stale(t) /\ req'[t] # req[t]
<1> USE DEF IInv
<1>1. CASE Crash
  BY <1>1, RankIsNumber DEF Crash, disk, StateTyped
<1>2. ASSUME NEW s \in Slots, BirthState(s)
      PROVE  Undone
  BY <1>2, RankIsNumber DEF BirthState, disk, StateTyped
<1>3. ASSUME NEW s \in Slots, OpenState(s)
      PROVE  Undone
  BY <1>3, RankIsNumber DEF OpenState, disk, StateTyped
<1>4. ASSUME NEW s \in Slots, GenerateIdentity(s)
      PROVE  Undone
  BY <1>4, RankIsNumber DEF GenerateIdentity, disk, StateTyped
<1>5. ASSUME NEW s \in Slots, SaveDarkness(s)
      PROVE  Undone
  <2>1. Rank([req[s].cfg EXCEPT !.stage = "Darkness"]) >= Rank(req[s].cfg)
    BY <1>5 DEF SaveDarkness, CopiesHold, At, RequestsTyped, Requests,
       Configs, Rank, CurrentStage
  <2>2. req'[s] # req[s]
    BY <1>5 DEF SaveDarkness, Answer, Goto, At, Idle, RequestsTyped, Requests
  <2> QED
    BY <2>1, <2>2, <1>5, SaveGoesOn DEF SaveDarkness, StageNames
<1>6. ASSUME NEW s \in Slots, KeepKey(s)
      PROVE  Undone
  BY <1>6, RankIsNumber DEF KeepKey, disk, StateTyped
<1>7. ASSUME NEW s \in Slots, AdvanceDarkness(s)
      PROVE  Undone
  BY <1>7, RankIsNumber DEF AdvanceDarkness, disk, StateTyped
<1>8. ASSUME NEW s \in Slots, AdvancePastDarkness(s)
      PROVE  Undone
  <2>1. CASE SaveStage(s, "Ignition") /\ CurrentStage(req[s].cfg) = "Darkness"
    <3>1. Rank([req[s].cfg EXCEPT !.stage = "Ignition"]) >= Rank(req[s].cfg)
      BY <2>1 DEF RequestsTyped, Requests, Configs, Rank, CurrentStage
    <3>2. req'[s] # req[s]
      BY <1>8 DEF AdvancePastDarkness, Answer, Goto, At, Idle, RequestsTyped,
         Requests
    <3> QED
      BY <2>1, <3>1, <3>2, SaveGoesOn DEF StageNames
  <2>2. CASE UNCHANGED config
    BY <2>2, RankIsNumber DEF StateTyped
  <2> QED
    BY <2>1, <2>2, <1>8 DEF AdvancePastDarkness
<1>9. ASSUME NEW s \in Slots, Ignition(s)
      PROVE  Undone
  BY <1>9, RankIsNumber DEF Ignition, disk, StateTyped
<1>10. ASSUME NEW s \in Slots, AdvanceToConnectivity(s)
      PROVE  Undone
  <2>1. CASE /\ SaveStage(s, "Connectivity")
             /\ CurrentStage(req[s].cfg) = "Ignition"
    <3>1. Rank([req[s].cfg EXCEPT !.stage = "Connectivity"]) >= Rank(req[s].cfg)
      BY <2>1 DEF RequestsTyped, Requests, Configs, Rank, CurrentStage
    <3>2. req'[s] # req[s]
      BY <1>10 DEF AdvanceToConnectivity, Answer, Goto, At, Idle,
         RequestsTyped, Requests
    <3> QED
      BY <2>1, <3>1, <3>2, SaveGoesOn DEF StageNames
  <2>2. CASE UNCHANGED config
    BY <2>2, RankIsNumber DEF StateTyped
  <2> QED
    BY <2>1, <2>2, <1>10 DEF AdvanceToConnectivity
<1>11. ASSUME NEW s \in Slots, StoreKey(s)
      PROVE  Undone
  BY <1>11, RankIsNumber DEF StoreKey, disk, StateTyped
<1>12. ASSUME NEW s \in Slots, SaveCopy(s)
      PROVE  Undone
  <2>1. CASE Stale(s)
    BY <2>1, <1>12 DEF SaveCopy, Answer, Goto, At, Idle, RequestsTyped,
       Requests
  <2>2. CASE ~Stale(s)
    BY <2>2, <1>12, RankIsNumber DEF SaveCopy, Save, Stale, StateTyped
  <2> QED
    BY <2>1, <2>2
<1>13. ASSUME NEW s \in Slots, NEW path \in Paths, GenesisStart(s, path)
      PROVE  Undone
  BY <1>13, RankIsNumber DEF GenesisStart, disk, StateTyped
<1>14. ASSUME NEW s \in Slots, AdvanceToGenesis(s)
      PROVE  Undone
  <2>1. CASE /\ SaveStage(s, "Genesis")
             /\ CurrentStage(req[s].cfg) = "Connectivity"
    <3>1. Rank([req[s].cfg EXCEPT !.stage = "Genesis"]) >= Rank(req[s].cfg)
      BY <2>1 DEF RequestsTyped, Requests, Configs, Rank, CurrentStage
    <3>2. req'[s] # req[s]
      BY <1>14 DEF AdvanceToGenesis, Answer, Goto, At, Idle, RequestsTyped,
         Requests
    <3> QED
      BY <2>1, <3>1, <3>2, SaveGoesOn DEF StageNames
  <2>2. CASE UNCHANGED config
    BY <2>2, RankIsNumber DEF StateTyped
  <2> QED
    BY <2>1, <2>2, <1>14 DEF AdvanceToGenesis
<1>15. ASSUME NEW s \in Slots, PersistPath(s)
      PROVE  Undone
  BY <1>15, RankIsNumber DEF PersistPath, disk, StateTyped
<1>16. ASSUME NEW s \in Slots, OpenSession(s)
      PROVE  Undone
  BY <1>16, RankIsNumber DEF OpenSession, disk, StateTyped
<1>17. ASSUME NEW s \in Slots, QuickStart(s)
      PROVE  Undone
  BY <1>17, RankIsNumber DEF QuickStart, disk, StateTyped
<1>18. ASSUME NEW s \in Slots, QuickDocs(s)
      PROVE  Undone
  BY <1>18, RankIsNumber DEF QuickDocs, disk, StateTyped
<1>19. ASSUME NEW s \in Slots, QuickSign(s)
      PROVE  Undone
  BY <1>19, RankIsNumber DEF QuickSign, disk, StateTyped
<1>20. ASSUME NEW s \in Slots, QuickSave(s)
      PROVE  Undone
  <2>1. config' \in Configs /\ config'.complete
    BY <1>20 DEF QuickSave, Save, Configs, StageNames
  <2> QED
    BY <2>1, RankIsNumber DEF StateTyped
<1>21. ASSUME NEW s \in Slots, QuickPath(s)
      PROVE  Undone
  BY <1>21, RankIsNumber DEF QuickPath, disk, StateTyped
<1>22. ASSUME NEW s \in Slots, GenesisStep(s)
      PROVE  Undone
  BY <1>22, RankIsNumber DEF GenesisStep, disk, StateTyped
<1>23. ASSUME NEW s \in Slots, StrategyAdvances(s)
      PROVE  Undone
  BY <1>23, RankIsNumber DEF StrategyAdvances, disk, StateTyped
<1>24. ASSUME NEW s \in Slots, LoadForManifest(s)
      PROVE  Undone
  BY <1>24, RankIsNumber DEF LoadForManifest, disk, StateTyped
<1>25. ASSUME NEW s \in Slots, WriteDocs(s)
      PROVE  Undone
  BY <1>25, RankIsNumber DEF WriteDocs, disk, StateTyped
<1>26. ASSUME NEW s \in Slots, CrystallizeFromManifest(s)
      PROVE  Undone
  <2>1. Rank([req[s].cfg EXCEPT !.stage = "Emergence"]) >= Rank(req[s].cfg)
    BY <1>26 DEF CrystallizeFromManifest, CopiesHold, At, RequestsTyped,
       Requests, Configs, Rank, CurrentStage
  <2>2. req'[s] # req[s]
    BY <1>26 DEF CrystallizeFromManifest, Answer, Goto, At, Idle,
       RequestsTyped, Requests
  <2> QED
    BY <2>1, <2>2, <1>26, SaveGoesOn DEF CrystallizeFromManifest, StageNames
<1>27. ASSUME NEW s \in Slots, BirthChat(s)
      PROVE  Undone
  BY <1>27, RankIsNumber DEF BirthChat, disk, StateTyped
<1>28. ASSUME NEW s \in Slots, BirthChatTurn(s)
      PROVE  Undone
  BY <1>28, RankIsNumber DEF BirthChatTurn, disk, StateTyped
<1>29. ASSUME NEW s \in Slots, LoadForChat(s)
      PROVE  Undone
  BY <1>29, RankIsNumber DEF LoadForChat, disk, StateTyped
<1>30. ASSUME NEW s \in Slots, CrystallizeSoul(s)
      PROVE  Undone
  <2>1. Rank([req[s].cfg EXCEPT !.stage = "Emergence"]) >= Rank(req[s].cfg)
    BY <1>30 DEF CrystallizeSoul, CopiesHold, At, RequestsTyped, Requests,
       Configs, Rank, CurrentStage
  <2>2. req'[s] # req[s]
    BY <1>30 DEF CrystallizeSoul, Answer, Goto, At, Idle, RequestsTyped,
       Requests
  <2> QED
    BY <2>1, <2>2, <1>30, SaveGoesOn DEF CrystallizeSoul, StageNames
<1>31. ASSUME NEW s \in Slots, Emergence(s)
      PROVE  Undone
  BY <1>31, RankIsNumber DEF Emergence, disk, StateTyped
<1>32. ASSUME NEW s \in Slots, SignDocuments(s)
      PROVE  Undone
  BY <1>32, RankIsNumber DEF SignDocuments, disk, StateTyped
<1>33. ASSUME NEW s \in Slots, RecordBirth(s)
      PROVE  Undone
  BY <1>33, RankIsNumber DEF RecordBirth, disk, StateTyped
<1>34. ASSUME NEW s \in Slots, SaveComplete(s)
      PROVE  Undone
  <2>1. config' \in Configs /\ config'.complete
    BY <1>34 DEF SaveComplete, Save, Configs, StageNames
  <2> QED
    BY <2>1, RankIsNumber DEF StateTyped
<1>35. ASSUME NEW s \in Slots, DeleteKeyFile(s)
      PROVE  Undone
  BY <1>35, RankIsNumber DEF DeleteKeyFile, disk, StateTyped
<1>36. ASSUME NEW s \in Slots, Fail(s)
      PROVE  Undone
  BY <1>36, RankIsNumber DEF Fail, disk, StateTyped
<1>37. CASE UNCHANGED vars
  BY <1>37, RankIsNumber DEF vars, disk, memory, history, StateTyped
<1> QED
  BY <1>1, <1>2, <1>3, <1>4, <1>5, <1>6, <1>7, <1>8, <1>9, <1>10, <1>11,
     <1>12, <1>13, <1>14, <1>15, <1>16, <1>17, <1>18, <1>19, <1>20, <1>21,
     <1>22, <1>23, <1>24, <1>25, <1>26, <1>27, <1>28, <1>29, <1>30, <1>31,
     <1>32, <1>33, <1>34, <1>35, <1>36, <1>37 DEF Next, Early, Genesis,
     Emerge

\* Only a request that saves an outdated copy takes the birth back a stage.
THEOREM StagesGoForward == Spec => BackwardsOnlyIfStale
<1>1. IInv /\ [Next]_vars =>
        [Rank(config') < Rank(config) =>
            \E s \in Slots : Stale(s) /\ req'[s] # req[s]]_vars
  BY StagesStep
<1> QED
  BY <1>1, IInvHolds, PTL DEF Spec, BackwardsOnlyIfStale
=============================================================================
