------------------------ MODULE TaskRegistry_proofs ------------------------
(***************************************************************************)
(* What the task map promises for every number of agents, tasks and        *)
(* launching callers, and, in the second half, what the files promise for  *)
(* every number of requests, crashes and kinds of agents.                  *)
(*                                                                         *)
(* RivalsRaced is not inductive.  A caller between its check and its       *)
(* insertion must still own no active task of the agent it checked, and    *)
(* this survives only because nobody inserts in another caller's name.     *)
(* ActiveIsFindable needs that the sweep cannot take a task whose loop is  *)
(* not spawned yet: such a task is still Running, since only its own loop  *)
(* changes its status, and the loop does not exist.                        *)
(*                                                                         *)
(* For the files, the invariant follows every process through its program: *)
(* it holds what it is about to use (Programmed), and what it holds is as  *)
(* old as it admits (CopiesAreOld), measured against what the file will be *)
(* when the writes on their way are done (Target).  That the new agent is  *)
(* named before it is registered is a fact about the rest of each program  *)
(* (Names, Registers), and the legacy key is either in the keyring or on   *)
(* its way there with nobody else running (KeyOnItsWay).                   *)
(***************************************************************************)
EXTENDS TaskRegistry, FileStores, SequenceTheorems, TLAPS

\* What a launch may rely on while it prepares the loop.
HeldIsSafe ==
  \A c \in Callers : step[c] = "preparing" =>
    /\ holds[c] \in registered
    /\ loop[holds[c]] = "none"
    /\ status[holds[c]] = "Running"
    /\ launcher[holds[c]] = c

\* What a launch that has checked still knows when it inserts.
CheckedStillHolds ==
  \A c \in Callers : step[c] = "checked" =>
    \A t \in ActiveOf(claim[c]) : launcher[t] # c

\* Every task in the map was put there by a caller.
RegisteredWasLaunched == \A t \in registered : launcher[t] \in Callers

Inv == /\ TypeOK
       /\ HeldIsSafe
       /\ ActiveIsFindable
       /\ CheckedStillHolds
       /\ RivalsRaced
       /\ RegisteredWasLaunched

-----------------------------------------------------------------------------
\* Initially there are no tasks and no launches.
LEMMA InitInv == Init => Inv
  BY NobodyAssumption
  DEF Init, Inv, TypeOK, HeldIsSafe, ActiveIsFindable, CheckedStillHolds, RivalsRaced,
      RegisteredWasLaunched, ActiveOf, ActiveStatuses

\* Each step keeps the variables in their ranges.
LEMMA TypeStep == TypeOK /\ HeldIsSafe /\ [Next]_vars => TypeOK'
<1> SUFFICES ASSUME TypeOK, HeldIsSafe, [Next]_vars PROVE TypeOK'
  OBVIOUS
<1> USE DEF TypeOK, launchVars, taskVars
<1>1. ASSUME NEW c \in Callers, NEW a \in Agents, CheckActive(c, a) PROVE TypeOK'
  BY <1>1 DEF CheckActive
<1>2. ASSUME NEW c \in Callers, NEW t \in Tasks, InsertTask(c, t) PROVE TypeOK'
  <2>1. claim[c] \in Agents \cup {NoAgent}
    OBVIOUS
  <2> QED
    BY <1>2, <2>1 DEF InsertTask
<1>3. ASSUME NEW c \in Callers, SpawnLoop(c) PROVE TypeOK'
  <2>1. holds[c] \in Tasks
    BY <1>3 DEF SpawnLoop, HeldIsSafe
  <2> QED
    BY <1>3, <2>1 DEF SpawnLoop
<1>4. ASSUME NEW c \in Callers, Disconnect(c) PROVE TypeOK'
  BY <1>4 DEF Disconnect
<1>5. ASSUME NEW t \in Tasks, LoopStep(t) PROVE TypeOK'
  BY <1>5 DEF LoopStep, LoopPauses, LoopResumes, LoopEnds, LoopReturns
<1>6. ASSUME NEW t \in Tasks, Expire(t) PROVE TypeOK'
  BY <1>6 DEF Expire
<1>7. CASE Sweep
  BY <1>7 DEF Sweep, Stale
<1>8. CASE Restart
  BY <1>8 DEF Restart
<1>9. CASE UNCHANGED vars
  BY <1>9 DEF vars
<1> QED
  BY <1>1, <1>2, <1>3, <1>4, <1>5, <1>6, <1>7, <1>8, <1>9 DEF Next, Launch

\* No step takes a task from under the launch that prepares its loop, and none
\* takes an active task out of the map.
LEMMA FindableStep ==
  Inv /\ [Next]_vars => HeldIsSafe' /\ ActiveIsFindable'
<1> SUFFICES ASSUME Inv, [Next]_vars PROVE HeldIsSafe' /\ ActiveIsFindable'
  OBVIOUS
<1> DEFINE Goal == HeldIsSafe' /\ ActiveIsFindable'
<1> USE DEF Inv, TypeOK, HeldIsSafe, ActiveIsFindable, ActiveStatuses, launchVars, taskVars
<1>1. ASSUME NEW c \in Callers, NEW a \in Agents, CheckActive(c, a) PROVE Goal
  BY <1>1 DEF CheckActive
<1>2. ASSUME NEW c \in Callers, NEW t \in Tasks, InsertTask(c, t) PROVE Goal
  BY <1>2 DEF InsertTask, Fresh
<1>3. ASSUME NEW c \in Callers, SpawnLoop(c) PROVE Goal
  <2>1. holds[c] \in registered /\ launcher[holds[c]] = c
    BY <1>3 DEF SpawnLoop
  <2>2. \A d \in Callers : step[d] = "preparing" /\ d # c => holds[d] # holds[c]
    BY <2>1
  <2> QED
    BY <1>3, <2>1, <2>2 DEF SpawnLoop
<1>4. ASSUME NEW c \in Callers, Disconnect(c) PROVE Goal
  BY <1>4 DEF Disconnect
<1>5. ASSUME NEW t \in Tasks, LoopStep(t) PROVE Goal
  BY <1>5 DEF LoopStep, LoopPauses, LoopResumes, LoopEnds, LoopReturns
<1>6. ASSUME NEW t \in Tasks, Expire(t) PROVE Goal
  BY <1>6 DEF Expire
<1>7. CASE Sweep
  BY <1>7 DEF Sweep, Stale
<1>8. CASE Restart
  BY <1>8 DEF Restart
<1>9. CASE UNCHANGED vars
  BY <1>9 DEF vars
<1> QED
  BY <1>1, <1>2, <1>3, <1>4, <1>5, <1>6, <1>7, <1>8, <1>9 DEF Next, Launch

\* Only an insertion makes a task active that was not active before, for an
\* agent it was not active for before, or in another caller's name.
LEMMA ActiveOnlyGrowsByInsertion ==
  ASSUME TypeOK, HeldIsSafe, [Next]_vars,
         ~ \E c \in Callers, t \in Tasks : InsertTask(c, t)
  PROVE  launcher' = launcher /\ \A a : ActiveOf(a)' \subseteq ActiveOf(a)
<1> USE DEF TypeOK, ActiveOf, ActiveStatuses, launchVars, taskVars
<1> DEFINE Goal == launcher' = launcher /\ \A a : ActiveOf(a)' \subseteq ActiveOf(a)
<1>1. ASSUME NEW c \in Callers, NEW a \in Agents, CheckActive(c, a) PROVE Goal
  BY <1>1 DEF CheckActive
<1>2. ASSUME NEW c \in Callers, SpawnLoop(c) PROVE Goal
  BY <1>2 DEF SpawnLoop
<1>3. ASSUME NEW c \in Callers, Disconnect(c) PROVE Goal
  BY <1>3 DEF Disconnect
<1>4. ASSUME NEW t \in Tasks, LoopStep(t) PROVE Goal
  BY <1>4 DEF LoopStep, LoopPauses, LoopResumes, LoopEnds, LoopReturns
<1>5. ASSUME NEW t \in Tasks, Expire(t) PROVE Goal
  BY <1>5 DEF Expire
<1>6. CASE Sweep
  BY <1>6 DEF Sweep
<1>7. CASE Restart
  BY <1>7 DEF Restart
<1>8. CASE UNCHANGED vars
  BY <1>8 DEF vars
<1> QED
  BY <1>1, <1>2, <1>3, <1>4, <1>5, <1>6, <1>7, <1>8 DEF Next, Launch

\* A caller that passes the check starts with no active task of that agent, and
\* every other way into "checked" is closed.
LEMMA CheckedOnlyByChecking ==
  ASSUME TypeOK, HeldIsSafe, [Next]_vars, NEW c \in Callers, step'[c] = "checked"
  PROVE  \/ step[c] = "checked" /\ claim'[c] = claim[c]
         \/ registered' = registered /\ owner' = owner /\ status' = status
            /\ ActiveOf(claim'[c]) = {}
<1> USE DEF TypeOK, launchVars, taskVars
<1> DEFINE Goal == \/ step[c] = "checked" /\ claim'[c] = claim[c]
                   \/ registered' = registered /\ owner' = owner /\ status' = status
                      /\ ActiveOf(claim'[c]) = {}
<1>1. ASSUME NEW d \in Callers, NEW a \in Agents, CheckActive(d, a) PROVE Goal
  BY <1>1 DEF CheckActive
<1>2. ASSUME NEW d \in Callers, NEW t \in Tasks, InsertTask(d, t) PROVE Goal
  BY <1>2 DEF InsertTask
<1>3. ASSUME NEW d \in Callers, SpawnLoop(d) PROVE Goal
  BY <1>3 DEF SpawnLoop
<1>4. ASSUME NEW d \in Callers, Disconnect(d) PROVE Goal
  BY <1>4 DEF Disconnect
<1>5. ASSUME NEW t \in Tasks, LoopStep(t) PROVE Goal
  BY <1>5 DEF LoopStep, LoopPauses, LoopResumes, LoopEnds, LoopReturns
<1>6. ASSUME NEW t \in Tasks, Expire(t) PROVE Goal
  BY <1>6 DEF Expire
<1>7. CASE Sweep
  BY <1>7 DEF Sweep
<1>8. CASE Restart
  BY <1>8 DEF Restart
<1>9. CASE UNCHANGED vars
  BY <1>9 DEF vars
<1> QED
  BY <1>1, <1>2, <1>3, <1>4, <1>5, <1>6, <1>7, <1>8, <1>9 DEF Next, Launch

\* Rivals for one agent keep coming from different callers.
LEMMA RivalStep ==
  Inv /\ [Next]_vars => CheckedStillHolds' /\ RivalsRaced' /\ RegisteredWasLaunched'
<1> SUFFICES ASSUME Inv, [Next]_vars
             PROVE  CheckedStillHolds' /\ RivalsRaced' /\ RegisteredWasLaunched'
  OBVIOUS
<1>0. TypeOK /\ HeldIsSafe /\ CheckedStillHolds /\ RivalsRaced /\ RegisteredWasLaunched
  BY DEF Inv
<1>1. ASSUME NEW d \in Callers, NEW u \in Tasks, InsertTask(d, u)
      PROVE  CheckedStillHolds' /\ RivalsRaced' /\ RegisteredWasLaunched'
  <2>1. /\ step[d] = "checked" /\ step'[d] = "preparing"
        /\ u \notin registered /\ registered' = registered \cup {u}
        /\ claim' = claim
        /\ launcher'[u] = d /\ owner'[u] = claim[d]
        /\ \A c \in Callers \ {d} : step'[c] = step[c]
        /\ \A t \in Tasks \ {u} : launcher'[t] = launcher[t]
                                  /\ owner'[t] = owner[t] /\ status'[t] = status[t]
    BY <1>0, <1>1 DEF InsertTask, Fresh, TypeOK
  <2>2. \A a : ActiveOf(a)' \ {u} \subseteq ActiveOf(a)
    BY <2>1, <1>0 DEF ActiveOf, TypeOK
  <2>3. \A t \in registered : launcher'[t] = launcher[t]
    BY <2>1, <1>0 DEF TypeOK
  <2>4. \A a : ActiveOf(a) \subseteq registered
    BY DEF ActiveOf
  <2>5. CheckedStillHolds'
    <3> SUFFICES ASSUME NEW c \in Callers, step'[c] = "checked",
                        NEW t \in ActiveOf(claim[c])'
                 PROVE  launcher'[t] # c
      BY DEF CheckedStillHolds
    <3>1. step[c] = "checked" /\ c # d
      BY <2>1
    <3>2. CASE t = u
      BY <2>1, <3>1, <3>2
    <3>3. CASE t # u
      <4>1. t \in ActiveOf(claim[c])
        <5>1. PICK a : a = claim[c]
          OBVIOUS
        <5>2. t \in ActiveOf(a)'
          BY <5>1, <2>1 DEF ActiveOf
        <5> QED
          BY <5>1, <5>2, <3>3, <2>2
      <4> QED
        BY <4>1, <2>3, <2>4, <3>1, <1>0 DEF CheckedStillHolds
    <3> QED
      BY <3>2, <3>3
  <2>6. RivalsRaced'
    <3> SUFFICES ASSUME NEW a \in Agents, NEW t \in ActiveOf(a)', NEW v \in ActiveOf(a)',
                        t # v
                 PROVE  launcher'[t] # launcher'[v]
      BY DEF RivalsRaced
    <3>1. ASSUME NEW w \in ActiveOf(a)', w # u, u \in ActiveOf(a)'
          PROVE  launcher'[w] # launcher'[u]
      <4>1. a = claim[d]
        BY <3>1, <2>1 DEF ActiveOf
      <4>2. w \in ActiveOf(claim[d])
        BY <3>1, <2>2, <4>1
      <4>3. launcher[w] # d
        BY <4>2, <2>1, <1>0 DEF CheckedStillHolds
      <4> QED
        BY <4>2, <4>3, <2>1, <2>3, <2>4
    <3>2. CASE t # u /\ v # u
      BY <3>2, <2>2, <2>3, <2>4, <1>0 DEF RivalsRaced
    <3> QED
      BY <3>1, <3>2
  <2>7. RegisteredWasLaunched'
    BY <2>1, <2>3, <1>0 DEF RegisteredWasLaunched
  <2> QED
    BY <2>5, <2>6, <2>7
<1>2. CASE ~ \E d \in Callers, u \in Tasks : InsertTask(d, u)
  <2>1. launcher' = launcher /\ \A a : ActiveOf(a)' \subseteq ActiveOf(a)
    BY <1>0, <1>2, ActiveOnlyGrowsByInsertion
  <2>2. CheckedStillHolds'
    <3> SUFFICES ASSUME NEW c \in Callers, step'[c] = "checked",
                        NEW t \in ActiveOf(claim[c])'
                 PROVE  launcher'[t] # c
      BY DEF CheckedStillHolds
    <3>0. t \in ActiveOf(claim'[c])
      <4>1. PICK a : a = claim'[c]
        OBVIOUS
      <4>2. t \in ActiveOf(a)'
        BY <4>1 DEF ActiveOf
      <4> QED
        BY <4>1, <4>2, <2>1
    <3>1. CASE step[c] = "checked" /\ claim'[c] = claim[c]
      BY <3>0, <3>1, <2>1, <1>0 DEF CheckedStillHolds
    <3>2. CASE ActiveOf(claim'[c]) = {}
      BY <3>0, <3>2
    <3> QED
      BY <3>1, <3>2, <1>0, CheckedOnlyByChecking
  <2>3. RivalsRaced'
    BY <2>1, <1>0 DEF RivalsRaced
  <2>4. RegisteredWasLaunched'
    BY <1>0, <1>2, <2>1
    DEF RegisteredWasLaunched, Next, Launch, CheckActive, SpawnLoop, Disconnect, LoopStep,
        LoopPauses, LoopResumes, LoopEnds, LoopReturns, Expire, Sweep, Restart, vars,
        taskVars, launchVars
  <2> QED
    BY <2>2, <2>3, <2>4
<1> QED
  BY <1>1, <1>2

-----------------------------------------------------------------------------
\* The inductive invariant holds in every reachable state.
THEOREM Invariance == Spec => []Inv
<1>1. Inv /\ [Next]_vars => Inv'
  BY TypeStep, FindableStep, RivalStep DEF Inv
<1> QED
  BY InitInv, <1>1, PTL DEF Spec

\* The variables of the task map keep their types.
THEOREM TypeCorrect == Spec => []TypeOK
<1>1. Inv => TypeOK
  BY DEF Inv
<1> QED
  BY Invariance, <1>1, PTL

\* A running loop can be answered and cancelled through the map, whatever the
\* cleanup loop, other launches and disconnecting clients do.
THEOREM ActiveCanBeFound == Spec => []ActiveIsFindable
<1>1. Inv => ActiveIsFindable
  BY DEF Inv
<1> QED
  BY Invariance, <1>1, PTL

\* Two active tasks of one agent always come from launches that raced.
THEOREM OverbookingIsARace == Spec => []RivalsRaced
<1>1. Inv => RivalsRaced
  BY DEF Inv
<1> QED
  BY Invariance, <1>1, PTL

\* If launches are serialised, because a single caller makes them all, then
\* "Agent already has a running agentic task" is the whole truth: no agent ever
\* has two.
THEOREM SerialLaunchesNeverOverbook ==
  ASSUME NEW CONSTANT only, Callers = {only}
  PROVE  Spec => []AtMostOneActive
<1>1. Inv => AtMostOneActive
  <2> SUFFICES ASSUME Inv, NEW a \in Agents, NEW t \in ActiveOf(a), NEW u \in ActiveOf(a)
               PROVE  t = u
    BY DEF AtMostOneActive
  <2>1. launcher[t] = only /\ launcher[u] = only
    BY DEF Inv, RegisteredWasLaunched, ActiveOf
  <2> QED
    BY <2>1 DEF Inv, RivalsRaced
<1> QED
  BY Invariance, <1>1, PTL

------------------------------------------------------------------------------
(* The files.  What every step of every program of StoreHandlers respects, *)
(* then what is left of a program, then each step of FileStores.           *)

StepKinds == {"load", "peek", "create", "need", "truncate", "fill",
              "keep", "share", "recall", "migrate"}
Saved == Entries \ LegacyEntries

\* What every step of every program respects.
Steps ==
  {s \in [do : StepKinds, file : Files \cup {"accounts"}, add : SUBSET Saved, del : SUBSET Saved] :
     /\ s.file = "accounts" => s.do \in {"keep", "share"}
     /\ s.do = "share" => s.file \in {"accounts", "secrets"}
     /\ s.do = "keep" => s.file \in {"config", "accounts", "keys", "secrets"}
     /\ s.do = "create" => s.file = "config2"
     /\ s.do = "recall" => s.file = "config"
     /\ s.do = "migrate" => s.file = "keys"
     /\ s.del \cap {"agent", "openai"} = {}}

Gets(s, f) == s.do \in {"load", "create", "recall"} /\ s.file = f
Uses(s) == s.do \in {"truncate", "fill", "need", "migrate"} \/ (s.do = "keep" /\ s.file # "accounts")
Makes(s) == s.do \in {"truncate", "fill"} /\ s.file = "config2"
Rereads(s) == s.do = "load" /\ s.file = "config2"

\* A program uses a file only when it holds it or gets it first.
Supplied(t, held) ==
  \A i \in 1 .. Len(t) :
    Uses(t[i]) => t[i].file \in held \/ \E j \in 1 .. i - 1 : Gets(t[j], t[i].file)

\* Only its first step fills a file or creates one.
Late(t) == \A i \in 2 .. Len(t) : t[i].do \notin {"fill", "create"}

\* It registers a new agent, and loads the new configuration, after saving that.
Registers(t) ==
  \A i \in 1 .. Len(t) :
    "second" \in t[i].add \/ Rereads(t[i]) => \E j \in 1 .. i - 1 : Makes(t[j])

\* It saves a new configuration with the agent, or one it has loaded.
Names(t) ==
  \A i \in 1 .. Len(t) : Makes(t[i]) /\ "agent" \notin t[i].add => \E j \in 1 .. i - 1 : Rereads(t[j])

Mentions(t) == \E i \in 1 .. Len(t) : t[i].file = "config2"
Creates(t) == \E i \in 1 .. Len(t) : t[i].do = "create"
Recalls(t) == \E i \in 1 .. Len(t) : t[i].do = "recall"

Sound(t) ==
  /\ t \in Seq(Steps)
  /\ Late(t) /\ (t # << >> => t[1].do # "fill")
  /\ Supplied(t, {}) /\ Registers(t) /\ Names(t)

------------------------------------------------------------------------------
(* The programs. *)

LEMMA RequestsSound == \A t \in Requests : Sound(t) /\ ~ Recalls(t)
<1> USE DEF Load, Save, Peek, Create, Share, Need, Credentials, ExecuteStore, Sound, Steps, StepKinds,
            Saved, Entries, LegacyEntries, Files, Late, Supplied, Gets, Uses, Registers, Makes, Rereads,
            Names, Recalls
<1>1. Sound(ListAgents) /\ ~ Recalls(ListAgents)
  BY DEF ListAgents
<1>2. Sound(TierModels) /\ ~ Recalls(TierModels)
  BY DEF TierModels
<1>3. Sound(TierModelsUpdate) /\ ~ Recalls(TierModelsUpdate)
  BY DEF TierModelsUpdate
<1>4. Sound(TierModelsRefresh) /\ ~ Recalls(TierModelsRefresh)
  BY DEF TierModelsRefresh
<1>5. Sound(TierModelsValidate) /\ ~ Recalls(TierModelsValidate)
  BY DEF TierModelsValidate
<1>6. Sound(TierModelsReset) /\ ~ Recalls(TierModelsReset)
  BY DEF TierModelsReset
<1>7. Sound(SetActiveProvider) /\ ~ Recalls(SetActiveProvider)
  BY DEF SetActiveProvider
<1>8. Sound(UnsetActiveProvider) /\ ~ Recalls(UnsetActiveProvider)
  BY DEF UnsetActiveProvider
<1>9. Sound(ConnectivityProviders) /\ ~ Recalls(ConnectivityProviders)
  BY DEF ConnectivityProviders
<1>10. Sound(StoreKey("perplexity")) /\ ~ Recalls(StoreKey("perplexity"))
  BY DEF StoreKey
<1>11. Sound(StoreKey("tavily")) /\ ~ Recalls(StoreKey("tavily"))
  BY DEF StoreKey
<1>12. Sound(RemoveKey("perplexity")) /\ ~ Recalls(RemoveKey("perplexity"))
  BY DEF RemoveKey
<1>13. Sound(RegisterEmailAccount) /\ ~ Recalls(RegisterEmailAccount)
  BY DEF RegisterEmailAccount
<1>14. Sound(PersistentConstraints) /\ ~ Recalls(PersistentConstraints)
  BY DEF PersistentConstraints
<1>15. Sound(CreateJob) /\ ~ Recalls(CreateJob)
  BY DEF CreateJob
<1>16. Sound(SetMentorName) /\ ~ Recalls(SetMentorName)
  BY DEF SetMentorName
<1>17. Sound(LoadAgent) /\ ~ Recalls(LoadAgent)
  BY DEF LoadAgent
<1>18. Sound(CreateAgent) /\ ~ Recalls(CreateAgent)
  BY DEF CreateAgent
<1>19. Sound(QuickStart) /\ ~ Recalls(QuickStart)
  BY DEF QuickStart, CreateAgent
<1>20. Sound(ImportAgent) /\ ~ Recalls(ImportAgent)
  BY DEF ImportAgent
<1>21. Sound(ImportRefused) /\ ~ Recalls(ImportRefused)
  BY DEF ImportRefused
<1>22. Sound(ExportAgent) /\ ~ Recalls(ExportAgent)
  BY DEF ExportAgent
<1>23. Sound(AgentIdentity) /\ ~ Recalls(AgentIdentity)
  BY DEF AgentIdentity
<1>24. Sound(AgentConstitution) /\ ~ Recalls(AgentConstitution)
  BY DEF AgentConstitution
<1>25. Sound(AgentVerify) /\ ~ Recalls(AgentVerify)
  BY DEF AgentVerify
<1>26. Sound(ChatStoresKey("perplexity")) /\ ~ Recalls(ChatStoresKey("perplexity"))
  BY DEF ChatStoresKey
<1>27. Sound(ChatStoresSecret) /\ ~ Recalls(ChatStoresSecret)
  BY DEF ChatStoresSecret
<1>28. Sound(SaveDiscovered) /\ ~ Recalls(SaveDiscovered)
  BY DEF SaveDiscovered
<1>29. Sound(ConnectivityChat("perplexity")) /\ ~ Recalls(ConnectivityChat("perplexity"))
  BY DEF ConnectivityChat
<1> HIDE DEF Sound, Recalls
<1> QED
  BY <1>1, <1>2, <1>3, <1>4, <1>5, <1>6, <1>7, <1>8, <1>9, <1>10, <1>11, <1>12, <1>13, <1>14, <1>15,
     <1>16, <1>17, <1>18, <1>19, <1>20, <1>21, <1>22, <1>23, <1>24, <1>25, <1>26, <1>27, <1>28, <1>29 DEF Requests

LEMMA OwnProgramsSound ==
  /\ \A t \in RunTurns : Sound(t) /\ ~ Mentions(t)
  /\ \A t \in {LaunchProgram, Boot, Shared, << >>} : Sound(t) /\ ~ Mentions(t) /\ ~ Recalls(t)
<1> USE DEF Load, Save, Keep, Recall, Migrate, Share, ExecuteStore, Sound, Steps, StepKinds,
            Saved, Entries, LegacyEntries, Files, Late, Supplied, Gets, Uses, Registers, Makes, Rereads,
            Names, Mentions, Recalls
<1>1. Sound(RunStoresKey("perplexity")) /\ ~ Mentions(RunStoresKey("perplexity"))
  BY DEF RunStoresKey
<1>2. Sound(RunStoresSecret) /\ ~ Mentions(RunStoresSecret)
  BY DEF RunStoresSecret
<1>3. Sound(RunRegistersMcp) /\ ~ Mentions(RunRegistersMcp)
  BY DEF RunRegistersMcp
<1>4. Sound(LaunchProgram) /\ ~ Mentions(LaunchProgram) /\ ~ Recalls(LaunchProgram)
  BY DEF LaunchProgram
<1>5. Sound(Shared) /\ ~ Mentions(Shared) /\ ~ Recalls(Shared)
  BY DEF Shared
<1>6. Sound(Boot) /\ ~ Mentions(Boot) /\ ~ Recalls(Boot)
  BY DEF Boot, Shared
<1>7. Sound(RegisterEmailAccount) /\ ~ Mentions(RegisterEmailAccount)
  BY DEF RegisterEmailAccount
<1>8. Sound(SaveDiscovered) /\ ~ Mentions(SaveDiscovered)
  BY DEF SaveDiscovered
<1>9. Sound(<< >>) /\ ~ Mentions(<< >>) /\ ~ Recalls(<< >>)
  OBVIOUS
<1> HIDE DEF Sound, Mentions, Recalls
<1> QED BY <1>1, <1>2, <1>3, <1>4, <1>5, <1>6, <1>7, <1>8, <1>9 DEF RunTurns

------------------------------------------------------------------------------
(* What is left of a program. *)

LEMMA TailKeeps ==
  ASSUME NEW t \in Seq(Steps), t # << >>, Late(t)
  PROVE  LET u == Tail(t)
         IN  /\ u \in Seq(Steps)
             /\ Late(u)
             /\ u # << >> => Head(u).do \notin {"fill", "create"}
             /\ \A held, now :
                  /\ Supplied(t, held)
                  /\ \A g \in Files : g \in held \/ Gets(Head(t), g) => g \in now
                  => Supplied(u, now)
             /\ Registers(t) /\ ~ Makes(Head(t)) => Registers(u)
             /\ Names(t) /\ ~ Rereads(Head(t)) => Names(u)
             /\ Mentions(u) => Mentions(t)
             /\ ~ Creates(u)
             /\ Recalls(u) => Recalls(t)
<1> DEFINE u == Tail(t)
<1>1. /\ u \in Seq(Steps) /\ Len(t) \in Nat \ {0} /\ Len(u) = Len(t) - 1
      /\ \A i \in 1 .. Len(u) : i + 1 \in 2 .. Len(t) /\ u[i] = t[i + 1]
      /\ Head(t) = t[1]
  OBVIOUS
<1>2. u # << >> => 1 \in 1 .. Len(u) /\ Head(u) = u[1]
  BY <1>1
<1>3. \A i \in 1 .. Len(t) : t[i] \in Steps
  OBVIOUS
<1>4. \A i \in 2 .. Len(t) : i - 1 \in 1 .. Len(u) /\ u[i - 1] = t[i]
  BY <1>1
<1> HIDE DEF u
<1>5. \A i \in 1 .. Len(u) : u[i].do \notin {"fill", "create"}
  BY <1>1 DEF Late
<1>6. Late(u) /\ ~ Creates(u) /\ (u # << >> => Head(u).do \notin {"fill", "create"})
  BY <1>1, <1>2, <1>5 DEF Late, Creates
<1>7. ASSUME NEW held, NEW now, Supplied(t, held),
             \A g \in Files : g \in held \/ Gets(Head(t), g) => g \in now
      PROVE  Supplied(u, now)
  <2> SUFFICES ASSUME NEW i \in 1 .. Len(u), Uses(u[i]), u[i].file \notin now
               PROVE  \E j \in 1 .. i - 1 : Gets(u[j], u[i].file)
    BY DEF Supplied
  <2>1. i + 1 \in 1 .. Len(t) /\ t[i + 1] = u[i] /\ u[i] \in Steps
    BY <1>1
  <2>2. u[i].file \in Files
    BY <2>1 DEF Uses, Steps
  <2>3. PICK j \in 1 .. i : Gets(t[j], u[i].file)
    BY <1>7, <2>1, <2>2 DEF Supplied
  <2>4. j # 1
    BY <1>1, <1>7, <2>2, <2>3
  <2>5. j - 1 \in 1 .. i - 1 /\ u[j - 1] = t[j]
    BY <1>1, <2>4
  <2> QED BY <2>3, <2>5
<1>8. Registers(t) /\ ~ Makes(Head(t)) => Registers(u)
  <2> SUFFICES ASSUME Registers(t), ~ Makes(t[1]), NEW i \in 1 .. Len(u), "second" \in u[i].add \/ Rereads(u[i])
               PROVE  \E j \in 1 .. i - 1 : Makes(u[j])
    BY <1>1 DEF Registers
  <2>1. i + 1 \in 1 .. Len(t) /\ t[i + 1] = u[i]
    BY <1>1
  <2>2. PICK j \in 1 .. i : Makes(t[j])
    BY <2>1 DEF Registers
  <2>3. j - 1 \in 1 .. i - 1 /\ u[j - 1] = t[j]
    BY <1>1, <2>2
  <2> QED BY <2>2, <2>3
<1>9. Names(t) /\ ~ Rereads(Head(t)) => Names(u)
  <2> SUFFICES ASSUME Names(t), ~ Rereads(t[1]), NEW i \in 1 .. Len(u), Makes(u[i]), "agent" \notin u[i].add
               PROVE  \E j \in 1 .. i - 1 : Rereads(u[j])
    BY <1>1 DEF Names
  <2>1. i + 1 \in 1 .. Len(t) /\ t[i + 1] = u[i]
    BY <1>1
  <2>2. PICK j \in 1 .. i : Rereads(t[j])
    BY <2>1 DEF Names
  <2>3. j # 1
    BY <2>2
  <2>4. i \in Nat /\ i <= Len(u)
    BY <1>1
  <2>5. j - 1 \in 1 .. i - 1 /\ u[j - 1] = t[j]
    BY <1>1, <2>3, <2>4
  <2> QED BY <2>2, <2>5
<1>10. (Mentions(u) => Mentions(t)) /\ (Recalls(u) => Recalls(t))
  BY <1>1 DEF Mentions, Recalls
<1> QED BY <1>1, <1>6, <1>7, <1>8, <1>9, <1>10 DEF u

\* A save put in front of what is left.
LEMMA PutKeeps ==
  ASSUME NEW u \in Seq(Steps), Late(u), u # << >> => Head(u).do \notin {"fill", "create"},
         NEW s \in Steps, s.do = "truncate", s.file # "config2", "second" \notin s.add
  PROVE  LET t == <<s>> \o u
         IN  /\ t \in Seq(Steps) /\ t # << >> /\ Head(t) = s
             /\ Late(t)
             /\ \A now : Supplied(u, now) /\ s.file \in now => Supplied(t, now)
             /\ Registers(u) => Registers(t)
             /\ Names(u) => Names(t)
             /\ Mentions(t) => Mentions(u)
             /\ ~ Creates(t)
             /\ Recalls(t) => Recalls(u)
<1> DEFINE t == <<s>> \o u
<1>1. /\ t \in Seq(Steps) /\ t # << >> /\ Head(t) = s /\ Len(t) = Len(u) + 1 /\ Len(u) \in Nat /\ t[1] = s
      /\ \A i \in 2 .. Len(t) : i - 1 \in 1 .. Len(u) /\ t[i] = u[i - 1]
      /\ \A i \in 1 .. Len(u) : i + 1 \in 2 .. Len(t) /\ t[i + 1] = u[i]
  OBVIOUS
<1>2. \A i \in 1 .. Len(u) : u[i].do \notin {"fill", "create"}
  BY DEF Late
<1>3. ~ Rereads(s) /\ ~ Makes(s) /\ \A f : ~ Gets(s, f)
  BY DEF Rereads, Makes, Gets
<1> HIDE DEF t
<1>4. Late(t) /\ ~ Creates(t)
  <2>1. \A i \in 2 .. Len(t) : t[i].do \notin {"fill", "create"}
    BY <1>1, <1>2
  <2>2. \A i \in 1 .. Len(t) : i = 1 \/ i \in 2 .. Len(t)
    BY <1>1
  <2> QED BY <1>1, <2>1, <2>2 DEF Late, Creates
<1>5. ASSUME NEW now, Supplied(u, now), s.file \in now
      PROVE  Supplied(t, now)
  <2> SUFFICES ASSUME NEW i \in 1 .. Len(t), Uses(t[i]), t[i].file \notin now
               PROVE  \E j \in 1 .. i - 1 : Gets(t[j], t[i].file)
    BY DEF Supplied
  <2>1. i - 1 \in 1 .. Len(u) /\ t[i] = u[i - 1]
    BY <1>1, <1>5
  <2>2. PICK j \in 1 .. i - 2 : Gets(u[j], u[i - 1].file)
    BY <1>5, <2>1 DEF Supplied
  <2>3. j + 1 \in 1 .. i - 1 /\ t[j + 1] = u[j]
    BY <1>1, <2>1, <2>2
  <2> QED BY <2>1, <2>2, <2>3
<1>6. Registers(u) => Registers(t)
  <2> SUFFICES ASSUME Registers(u), NEW i \in 1 .. Len(t), "second" \in t[i].add \/ Rereads(t[i])
               PROVE  \E j \in 1 .. i - 1 : Makes(t[j])
    BY DEF Registers
  <2>1. i - 1 \in 1 .. Len(u) /\ t[i] = u[i - 1]
    BY <1>1, <1>3
  <2>2. PICK j \in 1 .. i - 2 : Makes(u[j])
    BY <2>1 DEF Registers
  <2>3. j + 1 \in 1 .. i - 1 /\ t[j + 1] = u[j]
    BY <1>1, <2>1, <2>2
  <2> QED BY <2>2, <2>3
<1>7. Names(u) => Names(t)
  <2> SUFFICES ASSUME Names(u), NEW i \in 1 .. Len(t), Makes(t[i]), "agent" \notin t[i].add
               PROVE  \E j \in 1 .. i - 1 : Rereads(t[j])
    BY DEF Names
  <2>1. i - 1 \in 1 .. Len(u) /\ t[i] = u[i - 1]
    BY <1>1, <1>3
  <2>2. PICK j \in 1 .. i - 2 : Rereads(u[j])
    BY <2>1 DEF Names
  <2>3. j + 1 \in 1 .. i - 1 /\ t[j + 1] = u[j]
    BY <1>1, <2>1, <2>2
  <2> QED BY <2>2, <2>3
<1>8. Mentions(t) => Mentions(u)
  BY <1>1 DEF Mentions
<1>9. Recalls(t) => Recalls(u)
  BY <1>1 DEF Recalls
<1> QED BY <1>1, <1>4, <1>5, <1>6, <1>7, <1>8, <1>9 DEF t

\* The second half of a write takes the place of the first.
LEMMA FillFollows ==
  ASSUME NEW t \in Seq(Steps), t # << >>, Head(t).do = "truncate", Late(t)
  PROVE  LET u == [t EXCEPT ![1].do = "fill"]
         IN  /\ u \in Seq(Steps) /\ u # << >> /\ Late(u)
             /\ Head(u).do = "fill" /\ Head(u).file = Head(t).file
             /\ Head(u).add = Head(t).add /\ Head(u).del = Head(t).del
             /\ \A now : Supplied(t, now) => Supplied(u, now)
             /\ Registers(t) => Registers(u)
             /\ Names(t) => Names(u)
             /\ Mentions(u) => Mentions(t)
             /\ ~ Creates(u)
             /\ Recalls(u) => Recalls(t)
<1> DEFINE u == [t EXCEPT ![1].do = "fill"]
           s == [t[1] EXCEPT !.do = "fill"]
<1>1. Head(t) = t[1] /\ t[1] \in Steps /\ Len(t) \in Nat \ {0}
  OBVIOUS
<1>2. /\ s \in Steps /\ s.do = "fill" /\ s.file = t[1].file /\ s.add = t[1].add /\ s.del = t[1].del
  BY <1>1 DEF Steps, StepKinds
<1>3. u = [t EXCEPT ![1] = s]
  OBVIOUS
<1> HIDE DEF s
<1>4. /\ u \in Seq(Steps) /\ Len(u) = Len(t) /\ u[1] = s
      /\ \A i \in 2 .. Len(t) : u[i] = t[i]
      /\ Head(u) = s /\ u # << >>
  BY <1>1, <1>2, <1>3
<1> HIDE DEF u
<1>5. /\ \A i \in 1 .. Len(t) : u[i].file = t[i].file /\ u[i].add = t[i].add
      /\ \A i \in 1 .. Len(t) : Makes(u[i]) <=> Makes(t[i])
      /\ \A i \in 1 .. Len(t) : Rereads(u[i]) <=> Rereads(t[i])
      /\ \A i \in 1 .. Len(t) : Uses(u[i]) <=> Uses(t[i])
      /\ \A i \in 1 .. Len(t) : \A f : Gets(u[i], f) <=> Gets(t[i], f)
  BY <1>1, <1>2, <1>4 DEF Makes, Rereads, Uses, Gets
<1>6. Late(u) /\ ~ Creates(u)
  BY <1>1, <1>2, <1>4 DEF Late, Creates
<1>7. \A now : Supplied(t, now) => Supplied(u, now)
  BY <1>4, <1>5 DEF Supplied
<1>8. Registers(t) => Registers(u)
  BY <1>4, <1>5 DEF Registers
<1>9. Names(t) => Names(u)
  BY <1>4, <1>5 DEF Names
<1>10. (Mentions(u) => Mentions(t)) /\ (Recalls(u) => Recalls(t))
  BY <1>1, <1>2, <1>4, <1>5 DEF Mentions, Recalls
<1> QED BY <1>1, <1>2, <1>4, <1>6, <1>7, <1>8, <1>9, <1>10 DEF u

------------------------------------------------------------------------------
(* The inductive invariant. *)

Contents(f) == (IF f = "config" THEN SUBSET Entries ELSE SUBSET Saved) \cup {Torn}
Held(p) == {f \in Files : copy[p][f] # Torn}
Filling(p, f) == Doing(p, "fill") /\ Step(p).file = f

StoresTyped ==
  /\ setup \in [active : BOOLEAN, legacy : BOOLEAN, born : BOOLEAN]
  /\ disk \in [Files -> (SUBSET Entries) \cup {Torn}] /\ \A f \in Files : disk[f] \in Contents(f)
  /\ todo \in [Procs -> Seq(Steps)]
  /\ copy \in [Procs -> [Files -> (SUBSET Entries) \cup {Torn}]]
  /\ \A p \in Procs : \A f \in Files : copy[p][f] \in Contents(f)
  /\ DOMAIN mem = {"keys", "secrets", "accounts", "config"} /\ mem.config \in Contents("config")
  /\ budget \in [requests : Nat, crashes : Nat] /\ budget.crashes <= MaxCrashes
  /\ acked \in [Files -> SUBSET Saved]
  /\ missed \in [Holders -> [Files -> SUBSET Entries]]
  /\ risked \in [Files -> SUBSET Entries]

\* Every process is somewhere in a sound program, and holds the files it uses.
Programmed ==
  \A p \in Procs :
    /\ Late(todo[p]) /\ Supplied(todo[p], Held(p))
    /\ Recalls(todo[p]) => mem.config # Torn

\* What a file would be if the writes on their way came one by one.
Target(p, f) == IF Filling(p, f) THEN (acked[f] \cup Step(p).add) \ Step(p).del ELSE acked[f]

\* What a process holds differs from that only in what it has missed.
CopiesAreOld ==
  \A p \in Procs : \A f \in Files :
    copy[p][f] # Torn =>
      Between(copy[p][f] \ LegacyEntries, Target(p, f)) \subseteq missed[p][f] \cup risked[f]

\* So does the configuration of the run's launch.
ServerIsOld ==
  mem.config # Torn =>
    Between(mem.config \ LegacyEntries, acked["config"])
      \subseteq missed["launched"]["config"] \cup risked["config"]

AgentKept ==
  /\ "agent" \in disk["config"] \/ disk["config"] = Torn
  /\ "agent" \in mem.config \/ mem.config = Torn
  /\ \A p \in Procs : "agent" \in copy[p]["config"] \/ copy[p]["config"] = Torn

NewNamed == "agent" \in disk["config2"] \/ disk["config2"] = Torn

\* Nobody knows the new agent before it has its configuration.
RegisteredLast ==
  /\ "second" \in disk["global"] => NewNamed
  /\ \A p \in Procs :
       /\ "second" \in copy[p]["global"] => NewNamed
       /\ NewNamed \/ Registers(todo[p])
       /\ Names(todo[p]) \/ ("agent" \in copy[p]["config2"] /\ ~ Doing(p, "create"))
       /\ Filling(p, "config2") => "agent" \in copy[p]["config2"]

\* At most one process creates the new agent, and the first to do so finds nothing.
OneCreator ==
  \A p \in Procs :
    /\ Creates(todo[p]) => disk["config2"] = {}
    /\ Mentions(todo[p]) => p \in Handlers /\ \A q \in Procs \ {p} : ~ Mentions(todo[q])

Is(s, what, f) == s.do = what /\ s.file = f
Writing(s, f) == s.do \in {"truncate", "fill"} /\ s.file = f

\* Until the key is in the keyring nobody but the start of the server runs, and it is
\* on its way to put it there.
Starting ==
  /\ \A p \in Procs \ {"boot"} : todo[p] = << >>
  /\ LET t == todo["boot"]
         own == copy["boot"]
     IN \/ /\ Len(t) > 2 /\ Is(t[1], "load", "config") /\ Is(t[2], "load", "keys")
           /\ Is(t[3], "migrate", "keys")
           /\ {"old", "legacy"} \subseteq disk["config"] /\ disk["keys"] = {}
        \/ /\ Len(t) > 2 /\ Writing(t[1], "config") /\ Is(t[2], "load", "keys")
           /\ Is(t[3], "migrate", "keys") /\ t[1].del = {}
           /\ "legacy" \in own["config"] /\ disk["keys"] = {}
        \/ /\ Len(t) > 1 /\ Is(t[1], "load", "keys") /\ Is(t[2], "migrate", "keys")
           /\ "legacy" \in own["config"] /\ disk["keys"] = {}
        \/ /\ Len(t) > 0 /\ Is(t[1], "migrate", "keys")
           /\ "legacy" \in own["config"] /\ "openai" \notin own["keys"]
        \/ /\ Len(t) > 0 /\ Writing(t[1], "keys") /\ "openai" \in t[1].add

KeyOnItsWay ==
  setup.active /\ setup.legacy /\ budget.crashes = MaxCrashes =>
    "openai" \in acked["keys"] \/ Starting

StoresInv ==
  /\ StoresTyped /\ Programmed /\ LostOnlyIfOverlapped /\ CopiesAreOld /\ ServerIsOld
  /\ AgentKept /\ RegisteredLast /\ OneCreator /\ KeyOnItsWay

------------------------------------------------------------------------------
(* A process goes on. *)

\* u is what may be left of t once its first step is done or given up.
Follows(t, u) ==
  /\ u \in Seq(Steps) /\ Late(u)
  /\ u # << >> => Head(u).do \notin {"fill", "create"}
  /\ Registers(t) /\ ~ Makes(Head(t)) => Registers(u)
  /\ Names(t) /\ ~ Rereads(Head(t)) => Names(u)
  /\ Mentions(u) => Mentions(t)
  /\ ~ Creates(u)
  /\ Recalls(u) => Recalls(t)

\* Whatever t may use before its first step, u may use after it.
Passes(t, u) ==
  \A held, now :
    /\ Supplied(t, held)
    /\ \A g \in Files : g \in held \/ Gets(Head(t), g) => g \in now
    => Supplied(u, now)

LEMMA HeadIsAStep ==
  ASSUME NEW t \in Seq(Steps), t # << >>
  PROVE  /\ Head(t) = t[1] /\ t[1] \in Steps /\ Len(t) \in Nat \ {0} /\ 1 \in 1 .. Len(t)
         /\ t[1].file \in Files \cup {"accounts"} /\ t[1].add \subseteq Saved /\ t[1].del \subseteq Saved
         /\ t[1].file = "accounts" => t[1].do \in {"keep", "share"}
BY DEF Steps

LEMMA TailFollows ==
  ASSUME NEW t \in Seq(Steps), t # << >>, Late(t)
  PROVE  Follows(t, Tail(t)) /\ Passes(t, Tail(t))
BY TailKeeps DEF Follows, Passes

LEMMA StopFollows ==
  ASSUME NEW t \in Seq(Steps)
  PROVE  /\ Follows(t, << >>) /\ Passes(t, << >>)
         /\ Follows(t, Shared) /\ Passes(t, Shared)
<1>1. /\ Sound(<< >>) /\ ~ Mentions(<< >>) /\ ~ Recalls(<< >>)
      /\ Sound(Shared) /\ ~ Mentions(Shared) /\ ~ Recalls(Shared)
  BY OwnProgramsSound
<1>2. ~ Creates(<< >>)
  BY DEF Creates
<1>3. ~ Creates(Shared) /\ (Shared # << >> => Head(Shared).do \notin {"fill", "create"})
  BY DEF Shared, Creates, Load, Keep
<1>4. \A v, held : Supplied(v, {}) => Supplied(v, held)
  BY DEF Supplied
<1> HIDE DEF Shared
<1> QED BY <1>1, <1>2, <1>3, <1>4 DEF Sound, Follows, Passes

\* v is u with a save of f before it.
Puts(v, u, f, a) ==
  /\ v # << >> /\ Len(v) = Len(u) + 1 /\ \A i \in 1 .. Len(u) : v[i + 1] = u[i]
  /\ Writing(v[1], f) /\ v[1].add = a /\ v[1].del = {}

LEMMA PutFollows ==
  ASSUME NEW t, NEW u \in Seq(Steps), Follows(t, u), NEW f \in Files \ {"config2"}, NEW a \in SUBSET Saved,
         "second" \notin a
  PROVE  /\ Follows(t, Save(f, a, {}) \o u)
         /\ \A now : Supplied(u, now) /\ f \in now => Supplied(Save(f, a, {}) \o u, now)
         /\ Puts(Save(f, a, {}) \o u, u, f, a)
<1> DEFINE s == [do |-> "truncate", file |-> f, add |-> a, del |-> {}]
<1>1. s \in Steps /\ s.do = "truncate" /\ s.file # "config2" /\ s.file = f /\ s.add = a /\ s.del = {}
  BY DEF Steps, StepKinds, Files
<1>2. Save(f, a, {}) = <<s>>
  BY DEF Save
<1> HIDE DEF s
<1>3. Late(u) /\ (u # << >> => Head(u).do \notin {"fill", "create"})
  BY DEF Follows
<1>4. LET v == <<s>> \o u
      IN  /\ v \in Seq(Steps) /\ v # << >> /\ Head(v) = s /\ v[1] = s
          /\ Len(v) = Len(u) + 1 /\ \A i \in 1 .. Len(u) : v[i + 1] = u[i]
  <2> SUFFICES ASSUME NEW x, x \in Steps
               PROVE  LET v == <<x>> \o u
                      IN  /\ v \in Seq(Steps) /\ v # << >> /\ Head(v) = x /\ v[1] = x
                          /\ Len(v) = Len(u) + 1 /\ \A i \in 1 .. Len(u) : v[i + 1] = u[i]
    BY <1>1
  <2> QED OBVIOUS
<1>5. LET v == <<s>> \o u
      IN  /\ Late(v) /\ (Registers(u) => Registers(v)) /\ (Names(u) => Names(v))
          /\ (Mentions(v) => Mentions(u)) /\ ~ Creates(v) /\ (Recalls(v) => Recalls(u))
          /\ \A now : Supplied(u, now) /\ s.file \in now => Supplied(v, now)
  BY <1>1, <1>3, PutKeeps
<1> QED BY <1>1, <1>2, <1>4, <1>5 DEF Follows, Puts, Writing

\* What process p holds of f after its step is fresh from the disk or as new.
FreshIn(p, f) ==
  /\ copy'[p][f] \in Contents(f)
  /\ Between(copy'[p][f] \ LegacyEntries, acked[f]) \subseteq missed'[p][f] \cup risked[f]
  /\ f = "config" => "agent" \in copy'[p][f]
  /\ f = "global" /\ "second" \in copy'[p][f] => NewNamed

\* Process p takes a step that writes no file.
Goes(p) ==
  /\ UNCHANGED <<setup, disk, over, budget, acked, risked>>
  /\ todo[p] # << >> /\ Head(todo[p]).do \notin {"truncate", "fill"}
  /\ Follows(todo[p], todo'[p]) /\ todo' = [todo EXCEPT ![p] = todo'[p]]
  /\ Supplied(todo'[p], Held(p)')
  /\ copy' \in [Procs -> [Files -> (SUBSET Entries) \cup {Torn}]]
  /\ missed' \in [Holders -> [Files -> SUBSET Entries]]
  /\ \A q \in Procs \ {p} : copy'[q] = copy[q] /\ missed'[q] = missed[q]
  /\ \A f \in Files :
       \/ copy'[p][f] = Torn
       \/ copy'[p][f] = copy[p][f] /\ missed'[p][f] = missed[p][f]
       \/ FreshIn(p, f)
  /\ Names(todo'[p]) \/ "agent" \in copy'[p]["config2"]

LEMMA GoesDo ==
  ASSUME StoresTyped, NEW p \in Procs, Goes(p)
  PROVE  /\ todo' \in [Procs -> Seq(Steps)]
         /\ \A q \in Procs \ {p} : todo'[q] = todo[q]
         /\ \A q \in Procs \ {p} : \A f : Filling(q, f)' <=> Filling(q, f)
         /\ \A q \in Procs \ {p} : \A what : Doing(q, what)' <=> Doing(q, what)
         /\ \A q \in Procs \ {p} : \A f \in Files : Target(q, f)' = Target(q, f)
         /\ \A f : ~ Filling(p, f) /\ ~ Filling(p, f)'
         /\ ~ Doing(p, "create")'
         /\ \A f : Target(p, f) = acked[f] /\ Target(p, f)' = acked[f]
<1>1. todo' \in [Procs -> Seq(Steps)] /\ \A q \in Procs \ {p} : todo'[q] = todo[q]
  BY DEF Goes, StoresTyped, Follows
<1>2. ~ Doing(p, "create")' /\ ~ Doing(p, "fill")' /\ ~ Doing(p, "fill")
  BY DEF Goes, Follows, Doing
<1>3. acked' = acked
  BY DEF Goes
<1> QED BY <1>1, <1>2, <1>3 DEF Filling, Doing, Step, Target

LEMMA GoesTyped ==
  ASSUME StoresTyped, NEW p \in Procs, Goes(p),
         DOMAIN mem' = {"keys", "secrets", "accounts", "config"}, mem'.config \in Contents("config")
  PROVE  StoresTyped'
<1>1. \A q \in Procs : \A f \in Files : copy'[q][f] \in Contents(f)
  <2>1. SUFFICES ASSUME NEW f \in Files PROVE copy'[p][f] \in Contents(f)
    BY DEF Goes, StoresTyped
  <2>2. Torn \in Contents(f)
    BY DEF Contents
  <2> QED BY <2>2 DEF Goes, StoresTyped, FreshIn
<1>2. todo' \in [Procs -> Seq(Steps)]
  BY GoesDo
<1> QED BY <1>1, <1>2 DEF StoresTyped, Goes, Contents

LEMMA GoesProgrammed ==
  ASSUME StoresTyped, Programmed, NEW p \in Procs, Goes(p), mem.config # Torn => mem'.config # Torn
  PROVE  Programmed'
<1>1. \A q \in Procs \ {p} : todo'[q] = todo[q] /\ Held(q)' = Held(q)
  BY GoesDo DEF Goes, Held
<1>2. Late(todo'[p]) /\ Supplied(todo'[p], Held(p)') /\ (Recalls(todo'[p]) => Recalls(todo[p]))
  BY DEF Goes, Follows
<1> QED BY <1>1, <1>2 DEF Programmed

LEMMA GoesLoses ==
  ASSUME StoresTyped, LostOnlyIfOverlapped, CopiesAreOld, NEW p \in Procs, Goes(p)
  PROVE  LostOnlyIfOverlapped' /\ CopiesAreOld'
<1>1. LostOnlyIfOverlapped'
  BY DEF LostOnlyIfOverlapped, Goes
<1>2. ASSUME NEW q \in Procs \ {p}, NEW f \in Files, copy'[q][f] # Torn
      PROVE  Between(copy'[q][f] \ LegacyEntries, Target(q, f)') \subseteq missed'[q][f] \cup risked'[f]
  <2>1. copy'[q] = copy[q] /\ missed'[q] = missed[q] /\ risked' = risked /\ Target(q, f)' = Target(q, f)
    BY GoesDo DEF Goes
  <2> QED BY <1>2, <2>1 DEF CopiesAreOld
<1>3. ASSUME NEW f \in Files, copy'[p][f] # Torn
      PROVE  Between(copy'[p][f] \ LegacyEntries, Target(p, f)') \subseteq missed'[p][f] \cup risked'[f]
  <2>1. Target(p, f)' = acked[f] /\ Target(p, f) = acked[f] /\ risked' = risked
    BY GoesDo DEF Goes
  <2>2. CASE copy'[p][f] = copy[p][f] /\ missed'[p][f] = missed[p][f]
    BY <1>3, <2>1, <2>2 DEF CopiesAreOld
  <2>3. CASE FreshIn(p, f)
    BY <2>1, <2>3 DEF FreshIn
  <2> QED BY <1>3, <2>2, <2>3 DEF Goes
<1> QED BY <1>1, <1>2, <1>3 DEF CopiesAreOld

LEMMA GoesNames ==
  ASSUME StoresTyped, AgentKept, RegisteredLast, OneCreator, NEW p \in Procs, Goes(p),
         "agent" \in mem'.config \/ mem'.config = Torn
  PROVE  AgentKept' /\ RegisteredLast' /\ OneCreator'
<1>1. AgentKept'
  <2>1. "agent" \in copy'[p]["config"] \/ copy'[p]["config"] = Torn
    BY DEF AgentKept, Goes, FreshIn, Files
  <2> QED BY <2>1 DEF AgentKept, Goes
<1>2. NewNamed' <=> NewNamed
  BY DEF NewNamed, Goes
<1>3. RegisteredLast'
  <2>1. ASSUME NEW q \in Procs \ {p}
        PROVE  /\ "second" \in copy'[q]["global"] => NewNamed'
               /\ NewNamed' \/ Registers(todo'[q])
               /\ Names(todo'[q]) \/ ("agent" \in copy'[q]["config2"] /\ ~ Doing(q, "create")')
               /\ Filling(q, "config2")' => "agent" \in copy'[q]["config2"]
    <3>1. todo'[q] = todo[q] /\ copy'[q] = copy[q]
      BY GoesDo DEF Goes
    <3>2. (Doing(q, "create")' <=> Doing(q, "create")) /\ (Filling(q, "config2")' <=> Filling(q, "config2"))
      BY GoesDo
    <3> QED BY <1>2, <3>1, <3>2 DEF RegisteredLast
  <2>2. "second" \in copy'[p]["global"] => NewNamed'
    <3>1. "second" \notin Torn /\ "global" \in Files
      BY DEF Torn, Files
    <3> QED BY <1>2, <3>1 DEF RegisteredLast, Goes, FreshIn
  <2>3. NewNamed' \/ Registers(todo'[p])
    <3>1. CASE Makes(Head(todo[p]))
      BY <3>1 DEF Makes, Goes
    <3> QED BY <1>2, <3>1 DEF RegisteredLast, Goes, Follows
  <2>4. Names(todo'[p]) \/ ("agent" \in copy'[p]["config2"] /\ ~ Doing(p, "create")')
    BY GoesDo DEF Goes
  <2>5. ~ Filling(p, "config2")'
    BY GoesDo
  <2>6. "second" \in disk'["global"] => NewNamed'
    BY <1>2 DEF RegisteredLast, Goes
  <2> QED BY <2>1, <2>2, <2>3, <2>4, <2>5, <2>6 DEF RegisteredLast
<1>4. OneCreator'
  <2>1. \A q \in Procs : Mentions(todo'[q]) => Mentions(todo[q])
    BY GoesDo DEF Goes, Follows
  <2>2. \A q \in Procs : Creates(todo'[q]) => Creates(todo[q])
    BY GoesDo DEF Goes, Follows
  <2>3. disk' = disk
    BY DEF Goes
  <2> QED BY <2>1, <2>2, <2>3 DEF OneCreator
<1> QED BY <1>1, <1>3, <1>4

LEMMA GoesServed ==
  ASSUME StoresTyped, ServerIsOld, NEW p \in Procs, Goes(p),
         \/ mem'.config = mem.config /\ missed'["launched"] = missed["launched"]
         \/ Between(mem'.config \ LegacyEntries, acked["config"])
              \subseteq missed'["launched"]["config"] \cup risked["config"]
  PROVE  ServerIsOld'
<1>1. acked' = acked /\ risked' = risked
  BY DEF Goes
<1> QED BY <1>1 DEF ServerIsOld

------------------------------------------------------------------------------
(* The steps that write no file. *)

LEMMA StopSound ==
  /\ Names(<< >>) /\ \A held : Supplied(<< >>, held)
  /\ Names(Shared) /\ \A held : Supplied(Shared, held)
BY OwnProgramsSound DEF Sound, Supplied

LEMMA HoldsDo ==
  ASSUME StoresTyped, NEW p \in Procs,
         NEW c \in [Procs -> [Files -> (SUBSET Entries) \cup {Torn}]],
         NEW m \in [Holders -> [Files -> SUBSET Entries]],
         \A q \in Procs \ {p} : c[q] = copy[q] /\ m[q] = missed[q],
         Holds(p, c, m)
  PROVE  /\ copy' \in [Procs -> [Files -> (SUBSET Entries) \cup {Torn}]]
         /\ missed' \in [Holders -> [Files -> SUBSET Entries]]
         /\ \A q \in Procs \ {p} : copy'[q] = copy[q] /\ missed'[q] = missed[q]
         /\ todo'[p] = << >> => copy'[p] = Nothing
         /\ todo'[p] # << >> => copy'[p] = c[p] /\ missed'[p] = m[p]
         /\ \A h \in Holders \ Procs : missed'[h] = m[h]
<1>1. Nothing \in [Files -> (SUBSET Entries) \cup {Torn}] /\ Clean \in [Files -> SUBSET Entries]
  <2>1. Torn \in (SUBSET Entries) \cup {Torn} /\ {} \in SUBSET Entries
    OBVIOUS
  <2> QED BY <2>1 DEF Nothing, Clean
<1>2. p \in Holders
  BY DEF Holders
<1>3. /\ copy' = [c EXCEPT ![p] = IF todo'[p] = << >> THEN Nothing ELSE c[p]]
      /\ missed' = [m EXCEPT ![p] = IF todo'[p] = << >> THEN Clean ELSE m[p]]
  BY DEF Holds
<1>4. \A q \in Procs : q \in Holders
  BY DEF Holders
<1> QED BY <1>1, <1>2, <1>3, <1>4

\* Were c and m what the processes hold and have missed, f in hands of p would be as it is, or fresh.
Sees(p, c, m, f) ==
  \/ c[p][f] = Torn
  \/ c[p][f] = copy[p][f] /\ m[p][f] = missed[p][f]
  \/ /\ c[p][f] \in Contents(f)
     /\ Between(c[p][f] \ LegacyEntries, acked[f]) \subseteq m[p][f] \cup risked[f]
     /\ f = "config" => "agent" \in c[p][f]
     /\ f = "global" /\ "second" \in c[p][f] => NewNamed

LEMMA StepGoes ==
  ASSUME StoresTyped, NEW p \in Procs, todo[p] # << >>, Head(todo[p]).do \notin {"truncate", "fill"},
         UNCHANGED <<setup, disk, over, budget, acked, risked>>,
         NEW u, Follows(todo[p], u), todo' = [todo EXCEPT ![p] = u],
         NEW c \in [Procs -> [Files -> (SUBSET Entries) \cup {Torn}]],
         NEW m \in [Holders -> [Files -> SUBSET Entries]],
         \A q \in Procs \ {p} : c[q] = copy[q] /\ m[q] = missed[q],
         Holds(p, c, m),
         \A f \in Files : Sees(p, c, m, f),
         Supplied(u, {f \in Files : c[p][f] # Torn}),
         Names(u) \/ "agent" \in c[p]["config2"]
  PROVE  Goes(p)
<1>1. todo'[p] = u
  BY DEF StoresTyped
<1>2. /\ copy' \in [Procs -> [Files -> (SUBSET Entries) \cup {Torn}]]
      /\ missed' \in [Holders -> [Files -> SUBSET Entries]]
      /\ \A q \in Procs \ {p} : copy'[q] = copy[q] /\ missed'[q] = missed[q]
      /\ u = << >> => copy'[p] = Nothing
      /\ u # << >> => copy'[p] = c[p] /\ missed'[p] = m[p]
  BY <1>1, HoldsDo
<1>3. Supplied(u, Held(p)')
  BY <1>2, StopSound DEF Held
<1>4. Names(u) \/ "agent" \in copy'[p]["config2"]
  BY <1>2, StopSound
<1>5. ASSUME NEW f \in Files
      PROVE  \/ copy'[p][f] = Torn
             \/ copy'[p][f] = copy[p][f] /\ missed'[p][f] = missed[p][f]
             \/ FreshIn(p, f)
  <2>1. CASE u = << >>
    BY <1>2, <2>1 DEF Nothing
  <2>2. CASE u # << >>
    BY <1>2, <2>2 DEF FreshIn, Sees
  <2> QED BY <2>1, <2>2
<1> QED BY <1>1, <1>2, <1>3, <1>4, <1>5 DEF Goes

\* The step is done, or given up.
LEMMA Onward ==
  ASSUME StoresTyped, Programmed, RegisteredLast, NEW p \in Procs, todo[p] # << >>,
         NEW u, u = Tail(todo[p]) \/ u = (IF p = "boot" THEN Shared ELSE << >>)
  PROVE  /\ Follows(todo[p], u) /\ Passes(todo[p], u)
         /\ ~ Rereads(Head(todo[p])) => Names(u) \/ "agent" \in copy[p]["config2"]
<1>1. todo[p] \in Seq(Steps) /\ Late(todo[p])
  BY DEF StoresTyped, Programmed
<1>2. Follows(todo[p], u) /\ Passes(todo[p], u)
  BY <1>1, TailFollows, StopFollows
<1> QED BY <1>2 DEF Follows, RegisteredLast

LEMMA KeepsCopies ==
  ASSUME StoresTyped, Programmed, RegisteredLast, NEW p \in Procs, todo[p] # << >>,
         Head(todo[p]).do \in {"need", "keep", "share"},
         UNCHANGED <<setup, disk, over, budget, acked, risked>>,
         NEW u, todo' = [todo EXCEPT ![p] = u],
         u = Tail(todo[p]) \/ u = (IF p = "boot" THEN Shared ELSE << >>),
         NEW m \in [Holders -> [Files -> SUBSET Entries]], \A q \in Procs : m[q] = missed[q],
         Holds(p, copy, m)
  PROVE  Goes(p)
<1>1. ~ Rereads(Head(todo[p])) /\ \A f : ~ Gets(Head(todo[p]), f)
  BY DEF Rereads, Gets
<1>2. /\ Follows(todo[p], u) /\ Passes(todo[p], u)
      /\ Names(u) \/ "agent" \in copy[p]["config2"]
  BY <1>1, Onward
<1>3. Supplied(u, {f \in Files : copy[p][f] # Torn})
  BY <1>1, <1>2 DEF Programmed, Held, Passes
<1>4. copy \in [Procs -> [Files -> (SUBSET Entries) \cup {Torn}]]
  BY DEF StoresTyped
<1>5. \A f \in Files : Sees(p, copy, m, f)
  BY DEF Sees
<1> QED BY <1>2, <1>3, <1>4, <1>5, StepGoes

LEMMA NeedGoes ==
  ASSUME StoresTyped, Programmed, RegisteredLast, NEW p \in Procs, NeedStep(p)
  PROVE  Goes(p)
<1>1. missed \in [Holders -> [Files -> SUBSET Entries]]
  BY DEF StoresTyped
<1>2. /\ todo[p] # << >> /\ Head(todo[p]).do = "need" /\ Holds(p, copy, missed)
      /\ UNCHANGED <<setup, disk, over, budget, acked, risked>>
  BY DEF NeedStep, Doing
<1>3. PICK u : todo' = [todo EXCEPT ![p] = u] /\ (u = Tail(todo[p]) \/ u = (IF p = "boot" THEN Shared ELSE << >>))
  BY DEF NeedStep, Continue, GiveUp
<1> QED BY <1>1, <1>2, <1>3, KeepsCopies

LEMMA ShareGoes ==
  ASSUME StoresTyped, Programmed, RegisteredLast, NEW p \in Procs, ShareStep(p)
  PROVE  Goes(p)
<1>1. missed \in [Holders -> [Files -> SUBSET Entries]]
  BY DEF StoresTyped
<1>2. /\ todo[p] # << >> /\ Head(todo[p]).do = "share" /\ Holds(p, copy, missed)
      /\ UNCHANGED <<setup, disk, over, budget, acked, risked>>
  BY DEF ShareStep, Doing
<1>3. todo' = [todo EXCEPT ![p] = Tail(todo[p])]
  BY DEF ShareStep, Continue
<1> QED BY <1>1, <1>2, <1>3, KeepsCopies

LEMMA PeekGoes ==
  ASSUME StoresTyped, Programmed, RegisteredLast, NEW p \in Procs, PeekStep(p)
  PROVE  Goes(p)
<1>1. /\ todo[p] # << >> /\ Head(todo[p]).do = "peek"
      /\ UNCHANGED <<setup, disk, copy, over, mem, budget, acked, missed, risked>>
  BY DEF PeekStep, Doing
<1>2. PICK u : todo' = [todo EXCEPT ![p] = u] /\ (u = Tail(todo[p]) \/ u = (IF p = "boot" THEN Shared ELSE << >>))
  BY DEF PeekStep, Continue, GiveUp
<1>3. ~ Rereads(Head(todo[p])) /\ \A f : ~ Gets(Head(todo[p]), f)
  BY <1>1 DEF Rereads, Gets
<1>4. /\ Follows(todo[p], u) /\ Passes(todo[p], u)
      /\ Names(u) \/ "agent" \in copy[p]["config2"]
  BY <1>1, <1>2, <1>3, Onward
<1>5. Held(p)' = Held(p)
  BY <1>1 DEF Held
<1>6. Supplied(u, Held(p)')
  BY <1>3, <1>4, <1>5 DEF Programmed, Passes
<1>7. todo'[p] = u
  BY <1>2 DEF StoresTyped
<1> QED BY <1>1, <1>2, <1>4, <1>6, <1>7 DEF Goes, StoresTyped

LEMMA CreateGoes ==
  ASSUME StoresInv, NEW p \in Procs, CreateStep(p)
  PROVE  Goes(p)
<1>1. todo[p] \in Seq(Steps) /\ todo[p] # << >> /\ Head(todo[p]).do = "create"
  BY DEF StoresInv, StoresTyped, CreateStep, Doing
<1>2. Head(todo[p]) = todo[p][1] /\ todo[p][1] \in Steps /\ 1 \in 1 .. Len(todo[p])
  BY <1>1, HeadIsAStep
<1>3. Step(p).file = "config2" /\ "config2" \in Files
  BY <1>1, <1>2 DEF Step, Steps, Files
<1>4. disk["config2"] = {}
  BY <1>1, <1>2 DEF StoresInv, OneCreator, Creates
<1>5. PICK c : c = [copy EXCEPT ![p]["config2"] = {}]
  OBVIOUS
<1>6. PICK m : m = [missed EXCEPT ![p]["config2"] = {}]
  OBVIOUS
<1>7. /\ Holds(p, c, m) /\ todo' = [todo EXCEPT ![p] = Tail(todo[p])]
      /\ UNCHANGED <<setup, disk, over, budget, acked, risked>>
  BY <1>3, <1>5, <1>6 DEF CreateStep, Continue
<1>8. p \in Holders
  BY DEF Holders
<1>9. /\ c \in [Procs -> [Files -> (SUBSET Entries) \cup {Torn}]]
      /\ m \in [Holders -> [Files -> SUBSET Entries]]
      /\ \A q \in Procs \ {p} : c[q] = copy[q] /\ m[q] = missed[q]
      /\ c[p]["config2"] = {}
      /\ \A f \in Files \ {"config2"} : c[p][f] = copy[p][f] /\ m[p][f] = missed[p][f]
      /\ m[p]["config2"] = {}
  BY <1>3, <1>5, <1>6, <1>8 DEF StoresInv, StoresTyped
<1>10. /\ Follows(todo[p], Tail(todo[p])) /\ Passes(todo[p], Tail(todo[p]))
  BY <1>1, Onward DEF StoresInv
<1>11. Names(Tail(todo[p]))
  BY <1>1, <1>10 DEF Follows, Rereads, StoresInv, RegisteredLast, Doing
<1>12. {} # Torn
  BY DEF Torn
<1>13. Supplied(Tail(todo[p]), {f \in Files : c[p][f] # Torn})
  <2>1. \A g \in Files : g \in Held(p) \/ Gets(Head(todo[p]), g) => g \in {f \in Files : c[p][f] # Torn}
    BY <1>3, <1>9, <1>12 DEF Held, Gets, Step
  <2>2. Supplied(todo[p], Held(p))
    BY DEF StoresInv, Programmed
  <2> QED BY <1>10, <2>1, <2>2 DEF Passes
<1>14. /\ c[p]["config2"] \in Contents("config2")
       /\ Between(c[p]["config2"] \ LegacyEntries, acked["config2"]) \subseteq m[p]["config2"] \cup risked["config2"]
  <2>1. Between({} \ LegacyEntries, acked["config2"]) \subseteq risked["config2"]
    BY <1>3, <1>4, <1>12 DEF StoresInv, LostOnlyIfOverlapped
  <2> QED BY <1>9, <2>1 DEF Contents
<1>15. \A f \in Files : Sees(p, c, m, f)
  BY <1>9, <1>14 DEF Sees
<1>16. PICK u : u = Tail(todo[p])
  OBVIOUS
<1>17. /\ Follows(todo[p], u) /\ todo' = [todo EXCEPT ![p] = u]
       /\ Names(u) /\ Supplied(u, {f \in Files : c[p][f] # Torn})
  BY <1>7, <1>10, <1>11, <1>13, <1>16
<1>18. StoresTyped /\ Head(todo[p]).do \notin {"truncate", "fill"}
  BY <1>1 DEF StoresInv
<1> QED BY <1>1, <1>7, <1>9, <1>15, <1>17, <1>18, StepGoes

LEMMA KeepGoes ==
  ASSUME StoresTyped, Programmed, RegisteredLast, NEW p \in Procs, KeepStep(p)
  PROVE  /\ Goes(p)
         /\ Step(p).file = "config" =>
              missed'["launched"]["config"] = missed[p]["config"] /\ mem'.config = copy[p]["config"]
         /\ Step(p).file # "config" => missed'["launched"] = missed["launched"] /\ mem'.config = mem.config
         /\ DOMAIN mem' = DOMAIN mem
<1>1. PICK f : f = Step(p).file
  OBVIOUS
<1>2. PICK m : m = [missed EXCEPT
             !["launched"]["config"] = IF f = "config" THEN missed[p][f] ELSE missed["launched"]["config"]]
  OBVIOUS
<1>3. "launched" \notin Procs /\ "launched" \in Holders
  BY BoundsAssumption DEF Procs, Holders
<1>4. /\ todo[p] # << >> /\ Head(todo[p]).do = "keep" /\ Holds(p, copy, m)
      /\ UNCHANGED <<setup, disk, over, budget, acked, risked>>
      /\ todo' = [todo EXCEPT ![p] = Tail(todo[p])]
      /\ mem' = [mem EXCEPT ![f] = Kept(p, f)]
  BY <1>1, <1>2, <1>3 DEF KeepStep, Continue, Doing, StoresTyped
<1>5. "config" \in Files /\ p \in Holders
  BY DEF Files, Holders
<1>6. /\ m \in [Holders -> [Files -> SUBSET Entries]]
      /\ \A q \in Procs : m[q] = missed[q]
      /\ f = "config" => m["launched"]["config"] = missed[p]["config"]
      /\ f # "config" => m["launched"] = missed["launched"]
  <2>1. missed \in [Holders -> [Files -> SUBSET Entries]]
    BY DEF StoresTyped
  <2> QED BY <1>2, <1>3, <1>5, <2>1 DEF Holders
<1>7. Goes(p)
  BY <1>4, <1>6, KeepsCopies
<1>8. \A h \in Holders \ Procs : missed'[h] = m[h]
  <2>1. copy \in [Procs -> [Files -> (SUBSET Entries) \cup {Torn}]]
    BY DEF StoresTyped
  <2>2. missed' = [m EXCEPT ![p] = IF todo'[p] = << >> THEN Clean ELSE m[p]]
    BY <1>4 DEF Holds
  <2> QED BY <1>6, <2>2
<1>9. /\ f = "config" => mem'.config = copy[p]["config"]
      /\ f # "config" => mem'.config = mem.config
      /\ DOMAIN mem' = DOMAIN mem
  BY <1>4 DEF StoresTyped, Kept
<1> QED BY <1>1, <1>3, <1>6, <1>7, <1>8, <1>9

LEMMA RecallGoes ==
  ASSUME StoresInv, NEW p \in Procs, RecallStep(p)
  PROVE  Goes(p)
<1>1. todo[p] \in Seq(Steps) /\ todo[p] # << >> /\ Head(todo[p]).do = "recall"
  BY DEF StoresInv, StoresTyped, RecallStep, Doing
<1>2. Head(todo[p]) = todo[p][1] /\ todo[p][1] \in Steps /\ 1 \in 1 .. Len(todo[p])
  BY <1>1, HeadIsAStep
<1>3. mem.config # Torn
  BY <1>1, <1>2 DEF StoresInv, Programmed, Recalls
<1>4. "config" \in Files /\ p \in Holders /\ "launched" \in Holders /\ "config2" \in Files
  BY DEF Files, Holders
<1>5. PICK c : c = [copy EXCEPT ![p]["config"] = mem.config]
  OBVIOUS
<1>6. PICK m : m = [missed EXCEPT ![p]["config"] = missed["launched"]["config"]]
  OBVIOUS
<1>7. /\ Holds(p, c, m) /\ todo' = [todo EXCEPT ![p] = Tail(todo[p])]
      /\ UNCHANGED <<setup, disk, over, budget, acked, risked>>
  BY <1>5, <1>6 DEF RecallStep, Continue
<1>8. mem.config \in Contents("config") /\ mem.config \in (SUBSET Entries) \cup {Torn}
  BY DEF StoresInv, StoresTyped, Contents
<1>9. /\ c \in [Procs -> [Files -> (SUBSET Entries) \cup {Torn}]]
      /\ m \in [Holders -> [Files -> SUBSET Entries]]
      /\ \A q \in Procs \ {p} : c[q] = copy[q] /\ m[q] = missed[q]
      /\ c[p]["config"] = mem.config
      /\ \A f \in Files \ {"config"} : c[p][f] = copy[p][f] /\ m[p][f] = missed[p][f]
      /\ m[p]["config"] = missed["launched"]["config"]
  BY <1>4, <1>5, <1>6, <1>8 DEF StoresInv, StoresTyped
<1>10. /\ Follows(todo[p], Tail(todo[p])) /\ Passes(todo[p], Tail(todo[p]))
       /\ Names(Tail(todo[p])) \/ "agent" \in copy[p]["config2"]
  BY <1>1, Onward DEF StoresInv, Rereads
<1>11. Names(Tail(todo[p])) \/ "agent" \in c[p]["config2"]
  BY <1>4, <1>9, <1>10
<1>12. Supplied(Tail(todo[p]), {f \in Files : c[p][f] # Torn})
  <2>1. \A g \in Files : g \in Held(p) \/ Gets(Head(todo[p]), g) => g \in {f \in Files : c[p][f] # Torn}
    BY <1>1, <1>2, <1>3, <1>9 DEF Held, Gets, Steps
  <2>2. Supplied(todo[p], Held(p))
    BY DEF StoresInv, Programmed
  <2> QED BY <1>10, <2>1, <2>2 DEF Passes
<1>13. /\ Between(c[p]["config"] \ LegacyEntries, acked["config"]) \subseteq m[p]["config"] \cup risked["config"]
       /\ "agent" \in c[p]["config"]
  BY <1>3, <1>9 DEF StoresInv, ServerIsOld, AgentKept
<1>14. \A f \in Files : Sees(p, c, m, f)
  BY <1>8, <1>9, <1>13 DEF Sees
<1>15. PICK u : u = Tail(todo[p])
  OBVIOUS
<1>16. /\ Follows(todo[p], u) /\ todo' = [todo EXCEPT ![p] = u]
       /\ Names(u) \/ "agent" \in c[p]["config2"]
       /\ Supplied(u, {f \in Files : c[p][f] # Torn})
  BY <1>7, <1>10, <1>11, <1>12, <1>15
<1>17. StoresTyped /\ Head(todo[p]).do \notin {"truncate", "fill"}
  BY <1>1 DEF StoresInv
<1> QED BY <1>1, <1>7, <1>9, <1>14, <1>16, <1>17, StepGoes

\* What a load finds: the file as it is, or nothing, of which everything may be missed.
LEMMA LoadGoes ==
  ASSUME StoresInv, NEW p \in Procs, LoadStep(p)
  PROVE  Goes(p)
<1>1. todo[p] \in Seq(Steps) /\ todo[p] # << >> /\ Head(todo[p]).do = "load" /\ StoresTyped
      /\ UNCHANGED <<setup, disk, over, budget, acked, risked>>
  BY DEF StoresInv, StoresTyped, LoadStep, Doing
<1>2. Head(todo[p]) = todo[p][1] /\ todo[p][1] \in Steps /\ 1 \in 1 .. Len(todo[p])
  BY <1>1, HeadIsAStep
<1>3. PICK f : f = Step(p).file
  OBVIOUS
<1>4. f \in Files /\ Head(todo[p]).file = f /\ p \in Holders
  BY <1>1, <1>2, <1>3 DEF Step, Steps, Holders
<1>5. \A g : Gets(Head(todo[p]), g) => g = f
  BY <1>4 DEF Gets
<1>6. Supplied(todo[p], Held(p)) /\ {} # Torn /\ "old" \notin Torn
  BY DEF StoresInv, Programmed, Torn
<1>7. PICK m : m = [missed EXCEPT ![p][f] = IF disk[f] = Torn THEN Entries ELSE {}]
  OBVIOUS
<1>8. /\ m \in [Holders -> [Files -> SUBSET Entries]]
      /\ \A q \in Procs \ {p} : m[q] = missed[q]
      /\ m[p][f] = (IF disk[f] = Torn THEN Entries ELSE {})
      /\ \A g \in Files \ {f} : m[p][g] = missed[p][g]
  BY <1>1, <1>4, <1>7 DEF StoresTyped
<1>9. PICK content, u :
        /\ Holds(p, [copy EXCEPT ![p][f] = content], m) /\ todo' = [todo EXCEPT ![p] = u]
        /\ \/ /\ disk[f] = Torn /\ content = Torn
              /\ u = (IF p = "boot" THEN Shared ELSE << >>)
           \/ disk[f] = Torn /\ f \notin Strict /\ content = {} /\ u = Tail(todo[p])
           \/ /\ "old" \in disk[f] /\ content = disk[f] \ {"old"}
              /\ u = Save(f, {}, {}) \o Tail(todo[p])
           \/ disk[f] # Torn /\ content = disk[f] /\ u = Tail(todo[p])
  BY <1>3, <1>7 DEF LoadStep, GiveUp, Continue
<1>10. PICK c : c = [copy EXCEPT ![p][f] = content]
  OBVIOUS
<1>11. disk[f] \in Contents(f) /\ disk[f] \in (SUBSET Entries) \cup {Torn}
  BY <1>1, <1>4 DEF StoresTyped
<1>12. content \in (SUBSET Entries) \cup {Torn} /\ content \in Contents(f)
  BY <1>6, <1>9, <1>11 DEF Contents
<1>13. /\ c \in [Procs -> [Files -> (SUBSET Entries) \cup {Torn}]]
       /\ \A q \in Procs \ {p} : c[q] = copy[q]
       /\ c[p][f] = content
       /\ \A g \in Files \ {f} : c[p][g] = copy[p][g]
  BY <1>1, <1>4, <1>10, <1>12 DEF StoresTyped
<1>14. Holds(p, c, m)
  BY <1>9, <1>10
<1>15. "old" \in disk[f] => f = "config"
  BY <1>6, <1>11 DEF Contents, Saved, LegacyEntries
<1>16. \A v : v = Tail(todo[p]) \/ v = (IF p = "boot" THEN Shared ELSE << >>) =>
         /\ Follows(todo[p], v) /\ Passes(todo[p], v)
         /\ ~ Rereads(Head(todo[p])) => Names(v) \/ "agent" \in copy[p]["config2"]
  BY <1>1, Onward DEF StoresInv
<1>17. Follows(todo[p], u)
       /\ Supplied(u, {g \in Files : c[p][g] # Torn})
  <2>1. CASE u = (IF p = "boot" THEN Shared ELSE << >>)
    BY <1>16, <2>1, StopSound
  <2>2. CASE content # Torn
    <3>1. \A g \in Files : g \in Held(p) \/ Gets(Head(todo[p]), g) => g \in {h \in Files : c[p][h] # Torn}
      BY <1>5, <1>13, <2>2 DEF Held
    <3>2. Supplied(Tail(todo[p]), {g \in Files : c[p][g] # Torn})
      BY <1>6, <1>16, <3>1 DEF Passes
    <3>3. CASE u = Tail(todo[p])
      BY <1>16, <3>2, <3>3
    <3>4. CASE u = Save(f, {}, {}) \o Tail(todo[p]) /\ "old" \in disk[f]
      <4>1. f \in Files \ {"config2"} /\ f \in {g \in Files : c[p][g] # Torn} /\ "second" \notin {}
        BY <1>4, <1>13, <1>15, <2>2, <3>4
      <4>2. Tail(todo[p]) \in Seq(Steps) /\ Follows(todo[p], Tail(todo[p]))
        BY <1>16 DEF Follows
      <4>3. {} \in SUBSET Saved
        OBVIOUS
      <4> QED BY <1>16, <3>2, <3>4, <4>1, <4>2, <4>3, PutFollows
    <3> QED BY <1>9, <2>2, <3>3, <3>4
  <2>3. content = Torn => u = (IF p = "boot" THEN Shared ELSE << >>)
    <3>1. "old" \in disk[f] => disk[f] \ {"old"} # Torn
      BY <1>6, <1>11 DEF Torn, Entries, LegacyEntries
    <3> QED BY <1>6, <1>9, <3>1
  <2> QED BY <2>1, <2>2, <2>3
<1>18. Names(u) \/ "agent" \in c[p]["config2"]
  <2>1. "config2" \in Files /\ "config2" \in Strict
    BY DEF Files, Strict
  <2>2. CASE u = (IF p = "boot" THEN Shared ELSE << >>)
    BY <2>2, StopSound
  <2>3. CASE f # "config2"
    <3>1. ~ Rereads(Head(todo[p]))
      BY <1>4, <2>3 DEF Rereads
    <3>2. Names(todo[p]) \/ "agent" \in copy[p]["config2"]
      BY DEF StoresInv, RegisteredLast
    <3> QED BY <1>13, <1>17, <2>1, <2>3, <3>1, <3>2 DEF Follows
  <2>4. CASE f = "config2" /\ disk[f] # Torn
    <3>1. Rereads(todo[p][1])
      BY <1>1, <1>2, <1>4, <2>4 DEF Rereads
    <3>2. ~ Registers(todo[p])
      BY <1>2, <3>1 DEF Registers
    <3>3. "agent" \in disk["config2"]
      BY <2>4, <3>2 DEF StoresInv, RegisteredLast, NewNamed
    <3> QED BY <1>9, <1>13, <1>15, <2>4, <3>3
  <2> QED BY <1>9, <1>15, <2>1, <2>2, <2>3, <2>4
<1>19. \A g \in Files : Sees(p, c, m, g)
  <2>1. content # Torn => Between(content \ LegacyEntries, acked[f]) \subseteq m[p][f] \cup risked[f]
    <3>1. acked[f] \subseteq Entries
      BY <1>1, <1>4 DEF StoresTyped, Saved
    <3>2. CASE disk[f] = Torn
      BY <1>6, <1>8, <1>9, <3>1, <3>2 DEF Between
    <3>3. CASE disk[f] # Torn
      <4>1. content \ LegacyEntries = disk[f] \ LegacyEntries
        BY <1>9, <3>3 DEF LegacyEntries
      <4>2. Between(disk[f] \ LegacyEntries, acked[f]) \subseteq risked[f]
        BY <1>4, <3>3 DEF StoresInv, LostOnlyIfOverlapped
      <4> QED BY <4>1, <4>2
    <3> QED BY <3>2, <3>3
  <2>2. f = "config" /\ content # Torn => "agent" \in content
    BY <1>6, <1>9 DEF StoresInv, AgentKept, Strict
  <2>3. f = "global" /\ content # Torn /\ "second" \in content => NewNamed
    BY <1>6, <1>9 DEF StoresInv, RegisteredLast, Strict
  <2>4. Sees(p, c, m, f)
    BY <1>12, <1>13, <2>1, <2>2, <2>3 DEF Sees
  <2> QED BY <1>8, <1>13, <2>4 DEF Sees
<1> QED BY <1>1, <1>8, <1>9, <1>13, <1>14, <1>17, <1>18, <1>19, StepGoes

LEMMA MigrateGoes ==
  ASSUME StoresInv, NEW p \in Procs, MigrateStep(p)
  PROVE  Goes(p)
<1>1. todo[p] \in Seq(Steps) /\ todo[p] # << >> /\ Head(todo[p]).do = "migrate" /\ StoresTyped
      /\ UNCHANGED <<setup, disk, copy, over, mem, budget, acked, missed, risked>>
  BY DEF StoresInv, StoresTyped, MigrateStep, Doing
<1>2. Head(todo[p]) = todo[p][1] /\ todo[p][1] \in Steps /\ 1 \in 1 .. Len(todo[p])
  BY <1>1, HeadIsAStep
<1>3. PICK u : /\ todo' = [todo EXCEPT ![p] = u]
               /\ \/ /\ "legacy" \in copy[p]["config"]
                     /\ u = Save("keys", {"openai"}, {}) \o Save("config", {}, {}) \o Tail(todo[p])
                  \/ u = Tail(todo[p])
  BY DEF MigrateStep
<1>4. /\ Follows(todo[p], Tail(todo[p])) /\ Passes(todo[p], Tail(todo[p]))
      /\ Names(Tail(todo[p])) \/ "agent" \in copy[p]["config2"]
  BY <1>1, Onward DEF StoresInv, Rereads
<1>5. Held(p)' = Held(p)
  BY <1>1 DEF Held
<1>6. "keys" \in Held(p)
  BY <1>1, <1>2 DEF StoresInv, Programmed, Supplied, Uses, Steps
<1>7. Supplied(Tail(todo[p]), Held(p))
  <2>1. \A g : ~ Gets(Head(todo[p]), g)
    BY <1>1 DEF Gets
  <2> QED BY <1>4, <2>1 DEF Passes, StoresInv, Programmed
<1>8. Follows(todo[p], u) /\ Supplied(u, Held(p))
  <2>1. CASE u = Tail(todo[p])
    BY <1>4, <1>7, <2>1
  <2>2. CASE "legacy" \in copy[p]["config"]
             /\ u = Save("keys", {"openai"}, {}) \o Save("config", {}, {}) \o Tail(todo[p])
    <3>1. "config" \in Held(p)
      BY <2>2 DEF Held, Files, Torn
    <3>2. PICK v : v = Save("config", {}, {}) \o Tail(todo[p])
      OBVIOUS
    <3>3. {} \in SUBSET Saved /\ {"openai"} \in SUBSET Saved /\ "second" \notin {} /\ "second" \notin {"openai"}
          /\ "config" \in Files \ {"config2"} /\ "keys" \in Files \ {"config2"}
      BY DEF Saved, Entries, LegacyEntries, Files
    <3>4. Tail(todo[p]) \in Seq(Steps)
      BY <1>4 DEF Follows
    <3>5. Follows(todo[p], v) /\ Supplied(v, Held(p))
      BY <1>4, <1>7, <3>1, <3>2, <3>3, <3>4, PutFollows
    <3>6. v \in Seq(Steps)
      BY <3>5 DEF Follows
    <3>7. u = Save("keys", {"openai"}, {}) \o v
      BY <2>2, <3>2, <3>4 DEF Save
    <3> QED BY <1>6, <3>3, <3>5, <3>6, <3>7, PutFollows
  <2> QED BY <1>3, <2>1, <2>2
<1>9. Names(u) \/ "agent" \in copy[p]["config2"]
  BY <1>1, <1>8 DEF Follows, Rereads, StoresInv, RegisteredLast
<1>10. todo'[p] = u
  BY <1>1, <1>3 DEF StoresTyped
<1> QED BY <1>1, <1>3, <1>5, <1>8, <1>9, <1>10 DEF Goes, StoresTyped

------------------------------------------------------------------------------
(* The first half of a write. *)

LEMMA CreatorsMention == \A t \in Seq(Steps) : Creates(t) => Mentions(t)
BY DEF Creates, Mentions, Steps

\* Process p opens file f, its whole content in hand.
Opens(p, f) ==
  /\ todo[p] \in Seq(Steps) /\ todo[p] # << >> /\ Head(todo[p]).do = "truncate"
  /\ Step(p) = Head(todo[p]) /\ Head(todo[p]) = todo[p][1] /\ todo[p][1] \in Steps
  /\ 1 \in 1 .. Len(todo[p]) /\ Late(todo[p])
  /\ f \in Files /\ Step(p).add \subseteq Saved /\ Step(p).del \subseteq Saved
  /\ Step(p).del \cap {"agent", "openai"} = {}
  /\ copy[p][f] # Torn /\ copy[p][f] \in SUBSET Entries
  /\ ~ Doing(p, "fill")
  /\ todo'[p] = [todo[p] EXCEPT ![1].do = "fill"]
  /\ todo' \in [Procs -> Seq(Steps)] /\ \A q \in Procs \ {p} : todo'[q] = todo[q]
  /\ disk' = [disk EXCEPT ![f] = Torn]
  /\ copy' \in [Procs -> [Files -> (SUBSET Entries) \cup {Torn}]]
  /\ \A q \in Procs \ {p} : copy'[q] = copy[q]
  /\ \A g \in Files \ {f} : copy'[p][g] = copy[p][g]
  /\ copy'[p][f] = (copy[p][f] \cup Step(p).add) \ Step(p).del
  /\ copy'[p][f] # Torn
  /\ UNCHANGED <<setup, mem, budget, acked, missed, risked>>

LEMMA TruncateDo ==
  ASSUME StoresInv, NEW p \in Procs, Truncate(p), NEW f, f = Step(p).file
  PROVE  Opens(p, f)
<1>1. StoresTyped /\ todo[p] \in Seq(Steps) /\ todo[p] # << >> /\ Head(todo[p]).do = "truncate" /\ Late(todo[p])
      /\ Step(p) = Head(todo[p])
  BY DEF StoresInv, StoresTyped, Programmed, Truncate, Doing, Step
<1>2. Head(todo[p]) = todo[p][1] /\ todo[p][1] \in Steps /\ 1 \in 1 .. Len(todo[p])
  BY <1>1, HeadIsAStep
<1>3. f \in Files /\ Step(p).add \subseteq Saved /\ Step(p).del \subseteq Saved
      /\ Step(p).del \cap {"agent", "openai"} = {}
  BY <1>1, <1>2 DEF Steps
<1>4. copy[p][f] # Torn
  <2>1. Uses(todo[p][1])
    BY <1>1, <1>2 DEF Uses
  <2>2. f \in Held(p)
    BY <1>1, <1>2, <2>1 DEF StoresInv, Programmed, Supplied
  <2> QED BY <2>2 DEF Held
<1>5. copy[p][f] \in SUBSET Entries
  BY <1>1, <1>3, <1>4 DEF StoresTyped
<1>6. UNCHANGED <<setup, mem, budget, acked, missed, risked>>
      /\ todo' = [todo EXCEPT ![p][1].do = "fill"]
      /\ disk' = [disk EXCEPT ![f] = Torn]
      /\ copy' = [copy EXCEPT ![p][f] = (copy[p][f] \cup Step(p).add) \ Step(p).del]
  BY <1>1, <1>3 DEF Truncate, StoresTyped
<1>7. todo' = [todo EXCEPT ![p] = todo'[p]] /\ todo'[p] = [todo[p] EXCEPT ![1].do = "fill"]
      /\ \A q \in Procs \ {p} : todo'[q] = todo[q]
  BY <1>1, <1>6 DEF StoresTyped
<1>8. todo'[p] \in Seq(Steps)
  BY <1>1, <1>7, FillFollows
<1>9. todo' \in [Procs -> Seq(Steps)]
  BY <1>1, <1>7, <1>8 DEF StoresTyped
<1>10. (copy[p][f] \cup Step(p).add) \ Step(p).del \in SUBSET Entries
  BY <1>3, <1>5 DEF Saved
<1>11. /\ copy' \in [Procs -> [Files -> (SUBSET Entries) \cup {Torn}]]
       /\ \A q \in Procs \ {p} : copy'[q] = copy[q]
       /\ \A g \in Files \ {f} : copy'[p][g] = copy[p][g]
       /\ copy'[p][f] = (copy[p][f] \cup Step(p).add) \ Step(p).del
  BY <1>1, <1>3, <1>6, <1>10 DEF StoresTyped
<1>12. copy'[p][f] # Torn
  <2>1. "torn" \notin Entries
    BY DEF Entries, LegacyEntries
  <2> QED BY <1>10, <1>11, <2>1 DEF Torn
<1>13. ~ Doing(p, "fill")
  BY <1>1 DEF Doing
<1> QED BY <1>1, <1>2, <1>3, <1>4, <1>5, <1>6, <1>7, <1>9, <1>11, <1>12, <1>13 DEF Opens

LEMMA TruncateTyped ==
  ASSUME StoresInv, NEW p \in Procs, Truncate(p)
  PROVE  StoresTyped' /\ Programmed' /\ LostOnlyIfOverlapped' /\ CopiesAreOld' /\ ServerIsOld'
<1>1. PICK f : f = Step(p).file /\ Opens(p, f)
  BY TruncateDo
<1>2. PICK t : t = todo[p]
  OBVIOUS
<1>3. PICK u : u = todo'[p]
  OBVIOUS
<1>4. /\ t \in Seq(Steps) /\ t # << >> /\ Head(t).do = "truncate" /\ Late(t) /\ u = [t EXCEPT ![1].do = "fill"]
      /\ f \in Files /\ Step(p) = Head(t)
  BY <1>1, <1>2, <1>3 DEF Opens
<1>5. /\ u \in Seq(Steps) /\ u # << >> /\ Late(u)
      /\ Head(u).do = "fill" /\ Head(u).file = Head(t).file
      /\ Head(u).add = Head(t).add /\ Head(u).del = Head(t).del
      /\ \A now : Supplied(t, now) => Supplied(u, now)
      /\ Recalls(u) => Recalls(t)
  BY <1>4, FillFollows
<1>6. StoresTyped'
  <2>1. \A q \in Procs : \A g \in Files : copy'[q][g] \in Contents(g)
    <3>1. copy'[p][f] \in Contents(f)
      <4>1. copy[p][f] \in Contents(f) /\ copy[p][f] # Torn /\ Step(p).add \subseteq Saved
            /\ copy'[p][f] = (copy[p][f] \cup Step(p).add) \ Step(p).del
        BY <1>1, <1>4 DEF StoresInv, StoresTyped, Opens
      <4> QED BY <4>1 DEF Contents, Saved
    <3>2. \A q \in Procs \ {p} : copy'[q] = copy[q]
      BY <1>1 DEF Opens
    <3>3. \A g \in Files \ {f} : copy'[p][g] = copy[p][g]
      BY <1>1 DEF Opens
    <3> QED BY <3>1, <3>2, <3>3 DEF StoresInv, StoresTyped
  <2>2. disk' \in [Files -> (SUBSET Entries) \cup {Torn}] /\ \A g \in Files : disk'[g] \in Contents(g)
    <3>1. disk' = [disk EXCEPT ![f] = Torn]
      BY <1>1 DEF Opens
    <3>2. \A g : Torn \in Contents(g)
      BY DEF Contents
    <3> QED BY <3>1, <3>2 DEF StoresInv, StoresTyped
  <2>3. /\ todo' \in [Procs -> Seq(Steps)] /\ copy' \in [Procs -> [Files -> (SUBSET Entries) \cup {Torn}]]
        /\ UNCHANGED <<setup, mem, budget, acked, missed, risked>>
    BY <1>1 DEF Opens
  <2> QED BY <2>1, <2>2, <2>3 DEF StoresInv, StoresTyped, Contents
<1>7. Programmed'
  <2>1. \A q \in Procs : Held(q)' = Held(q)
    <3>1. \A q \in Procs \ {p} : copy'[q] = copy[q]
      BY <1>1 DEF Opens
    <3>2. \A g \in Files : copy'[p][g] = Torn <=> copy[p][g] = Torn
      BY <1>1 DEF Opens
    <3> QED BY <3>1, <3>2 DEF Held
  <2>2. mem' = mem /\ \A q \in Procs \ {p} : todo'[q] = todo[q]
    BY <1>1 DEF Opens
  <2>3. /\ Late(todo'[p]) /\ Supplied(todo'[p], Held(p)')
        /\ Recalls(todo'[p]) => mem.config # Torn
    BY <1>2, <1>3, <1>5, <2>1 DEF StoresInv, Programmed
  <2> QED BY <2>1, <2>2, <2>3 DEF StoresInv, Programmed
<1>8. LostOnlyIfOverlapped'
  <2>1. disk' = [disk EXCEPT ![f] = Torn] /\ acked' = acked /\ risked' = risked
    BY <1>1 DEF Opens
  <2> QED BY <2>1 DEF StoresInv, StoresTyped, LostOnlyIfOverlapped
<1>9. CopiesAreOld'
  <2>1. acked' = acked /\ risked' = risked /\ missed' = missed
    BY <1>1 DEF Opens
  <2>2. ASSUME NEW q \in Procs \ {p}, NEW g \in Files, copy'[q][g] # Torn
        PROVE  Between(copy'[q][g] \ LegacyEntries, Target(q, g)') \subseteq missed'[q][g] \cup risked'[g]
    <3>1. copy'[q] = copy[q] /\ todo'[q] = todo[q]
      BY <1>1 DEF Opens
    <3>2. Target(q, g)' = Target(q, g)
      BY <2>1, <3>1 DEF Target, Filling, Doing, Step
    <3> QED BY <2>1, <2>2, <3>1, <3>2 DEF StoresInv, CopiesAreOld
  <2>3. ASSUME NEW g \in Files \ {f}, copy'[p][g] # Torn
        PROVE  Between(copy'[p][g] \ LegacyEntries, Target(p, g)') \subseteq missed'[p][g] \cup risked'[g]
    <3>1. copy'[p][g] = copy[p][g] /\ ~ Doing(p, "fill")
      BY <1>1 DEF Opens
    <3>2. Target(p, g)' = acked[g] /\ Target(p, g) = acked[g]
      BY <1>1, <1>3, <1>4, <1>5, <2>1, <3>1 DEF Target, Filling, Doing, Step
    <3> QED BY <2>1, <2>3, <3>1, <3>2 DEF StoresInv, CopiesAreOld
  <2>4. Between(copy'[p][f] \ LegacyEntries, Target(p, f)') \subseteq missed'[p][f] \cup risked'[f]
    <3>1. /\ copy'[p][f] = (copy[p][f] \cup Step(p).add) \ Step(p).del /\ ~ Doing(p, "fill")
          /\ copy[p][f] # Torn /\ Step(p).add \subseteq Saved
      BY <1>1 DEF Opens
    <3>2. Target(p, f)' = (acked[f] \cup Step(p).add) \ Step(p).del /\ Target(p, f) = acked[f]
      BY <1>1, <1>3, <1>4, <1>5, <2>1, <3>1 DEF Target, Filling, Doing, Step
    <3>3. Between(copy[p][f] \ LegacyEntries, acked[f]) \subseteq missed[p][f] \cup risked[f]
      BY <1>4, <3>1, <3>2 DEF StoresInv, CopiesAreOld
    <3> QED BY <2>1, <3>1, <3>2, <3>3 DEF Between, Saved
  <2> QED BY <2>2, <2>3, <2>4 DEF CopiesAreOld
<1>10. ServerIsOld'
  <2>1. UNCHANGED <<mem, acked, missed, risked>>
    BY <1>1 DEF Opens
  <2> QED BY <2>1 DEF StoresInv, ServerIsOld
<1> QED BY <1>6, <1>7, <1>8, <1>9, <1>10

LEMMA TruncateNames ==
  ASSUME StoresInv, NEW p \in Procs, Truncate(p)
  PROVE  AgentKept' /\ RegisteredLast' /\ OneCreator'
<1>1. PICK f : f = Step(p).file /\ Opens(p, f)
  BY TruncateDo
<1>2. PICK t : t = todo[p]
  OBVIOUS
<1>3. PICK u : u = todo'[p]
  OBVIOUS
<1>4. /\ t \in Seq(Steps) /\ t # << >> /\ Head(t).do = "truncate" /\ Late(t) /\ u = [t EXCEPT ![1].do = "fill"]
      /\ f \in Files /\ Step(p) = Head(t) /\ Head(t) = t[1] /\ 1 \in 1 .. Len(t)
      /\ Head(t).del \cap {"agent", "openai"} = {}
  BY <1>1, <1>2, <1>3 DEF Opens
<1>5. /\ u # << >> /\ Head(u).do = "fill" /\ Head(u).file = Head(t).file
      /\ Registers(t) => Registers(u)
      /\ Names(t) => Names(u)
      /\ Mentions(u) => Mentions(t)
      /\ ~ Creates(u)
  BY <1>4, FillFollows
<1>6. /\ disk' = [disk EXCEPT ![f] = Torn] /\ mem' = mem
      /\ \A q \in Procs \ {p} : copy'[q] = copy[q] /\ todo'[q] = todo[q]
      /\ \A g \in Files \ {f} : copy'[p][g] = copy[p][g]
      /\ copy'[p][f] = (copy[p][f] \cup Head(t).add) \ Head(t).del
      /\ copy[p][f] # Torn
  BY <1>1, <1>4 DEF Opens
<1>7. "config" \in Files /\ "config2" \in Files /\ "global" \in Files
  BY DEF Files
<1>8. DOMAIN disk = Files
  BY DEF StoresInv, StoresTyped
<1>9. AgentKept'
  <2>1. "agent" \in disk'["config"] \/ disk'["config"] = Torn
    BY <1>6, <1>7, <1>8 DEF StoresInv, AgentKept
  <2>2. "agent" \in copy'[p]["config"] \/ copy'[p]["config"] = Torn
    BY <1>4, <1>6, <1>7 DEF StoresInv, AgentKept
  <2> QED BY <1>6, <2>1, <2>2 DEF StoresInv, AgentKept
<1>10. NewNamed => NewNamed'
  BY <1>6, <1>7, <1>8 DEF NewNamed
<1>11. RegisteredLast'
  <2>1. ASSUME NEW q \in Procs \ {p}
        PROVE  /\ "second" \in copy'[q]["global"] => NewNamed'
               /\ NewNamed' \/ Registers(todo'[q])
               /\ Names(todo'[q]) \/ ("agent" \in copy'[q]["config2"] /\ ~ Doing(q, "create")')
               /\ Filling(q, "config2")' => "agent" \in copy'[q]["config2"]
    <3>1. todo'[q] = todo[q] /\ copy'[q] = copy[q]
      BY <1>6
    <3>2. (Doing(q, "create")' <=> Doing(q, "create")) /\ (Filling(q, "config2")' <=> Filling(q, "config2"))
      BY <3>1 DEF Doing, Filling, Step
    <3> QED BY <1>10, <3>1, <3>2 DEF StoresInv, RegisteredLast
  <2>2. "second" \in copy'[p]["global"] => NewNamed'
    <3>1. CASE f = "global" /\ "second" \in Head(t).add
      <4>1. ~ Registers(t)
        BY <1>4, <3>1 DEF Registers
      <4> QED BY <1>2, <1>10, <4>1 DEF StoresInv, RegisteredLast
    <3>2. CASE ~ (f = "global" /\ "second" \in Head(t).add)
      BY <1>6, <1>7, <1>10, <3>2 DEF StoresInv, RegisteredLast
    <3> QED BY <3>1, <3>2
  <2>3. NewNamed' \/ Registers(todo'[p])
    BY <1>2, <1>3, <1>5, <1>10 DEF StoresInv, RegisteredLast
  <2>4. Names(todo'[p]) \/ ("agent" \in copy'[p]["config2"] /\ ~ Doing(p, "create")')
    <3>1. ~ Doing(p, "create")'
      BY <1>3, <1>5 DEF Doing
    <3>2. "agent" \in copy[p]["config2"] => "agent" \in copy'[p]["config2"]
      BY <1>4, <1>6, <1>7
    <3> QED BY <1>2, <1>3, <1>5, <3>1, <3>2 DEF StoresInv, RegisteredLast
  <2>5. ASSUME Filling(p, "config2")' PROVE "agent" \in copy'[p]["config2"]
    <3>1. f = "config2"
      BY <1>1, <1>3, <1>4, <1>5, <2>5 DEF Filling, Step
    <3>2. "agent" \in Head(t).add \/ ~ Names(t)
      BY <1>1, <1>4, <3>1 DEF Names, Makes
    <3> QED BY <1>2, <1>4, <1>6, <3>1, <3>2 DEF StoresInv, RegisteredLast
  <2>6. "second" \in disk'["global"] => NewNamed'
    <3>1. "second" \notin Torn
      BY DEF Torn
    <3> QED BY <1>6, <1>7, <1>8, <1>10, <3>1 DEF StoresInv, RegisteredLast
  <2> QED BY <2>1, <2>2, <2>3, <2>4, <2>5, <2>6 DEF RegisteredLast
<1>12. OneCreator'
  <2>1. \A q \in Procs : Mentions(todo'[q]) => Mentions(todo[q])
    BY <1>2, <1>3, <1>5, <1>6
  <2>2. \A q \in Procs : Creates(todo'[q]) => q # p /\ Creates(todo[q])
    BY <1>3, <1>5, <1>6
  <2>3. f = "config2" => Mentions(todo[p])
    BY <1>1, <1>2, <1>4 DEF Mentions
  <2>4. \A q \in Procs : Creates(todo[q]) => Mentions(todo[q])
    BY CreatorsMention DEF StoresInv, StoresTyped
  <2>5. \A q \in Procs : Creates(todo'[q]) => disk'["config2"] = {}
    BY <1>6, <1>7, <1>8, <2>2, <2>3, <2>4 DEF StoresInv, OneCreator
  <2> QED BY <2>1, <2>5 DEF StoresInv, OneCreator
<1> QED BY <1>9, <1>11, <1>12

------------------------------------------------------------------------------
(* The second half of a write. *)

\* Process p closes file f; everybody who holds it has missed what it wrote.
Closes(p, f) ==
  /\ todo[p] \in Seq(Steps) /\ todo[p] # << >> /\ Head(todo[p]).do = "fill"
  /\ Step(p) = Head(todo[p]) /\ Head(todo[p]) = todo[p][1] /\ todo[p][1] \in Steps
  /\ 1 \in 1 .. Len(todo[p]) /\ Late(todo[p])
  /\ f \in Files /\ Step(p).add \subseteq Saved /\ Step(p).del \subseteq Saved
  /\ Filling(p, f) /\ copy[p][f] # Torn /\ copy[p][f] \in Contents(f)
  /\ todo'[p] = Tail(todo[p])
  /\ Follows(todo[p], todo'[p]) /\ Passes(todo[p], todo'[p])
  /\ todo' \in [Procs -> Seq(Steps)] /\ \A q \in Procs \ {p} : todo'[q] = todo[q]
  /\ disk'[f] \in {Torn, Serialise(f, copy[p][f])} /\ \A g \in Files \ {f} : disk'[g] = disk[g]
  /\ disk' = [disk EXCEPT ![f] = disk'[f]]
  /\ acked' = [acked EXCEPT ![f] = (acked[f] \cup Step(p).add) \ Step(p).del]
  /\ risked' = [risked EXCEPT ![f] = risked[f] \cup missed[p][f]]
  /\ copy' \in [Procs -> [Files -> (SUBSET Entries) \cup {Torn}]]
  /\ \A q \in Procs \ {p} : copy'[q] = copy[q]
  /\ todo'[p] = << >> => copy'[p] = Nothing
  /\ todo'[p] # << >> => copy'[p] = copy[p] /\ missed'[p] = missed[p]
  /\ missed' \in [Holders -> [Files -> SUBSET Entries]]
  /\ \A q \in Procs \ {p} : \A g \in Files \ {f} : missed'[q][g] = missed[q][g]
  /\ \A h \in Holders \ Procs : \A g \in Files \ {f} : missed'[h][g] = missed[h][g]
  /\ \A q \in Procs \ {p} : copy[q][f] # Torn =>
       missed'[q][f] = missed[q][f] \cup Step(p).add \cup Step(p).del
  /\ \A h \in Holders \ Procs : missed'[h][f] = missed[h][f] \cup Step(p).add \cup Step(p).del
  /\ UNCHANGED <<setup, mem, budget>>

LEMMA FillDo ==
  ASSUME StoresInv, NEW p \in Procs, Fill(p), NEW f, f = Step(p).file
  PROVE  Closes(p, f)
<1>1. StoresTyped /\ todo[p] \in Seq(Steps) /\ todo[p] # << >> /\ Head(todo[p]).do = "fill" /\ Late(todo[p])
      /\ Step(p) = Head(todo[p])
  BY DEF StoresInv, StoresTyped, Programmed, Fill, Doing, Step
<1>2. Head(todo[p]) = todo[p][1] /\ todo[p][1] \in Steps /\ 1 \in 1 .. Len(todo[p])
  BY <1>1, HeadIsAStep
<1>3. f \in Files /\ Step(p).add \subseteq Saved /\ Step(p).del \subseteq Saved /\ Filling(p, f)
  BY <1>1, <1>2 DEF Steps, Filling, Doing
<1>4. copy[p][f] # Torn /\ copy[p][f] \in Contents(f)
  <2>1. Uses(todo[p][1])
    BY <1>1, <1>2 DEF Uses
  <2>2. f \in Held(p)
    BY <1>1, <1>2, <2>1 DEF StoresInv, Programmed, Supplied
  <2> QED BY <1>1, <1>3, <2>2 DEF Held, StoresTyped
<1>5. todo' = [todo EXCEPT ![p] = Tail(todo[p])] /\ UNCHANGED <<setup, mem, budget>>
      /\ acked' = [acked EXCEPT ![f] = (acked[f] \cup Step(p).add) \ Step(p).del]
      /\ risked' = [risked EXCEPT ![f] = risked[f] \cup missed[p][f]]
  BY DEF Fill, Continue
<1>6. disk'[f] \in {Torn, Serialise(f, copy[p][f])} /\ disk' = [disk EXCEPT ![f] = disk'[f]]
      /\ \A g \in Files \ {f} : disk'[g] = disk[g]
  <2>1. disk' = [disk EXCEPT ![f] = Serialise(f, copy[p][f])] \/ disk' = [disk EXCEPT ![f] = Torn]
    BY DEF Fill
  <2> QED BY <1>1, <1>3, <2>1 DEF StoresTyped
<1>7. Follows(todo[p], Tail(todo[p])) /\ Passes(todo[p], Tail(todo[p]))
  BY <1>1, TailFollows
<1>8. todo'[p] = Tail(todo[p]) /\ todo' \in [Procs -> Seq(Steps)] /\ \A q \in Procs \ {p} : todo'[q] = todo[q]
  BY <1>1, <1>5, <1>7 DEF StoresTyped, Follows
<1>9. PICK m : m = [q \in Holders |->
                      IF q = p \/ (q \in Procs /\ copy[q][f] = Torn) THEN missed[q]
                      ELSE [missed[q] EXCEPT ![f] = missed[q][f] \cup Step(p).add \cup Step(p).del]]
  OBVIOUS
<1>10. /\ copy' = [copy EXCEPT ![p] = IF todo'[p] = << >> THEN Nothing ELSE copy[p]]
       /\ missed' = [m EXCEPT ![p] = IF todo'[p] = << >> THEN Clean ELSE m[p]]
  BY <1>9 DEF Fill, Holds
<1>11. /\ m \in [Holders -> [Files -> SUBSET Entries]] /\ m[p] = missed[p] /\ p \in Holders
       /\ \A q \in Holders \ {p} : \A g \in Files \ {f} : m[q][g] = missed[q][g]
       /\ \A q \in Procs \ {p} : copy[q][f] # Torn => m[q][f] = missed[q][f] \cup Step(p).add \cup Step(p).del
       /\ \A h \in Holders \ Procs : m[h][f] = missed[h][f] \cup Step(p).add \cup Step(p).del
  <2>1. missed \in [Holders -> [Files -> SUBSET Entries]] /\ Procs \subseteq Holders
    BY <1>1 DEF StoresTyped, Holders
  <2>2. Step(p).add \subseteq Entries /\ Step(p).del \subseteq Entries
    BY <1>3 DEF Saved
  <2>3. ASSUME NEW q \in Holders
        PROVE  /\ m[q] \in [Files -> SUBSET Entries]
               /\ \A g \in Files \ {f} : m[q][g] = missed[q][g]
               /\ q # p /\ ~ (q \in Procs /\ copy[q][f] = Torn) =>
                    m[q][f] = missed[q][f] \cup Step(p).add \cup Step(p).del
               /\ q = p => m[q] = missed[q]
    <3>1. missed[q] \in [Files -> SUBSET Entries]
      BY <2>1
    <3>2. CASE q = p \/ (q \in Procs /\ copy[q][f] = Torn)
      BY <1>9, <3>1, <3>2
    <3>3. CASE ~ (q = p \/ (q \in Procs /\ copy[q][f] = Torn))
      <4>1. m[q] = [missed[q] EXCEPT ![f] = missed[q][f] \cup Step(p).add \cup Step(p).del]
        BY <1>9, <3>3
      <4> QED BY <1>3, <2>2, <3>1, <3>3, <4>1
    <3> QED BY <3>2, <3>3
  <2>4. DOMAIN m = Holders /\ m = [q \in Holders |-> m[q]]
    BY <1>9
  <2>5. m \in [Holders -> [Files -> SUBSET Entries]]
    BY <2>3, <2>4
  <2> QED BY <2>1, <2>3, <2>5
<1>12. Nothing \in [Files -> (SUBSET Entries) \cup {Torn}] /\ Clean \in [Files -> SUBSET Entries]
  BY DEF Nothing, Clean
<1>13. /\ copy' \in [Procs -> [Files -> (SUBSET Entries) \cup {Torn}]]
       /\ \A q \in Procs \ {p} : copy'[q] = copy[q]
       /\ todo'[p] = << >> => copy'[p] = Nothing
       /\ todo'[p] # << >> => copy'[p] = copy[p]
  BY <1>1, <1>10, <1>12 DEF StoresTyped
<1>14. /\ missed' \in [Holders -> [Files -> SUBSET Entries]]
       /\ \A q \in Holders \ {p} : missed'[q] = m[q]
       /\ todo'[p] # << >> => missed'[p] = missed[p]
  BY <1>10, <1>11, <1>12
<1>15. (\A q \in Procs \ {p} : q \in Holders \ {p}) /\ (\A h \in Holders \ Procs : h \in Holders \ {p})
  BY DEF Holders
<1>16. /\ \A q \in Procs \ {p} : \A g \in Files \ {f} : missed'[q][g] = missed[q][g]
       /\ \A h \in Holders \ Procs : \A g \in Files \ {f} : missed'[h][g] = missed[h][g]
       /\ \A q \in Procs \ {p} : copy[q][f] # Torn =>
            missed'[q][f] = missed[q][f] \cup Step(p).add \cup Step(p).del
       /\ \A h \in Holders \ Procs : missed'[h][f] = missed[h][f] \cup Step(p).add \cup Step(p).del
  BY <1>11, <1>14, <1>15
<1>17. /\ todo[p] \in Seq(Steps) /\ todo[p] # << >> /\ Head(todo[p]).do = "fill"
       /\ Step(p) = Head(todo[p]) /\ Head(todo[p]) = todo[p][1] /\ todo[p][1] \in Steps
       /\ 1 \in 1 .. Len(todo[p]) /\ Late(todo[p])
       /\ f \in Files /\ Step(p).add \subseteq Saved /\ Step(p).del \subseteq Saved
       /\ Filling(p, f) /\ copy[p][f] # Torn /\ copy[p][f] \in Contents(f)
       /\ todo'[p] = Tail(todo[p])
       /\ Follows(todo[p], todo'[p]) /\ Passes(todo[p], todo'[p])
  BY <1>1, <1>2, <1>3, <1>4, <1>7, <1>8
<1> QED BY <1>5, <1>6, <1>8, <1>13, <1>14, <1>16, <1>17 DEF Closes

LEMMA FillTyped ==
  ASSUME StoresInv, NEW p \in Procs, NEW f, Closes(p, f)
  PROVE  StoresTyped' /\ Programmed'
<1>1. StoresTyped'
  <2>1. \A q \in Procs : \A g \in Files : copy'[q][g] \in Contents(g)
    <3>1. \A g : Torn \in Contents(g)
      BY DEF Contents
    <3>2. copy'[p] = Nothing \/ copy'[p] = copy[p]
      BY DEF Closes
    <3>3. \A g \in Files : copy'[p][g] \in Contents(g)
      BY <3>1, <3>2 DEF StoresInv, StoresTyped, Nothing
    <3>4. \A q \in Procs \ {p} : copy'[q] = copy[q]
      BY DEF Closes
    <3> QED BY <3>3, <3>4 DEF StoresInv, StoresTyped
  <2>2. \A g \in Files : disk'[g] \in Contents(g) /\ disk'[g] \in (SUBSET Entries) \cup {Torn}
    <3>1. Torn \in Contents(f) /\ f \in Files /\ copy[p][f] \in Contents(f)
      BY DEF Contents, Closes
    <3>2. Serialise(f, copy[p][f]) \in Contents(f)
      <4>1. copy[p][f] # Torn
        BY DEF Closes
      <4> QED BY <3>1, <4>1 DEF Serialise, Contents
    <3>3. disk'[f] \in Contents(f) /\ \A g \in Files \ {f} : disk'[g] = disk[g]
      BY <3>1, <3>2 DEF Closes
    <3>4. \A g \in Files : Contents(g) \subseteq (SUBSET Entries) \cup {Torn}
      BY DEF Contents, Saved
    <3> QED BY <3>3, <3>4 DEF StoresInv, StoresTyped
  <2>3. disk' \in [Files -> (SUBSET Entries) \cup {Torn}]
    <3>1. disk' = [disk EXCEPT ![f] = disk'[f]]
      BY DEF Closes
    <3> QED BY <2>2, <3>1 DEF StoresInv, StoresTyped
  <2>4. acked' \in [Files -> SUBSET Saved] /\ risked' \in [Files -> SUBSET Entries]
    BY DEF StoresInv, StoresTyped, Closes, Holders
  <2> QED BY <2>1, <2>2, <2>3, <2>4 DEF StoresInv, StoresTyped, Closes, Contents
<1>2. Programmed'
  <2>1. ASSUME NEW q \in Procs \ {p}
        PROVE  /\ Late(todo'[q]) /\ Supplied(todo'[q], Held(q)')
               /\ Recalls(todo'[q]) => mem'.config # Torn
    <3>1. copy'[q] = copy[q] /\ todo'[q] = todo[q] /\ mem' = mem
      BY DEF Closes
    <3>2. Held(q)' = Held(q)
      BY <3>1 DEF Held
    <3> QED BY <3>1, <3>2 DEF StoresInv, Programmed
  <2>2. Late(todo'[p]) /\ (Recalls(todo'[p]) => mem'.config # Torn)
    BY DEF StoresInv, Programmed, Closes, Follows
  <2>3. Supplied(todo'[p], Held(p)')
    <3>1. CASE todo'[p] = << >>
      BY <3>1, StopSound
    <3>2. CASE todo'[p] # << >>
      <4>1. Held(p)' = Held(p)
        BY <3>2 DEF Held, Closes
      <4>2. \A g : ~ Gets(Head(todo[p]), g)
        BY DEF Closes, Gets
      <4>3. Supplied(todo[p], Held(p)) /\ Passes(todo[p], todo'[p])
        BY DEF StoresInv, Programmed, Closes
      <4> QED BY <4>1, <4>2, <4>3 DEF Passes
    <3> QED BY <3>1, <3>2
  <2> QED BY <2>1, <2>2, <2>3 DEF Programmed
<1> QED BY <1>1, <1>2

LEMMA FillLoses ==
  ASSUME StoresInv, NEW p \in Procs, NEW f, Closes(p, f)
  PROVE  LostOnlyIfOverlapped' /\ CopiesAreOld' /\ ServerIsOld'
<1>1. PICK a : a = Step(p).add
  OBVIOUS
<1>2. PICK d : d = Step(p).del
  OBVIOUS
<1>3. /\ Target(p, f) = (acked[f] \cup a) \ d /\ \A g \in Files \ {f} : Target(p, g) = acked[g]
      /\ f \in Files /\ copy[p][f] # Torn /\ a \subseteq Saved /\ d \subseteq Saved
      /\ acked'[f] = (acked[f] \cup a) \ d /\ \A g \in Files \ {f} : acked'[g] = acked[g]
      /\ risked'[f] = risked[f] \cup missed[p][f] /\ \A g \in Files \ {f} : risked'[g] = risked[g]
  <2>1. DOMAIN acked = Files /\ DOMAIN risked = Files
    BY DEF StoresInv, StoresTyped
  <2> QED BY <1>1, <1>2, <2>1 DEF Closes, Target, Filling
<1>4. Between(copy[p][f] \ LegacyEntries, acked'[f]) \subseteq risked'[f]
  BY <1>3 DEF StoresInv, CopiesAreOld
<1>5. LostOnlyIfOverlapped'
  <2>1. disk'[f] # Torn => disk'[f] \ LegacyEntries = copy[p][f] \ LegacyEntries
    BY DEF Closes, Serialise
  <2>2. \A g \in Files \ {f} : disk'[g] = disk[g]
    BY DEF Closes
  <2> QED BY <1>3, <1>4, <2>1, <2>2 DEF StoresInv, LostOnlyIfOverlapped
<1>6. ASSUME NEW q \in Procs \ {p}, NEW g \in Files, copy'[q][g] # Torn
      PROVE  Between(copy'[q][g] \ LegacyEntries, Target(q, g)') \subseteq missed'[q][g] \cup risked'[g]
  <2>1. todo'[q] = todo[q] /\ copy'[q] = copy[q]
    BY DEF Closes
  <2>2. /\ Filling(q, g)' <=> Filling(q, g)
        /\ Step(q)' = Step(q)
    BY <2>1 DEF Filling, Doing, Step
  <2>3. Between(copy[q][g] \ LegacyEntries, Target(q, g)) \subseteq missed[q][g] \cup risked[g]
    BY <1>6, <2>1 DEF StoresInv, CopiesAreOld
  <2>4. CASE g # f
    <3>1. Target(q, g)' = Target(q, g) /\ missed'[q][g] = missed[q][g] /\ risked'[g] = risked[g]
      BY <1>3, <2>2, <2>4 DEF Target, Closes
    <3> QED BY <2>1, <2>3, <3>1
  <2>5. CASE g = f
    <3>1. missed'[q][f] = missed[q][f] \cup a \cup d
      BY <1>1, <1>2, <1>6, <2>1, <2>5 DEF Closes
    <3>2. Between(Target(q, f), Target(q, f)') \subseteq a \cup d
      BY <1>3, <2>2, <2>5 DEF Target, Between
    <3> QED BY <1>3, <2>1, <2>3, <2>5, <3>1, <3>2 DEF Between
  <2> QED BY <2>4, <2>5
<1>7. ASSUME NEW g \in Files, copy'[p][g] # Torn
      PROVE  Between(copy'[p][g] \ LegacyEntries, Target(p, g)') \subseteq missed'[p][g] \cup risked'[g]
  <2>1. todo'[p] # << >>
    BY <1>7 DEF Closes, Nothing
  <2>2. copy'[p] = copy[p] /\ missed'[p] = missed[p] /\ ~ Doing(p, "fill")'
    BY <2>1 DEF Closes, Follows, Doing
  <2>3. Target(p, g)' = acked'[g] /\ Target(p, g) = acked'[g]
    BY <1>3, <2>2 DEF Target, Filling
  <2>4. Between(copy[p][g] \ LegacyEntries, Target(p, g)) \subseteq missed[p][g] \cup risked[g]
    BY <1>7, <2>2 DEF StoresInv, CopiesAreOld
  <2>5. risked[g] \subseteq risked'[g]
    BY <1>3
  <2> QED BY <2>2, <2>3, <2>4, <2>5
<1>8. CopiesAreOld'
  BY <1>6, <1>7 DEF CopiesAreOld
<1>9. ServerIsOld'
  <2>1. mem' = mem
    BY DEF Closes
  <2>3. \A g \in Files : Between(acked[g], acked'[g]) \subseteq IF g = f THEN a \cup d ELSE {}
    BY <1>3 DEF Between
  <2>4. "launched" \in Holders \ Procs /\ "config" \in Files
    BY BoundsAssumption DEF Holders, Procs, Files
  <2>5. \A h \in Holders \ Procs : \A g \in Files :
          missed[h][g] \cup (IF g = f THEN a \cup d ELSE {}) \subseteq missed'[h][g]
    BY <1>1, <1>2 DEF Closes
  <2>6. \A g \in Files : risked[g] \subseteq risked'[g]
    BY <1>3
  <2>7. Between(acked["config"], acked'["config"]) \cup missed["launched"]["config"] \cup risked["config"]
          \subseteq missed'["launched"]["config"] \cup risked'["config"]
    BY <2>3, <2>4, <2>5, <2>6
  <2> QED BY <2>1, <2>7 DEF StoresInv, ServerIsOld, Between
<1> QED BY <1>5, <1>8, <1>9

LEMMA FillNames ==
  ASSUME StoresInv, NEW p \in Procs, NEW f, Closes(p, f)
  PROVE  AgentKept' /\ RegisteredLast' /\ OneCreator'
<1>1. "config" \in Files /\ "config2" \in Files /\ "global" \in Files
      /\ "second" \notin Torn /\ "agent" \notin Torn
  BY DEF Files, Torn
<1>2. /\ f \in Files /\ disk'[f] \in {Torn, Serialise(f, copy[p][f])} /\ copy[p][f] # Torn
      /\ \A g \in Files \ {f} : disk'[g] = disk[g]
      /\ mem' = mem /\ \A q \in Procs \ {p} : copy'[q] = copy[q] /\ todo'[q] = todo[q]
      /\ copy'[p] \in {Nothing, copy[p]} /\ (todo'[p] # << >> => copy'[p] = copy[p])
  BY DEF Closes
<1>3. AgentKept'
  <2>1. "agent" \in disk'["config"] \/ disk'["config"] = Torn
    BY <1>1, <1>2 DEF StoresInv, AgentKept, Serialise, LegacyEntries
  <2>2. "agent" \in copy'[p]["config"] \/ copy'[p]["config"] = Torn
    BY <1>1, <1>2 DEF StoresInv, AgentKept, Nothing
  <2> QED BY <1>2, <2>1, <2>2 DEF StoresInv, AgentKept
<1>4. f = "config2" => NewNamed'
  <2> SUFFICES ASSUME f = "config2" PROVE NewNamed'
    OBVIOUS
  <2>1. "agent" \in copy[p]["config2"]
    BY DEF StoresInv, RegisteredLast, Closes
  <2> QED BY <1>2, <2>1 DEF NewNamed, Serialise
<1>5. NewNamed => NewNamed'
  BY <1>1, <1>2, <1>4 DEF NewNamed
<1>6. RegisteredLast'
  <2>1. ASSUME NEW q \in Procs \ {p}
        PROVE  /\ "second" \in copy'[q]["global"] => NewNamed'
               /\ NewNamed' \/ Registers(todo'[q])
               /\ Names(todo'[q]) \/ ("agent" \in copy'[q]["config2"] /\ ~ Doing(q, "create")')
               /\ Filling(q, "config2")' => "agent" \in copy'[q]["config2"]
    <3>1. todo'[q] = todo[q] /\ copy'[q] = copy[q]
      BY <1>2
    <3>2. (Doing(q, "create")' <=> Doing(q, "create")) /\ (Filling(q, "config2")' <=> Filling(q, "config2"))
      BY <3>1 DEF Doing, Filling, Step
    <3> QED BY <1>5, <3>1, <3>2 DEF StoresInv, RegisteredLast
  <2>2. "second" \in copy'[p]["global"] => NewNamed'
    BY <1>1, <1>2, <1>5 DEF StoresInv, RegisteredLast, Nothing
  <2>3. NewNamed' \/ Registers(todo'[p])
    <3>1. CASE f = "config2"
      BY <1>4, <3>1
    <3>2. CASE f # "config2"
      <4>1. ~ Makes(Head(todo[p]))
        BY <3>2 DEF Makes, Closes, Filling
      <4> QED BY <1>5, <4>1 DEF StoresInv, RegisteredLast, Closes, Follows
    <3> QED BY <3>1, <3>2
  <2>4. Names(todo'[p]) \/ ("agent" \in copy'[p]["config2"] /\ ~ Doing(p, "create")')
    <3>1. ~ Doing(p, "create")'
      BY DEF Closes, Follows, Doing
    <3>2. CASE todo'[p] = << >>
      BY <3>2, StopSound
    <3>3. CASE todo'[p] # << >>
      <4>1. ~ Rereads(Head(todo[p]))
        BY DEF Rereads, Closes
      <4>2. Names(todo[p]) => Names(todo'[p])
        BY <4>1 DEF Closes, Follows
      <4> QED BY <1>2, <3>1, <3>3, <4>2 DEF StoresInv, RegisteredLast
    <3> QED BY <3>2, <3>3
  <2>5. ~ Filling(p, "config2")'
    BY DEF Closes, Follows, Filling, Doing
  <2>6. "second" \in disk'["global"] => NewNamed'
    BY <1>1, <1>2, <1>5 DEF StoresInv, RegisteredLast, Serialise
  <2> QED BY <2>1, <2>2, <2>3, <2>4, <2>5, <2>6 DEF RegisteredLast
<1>7. OneCreator'
  <2>1. \A q \in Procs : Mentions(todo'[q]) => Mentions(todo[q])
    BY <1>2 DEF Closes, Follows
  <2>2. \A q \in Procs : Creates(todo'[q]) => q # p /\ Creates(todo[q])
    BY <1>2 DEF Closes, Follows
  <2>3. f = "config2" => Mentions(todo[p])
    BY DEF Mentions, Closes, Filling
  <2>4. \A q \in Procs : Creates(todo[q]) => Mentions(todo[q])
    BY CreatorsMention DEF StoresInv, StoresTyped
  <2>5. \A q \in Procs : Creates(todo'[q]) => disk'["config2"] = {}
    BY <1>1, <1>2, <2>2, <2>3, <2>4 DEF StoresInv, OneCreator
  <2> QED BY <2>1, <2>5 DEF StoresInv, OneCreator
<1> QED BY <1>3, <1>6, <1>7

------------------------------------------------------------------------------
(* The legacy key. *)

LEMMA OnlyBootStarts ==
  ASSUME StoresInv, Starting, NEW p \in Procs, todo[p] # << >>
  PROVE  p = "boot" /\ Head(todo[p]) = todo["boot"][1]
         /\ Head(todo[p]).do \in {"load", "truncate", "fill", "migrate"}
<1>1. p = "boot"
  BY DEF Starting
<1>2. todo[p] \in Seq(Steps)
  BY DEF StoresInv, StoresTyped
<1>3. Head(todo[p]) = todo[p][1]
  BY <1>2, HeadIsAStep
<1> QED BY <1>1, <1>3 DEF Starting, Is, Writing

LEMMA KeyStays ==
  ASSUME StoresInv, NEW p \in Procs, ProgramStep(p), "openai" \in acked["keys"]
  PROVE  "openai" \in acked'["keys"]
<1>1. CASE Fill(p)
  <2>1. PICK f : f = Step(p).file /\ Closes(p, f)
    BY <1>1, FillDo
  <2>2. acked' = [acked EXCEPT ![f] = (acked[f] \cup Step(p).add) \ Step(p).del] /\ "openai" \notin Step(p).del
    BY <2>1 DEF Closes, Steps
  <2>3. DOMAIN acked = Files /\ "keys" \in Files
    BY DEF StoresInv, StoresTyped, Files
  <2> QED BY <2>2, <2>3
<1>2. CASE ~ Fill(p)
  <2>1. acked' = acked
    BY <1>2 DEF ProgramStep, LoadStep, PeekStep, CreateStep, NeedStep, Truncate, KeepStep, ShareStep, RecallStep,
                MigrateStep
  <2> QED BY <2>1
<1> QED BY <1>1, <1>2

LEMMA LoadStarts ==
  ASSUME StoresInv, Starting, NEW p \in Procs, LoadStep(p)
  PROVE  Starting'
<1>1. Goes(p)
  BY LoadGoes
<1>2. todo[p] # << >> /\ Head(todo[p]).do = "load"
  BY DEF LoadStep, Doing
<1>3. p = "boot" /\ Head(todo[p]) = todo["boot"][1]
  BY <1>2, OnlyBootStarts
<1>4. PICK t : t = todo["boot"]
  OBVIOUS
<1>5. t \in Seq(Steps) /\ t # << >> /\ "boot" \in Procs /\ Step(p) = t[1]
  BY <1>2, <1>3, <1>4 DEF StoresInv, StoresTyped, Step
<1>6. disk' = disk /\ \A q \in Procs \ {"boot"} : todo'[q] = << >>
  BY <1>1, <1>3, GoesDo DEF Goes, Starting, StoresInv
<1>7. "old" \notin Torn /\ {} # Torn /\ "legacy" \notin Torn /\ "config" \in Files /\ "keys" \in Files
  BY DEF Torn, Files
<1>8. DOMAIN todo = Procs /\ DOMAIN copy = Procs /\ \A q \in Procs : DOMAIN copy[q] = Files
  BY DEF StoresInv, StoresTyped
<1>9. CASE Len(t) > 2 /\ Is(t[1], "load", "config") /\ Is(t[2], "load", "keys") /\ Is(t[3], "migrate", "keys")
           /\ {"old", "legacy"} \subseteq disk["config"] /\ disk["keys"] = {}
  <2>1. disk["config"] # Torn /\ "old" \in disk["config"] /\ Step(p).file = "config"
    BY <1>5, <1>7, <1>9 DEF Is
  <2>2. PICK c, m, v :
          /\ Holds(p, c, m) /\ c = [copy EXCEPT !["boot"]["config"] = disk["config"] \ {"old"}]
          /\ todo' = [todo EXCEPT !["boot"] = v] /\ v = Save("config", {}, {}) \o Tail(t)
    BY <1>3, <1>4, <2>1 DEF LoadStep
  <2>3. Tail(t) \in Seq(Steps) /\ Len(Tail(t)) = Len(t) - 1 /\ Tail(t)[1] = t[2] /\ Tail(t)[2] = t[3]
        /\ Len(t) \in Nat
    BY <1>5, <1>9
  <2>4. /\ v # << >> /\ Len(v) = Len(t) /\ v[2] = t[2] /\ v[3] = t[3]
        /\ Writing(v[1], "config") /\ v[1].del = {}
    <3>1. Follows(t, Tail(t))
      BY <1>5, TailFollows, <1>4 DEF StoresInv, Programmed
    <3>2. {} \in SUBSET Saved /\ "second" \notin {} /\ "config" \in Files \ {"config2"}
      BY DEF Files
    <3>3. Puts(v, Tail(t), "config", {})
      BY <2>2, <2>3, <3>1, <3>2, PutFollows
    <3>4. 1 \in 1 .. Len(Tail(t)) /\ 2 \in 1 .. Len(Tail(t)) /\ 1 + 1 = 2 /\ 2 + 1 = 3
      BY <1>9, <2>3
    <3>5. v[1 + 1] = t[2] /\ v[2 + 1] = t[3]
      BY <2>3, <3>3, <3>4 DEF Puts
    <3> QED BY <2>3, <3>3, <3>4, <3>5 DEF Puts
  <2>5. todo'["boot"] = v
    BY <1>5, <1>8, <2>2
  <2>6. copy'["boot"]["config"] = disk["config"] \ {"old"}
    BY <1>3, <1>5, <1>7, <1>8, <2>2, <2>4, <2>5 DEF Holds
  <2> QED BY <1>6, <1>9, <2>4, <2>5, <2>6 DEF Starting
<1>10. CASE Len(t) > 1 /\ Is(t[1], "load", "keys") /\ Is(t[2], "migrate", "keys")
            /\ "legacy" \in copy["boot"]["config"] /\ disk["keys"] = {}
  <2>1. disk["keys"] # Torn /\ "old" \notin disk["keys"] /\ Step(p).file = "keys"
    BY <1>5, <1>7, <1>10 DEF Is
  <2>2. PICK c, m :
          /\ Holds(p, c, m) /\ c = [copy EXCEPT !["boot"]["keys"] = disk["keys"]]
          /\ todo' = [todo EXCEPT !["boot"] = Tail(t)]
    BY <1>3, <1>4, <2>1 DEF LoadStep, Continue
  <2>3. Tail(t) \in Seq(Steps) /\ Len(Tail(t)) = Len(t) - 1 /\ Tail(t)[1] = t[2] /\ Len(t) \in Nat /\ Tail(t) # << >>
    BY <1>5, <1>10
  <2>4. todo'["boot"] = Tail(t)
    BY <1>5, <1>8, <2>2
  <2>5. copy'["boot"]["config"] = copy["boot"]["config"] /\ copy'["boot"]["keys"] = {}
    BY <1>3, <1>5, <1>7, <1>8, <1>10, <2>2, <2>3, <2>4 DEF Holds
  <2> QED BY <1>6, <1>10, <2>3, <2>4, <2>5 DEF Starting
<1> QED BY <1>2, <1>3, <1>4, <1>9, <1>10 DEF Starting, Is, Writing

LEMMA MigrateStarts ==
  ASSUME StoresInv, Starting, NEW p \in Procs, MigrateStep(p)
  PROVE  Starting'
<1>1. Goes(p)
  BY MigrateGoes
<1>2. todo[p] # << >> /\ Head(todo[p]).do = "migrate"
  BY DEF MigrateStep, Doing
<1>3. p = "boot" /\ Head(todo[p]) = todo["boot"][1]
  BY <1>2, OnlyBootStarts
<1>4. PICK t : t = todo["boot"]
  OBVIOUS
<1>5. t \in Seq(Steps) /\ t # << >> /\ DOMAIN todo = Procs /\ Late(t)
  BY <1>2, <1>3, <1>4 DEF StoresInv, StoresTyped, Programmed
<1>6. \A q \in Procs \ {"boot"} : todo'[q] = << >>
  BY <1>1, <1>3, GoesDo DEF Starting, StoresInv
<1>7. "legacy" \in copy["boot"]["config"] /\ "openai" \notin copy["boot"]["keys"]
  BY <1>2, <1>3, <1>4 DEF Starting, Is, Writing
<1>8. PICK v : v = todo'["boot"]
  OBVIOUS
<1>9. Follows(t, Tail(t)) /\ Tail(t) \in Seq(Steps)
  BY <1>5, TailFollows
<1>10. {} \in SUBSET Saved /\ {"openai"} \in SUBSET Saved /\ "second" \notin {} /\ "second" \notin {"openai"}
       /\ "config" \in Files \ {"config2"} /\ "keys" \in Files \ {"config2"}
  BY DEF Saved, Entries, LegacyEntries, Files
<1>11. PICK w : w = Save("config", {}, {}) \o Tail(t)
  OBVIOUS
<1>12. Follows(t, w)
  BY <1>9, <1>10, <1>11, PutFollows
<1>13. w \in Seq(Steps)
  BY <1>12 DEF Follows
<1>14. v = Save("keys", {"openai"}, {}) \o w
  <2>1. v = Save("keys", {"openai"}, {}) \o Save("config", {}, {}) \o Tail(t)
    BY <1>3, <1>4, <1>5, <1>7, <1>8 DEF MigrateStep
  <2> QED BY <1>9, <1>11, <2>1 DEF Save
<1>15. v # << >> /\ Len(v) = Len(w) + 1 /\ Writing(v[1], "keys") /\ v[1].add = {"openai"}
  BY <1>10, <1>12, <1>13, <1>14, PutFollows DEF Puts
<1>16. Len(v) > 0
  BY <1>13, <1>15
<1> QED BY <1>6, <1>8, <1>15, <1>16 DEF Starting

LEMMA TruncateStarts ==
  ASSUME StoresInv, Starting, NEW p \in Procs, Truncate(p)
  PROVE  Starting'
<1>1. PICK f : f = Step(p).file /\ Opens(p, f)
  BY TruncateDo
<1>2. todo[p] # << >> /\ Head(todo[p]).do = "truncate"
  BY <1>1 DEF Opens
<1>3. p = "boot" /\ Head(todo[p]) = todo["boot"][1]
  BY <1>2, OnlyBootStarts
<1>4. PICK t : t = todo["boot"]
  OBVIOUS
<1>5. PICK u : u = todo'["boot"]
  OBVIOUS
<1>6. t \in Seq(Steps) /\ t # << >> /\ Step(p) = t[1] /\ t[1].do = "truncate"
      /\ u = [t EXCEPT ![1].do = "fill"] /\ f = t[1].file /\ t[1] \in Steps
  BY <1>1, <1>3, <1>4, <1>5 DEF Opens
<1>7. /\ Len(u) = Len(t) /\ Len(t) \in Nat \ {0} /\ \A i \in 2 .. Len(t) : u[i] = t[i]
      /\ u[1] = [t[1] EXCEPT !.do = "fill"]
  BY <1>6
<1>8. u[1].do = "fill" /\ u[1].file = t[1].file /\ u[1].add = t[1].add /\ u[1].del = t[1].del
  <2>1. t[1] \in [do : StepKinds, file : Files \cup {"accounts"}, add : SUBSET Saved, del : SUBSET Saved]
    BY <1>6 DEF Steps
  <2> QED BY <1>7, <2>1
<1>9. \A q \in Procs \ {"boot"} : todo'[q] = << >>
  BY <1>1, <1>3 DEF Starting, Opens
<1>10. CASE Len(t) > 2 /\ Writing(t[1], "config") /\ Is(t[2], "load", "keys") /\ Is(t[3], "migrate", "keys")
            /\ t[1].del = {} /\ "legacy" \in copy["boot"]["config"] /\ disk["keys"] = {}
  <2>1. 2 \in 2 .. Len(t) /\ 3 \in 2 .. Len(t)
    BY <1>7, <1>10
  <2>2. f = "config" /\ "keys" \in Files \ {f}
    BY <1>6, <1>10 DEF Writing, Files
  <2>3. disk'["keys"] = {}
    BY <1>1, <1>10, <2>2 DEF Opens, StoresInv, StoresTyped
  <2>4. "legacy" \in copy'["boot"]["config"]
    BY <1>1, <1>3, <1>6, <1>10, <2>2 DEF Opens
  <2>5. Writing(u[1], "config") /\ u[2] = t[2] /\ u[3] = t[3] /\ Len(u) > 2 /\ u[1].del = {}
    BY <1>7, <1>8, <1>10, <2>1 DEF Writing
  <2> QED BY <1>5, <1>9, <1>10, <2>3, <2>4, <2>5 DEF Starting
<1>11. CASE Len(t) > 0 /\ Writing(t[1], "keys") /\ "openai" \in t[1].add
  <2>1. Len(u) > 0 /\ Writing(u[1], "keys") /\ "openai" \in u[1].add
    BY <1>7, <1>8, <1>11 DEF Writing
  <2> QED BY <1>5, <1>9, <2>1 DEF Starting
<1> QED BY <1>4, <1>6, <1>10, <1>11 DEF Starting, Is

LEMMA FillStarts ==
  ASSUME StoresInv, Starting, NEW p \in Procs, Fill(p)
  PROVE  "openai" \in acked'["keys"] \/ Starting'
<1>1. PICK f : f = Step(p).file /\ Closes(p, f)
  BY FillDo
<1>2. todo[p] # << >> /\ Head(todo[p]).do = "fill"
  BY <1>1 DEF Closes
<1>3. p = "boot" /\ Head(todo[p]) = todo["boot"][1]
  BY <1>2, OnlyBootStarts
<1>4. PICK t : t = todo["boot"]
  OBVIOUS
<1>5. t \in Seq(Steps) /\ t # << >> /\ Step(p) = t[1] /\ t[1].do = "fill" /\ f = t[1].file /\ t[1] \in Steps
      /\ todo'["boot"] = Tail(t)
  BY <1>1, <1>3, <1>4 DEF Closes
<1>6. \A q \in Procs \ {"boot"} : todo'[q] = << >>
  BY <1>1, <1>3 DEF Starting, Closes
<1>7. CASE Len(t) > 2 /\ Writing(t[1], "config") /\ Is(t[2], "load", "keys") /\ Is(t[3], "migrate", "keys")
           /\ "legacy" \in copy["boot"]["config"] /\ disk["keys"] = {}
  <2>1. Len(Tail(t)) > 1 /\ Tail(t)[1] = t[2] /\ Tail(t)[2] = t[3] /\ Tail(t) # << >>
    <3>1. t \in Seq(Steps) /\ t # << >> /\ Len(t) \in Nat /\ Len(t) > 2
      BY <1>5, <1>7
    <3>2. Tail(t) \in Seq(Steps) /\ Len(Tail(t)) = Len(t) - 1
      BY <3>1
    <3>3. \A i \in 1 .. Len(t) - 1 : Tail(t)[i] = t[i + 1]
      BY <3>1
    <3>4. Tail(t)[1] = t[2] /\ Tail(t)[2] = t[3]
      BY <3>1, <3>3
    <3>5. Len(Tail(t)) > 1
      BY <3>1, <3>2
    <3>6. \A u \in Seq(Steps) : Len(u) > 1 => u # << >>
      OBVIOUS
    <3> QED BY <3>2, <3>4, <3>5, <3>6
  <2>2. f = "config" /\ "keys" \in Files \ {f}
    BY <1>5, <1>7 DEF Writing, Files
  <2>3. disk'["keys"] = {} /\ copy'["boot"] = copy["boot"]
    BY <1>1, <1>3, <1>5, <1>7, <2>1, <2>2 DEF Closes
  <2> QED BY <1>5, <1>6, <1>7, <2>1, <2>3 DEF Starting
<1>8. CASE Writing(t[1], "keys") /\ "openai" \in t[1].add
  <2>1. f = "keys" /\ "openai" \notin t[1].del
    BY <1>5, <1>8 DEF Writing, Steps
  <2>2. acked' = [acked EXCEPT ![f] = (acked[f] \cup t[1].add) \ t[1].del] /\ DOMAIN acked = Files /\ f \in Files
    BY <1>1, <1>5 DEF Closes, StoresInv, StoresTyped
  <2> QED BY <1>8, <2>1, <2>2
<1> QED BY <1>4, <1>5, <1>7, <1>8 DEF Starting, Is

LEMMA KeyMoves ==
  ASSUME StoresInv, NEW p \in Procs, ProgramStep(p)
  PROVE  KeyOnItsWay'
<1>1. setup' = setup /\ budget' = budget
  BY DEF ProgramStep, LoadStep, PeekStep, CreateStep, NeedStep, Truncate, Fill, KeepStep, ShareStep, RecallStep,
         MigrateStep
<1>2. ASSUME Starting PROVE "openai" \in acked'["keys"] \/ Starting'
  <2>1. todo[p] # << >> /\ Head(todo[p]).do \in {"load", "truncate", "fill", "migrate"}
    <3>1. todo[p] # << >>
      BY DEF ProgramStep, LoadStep, PeekStep, CreateStep, NeedStep, Truncate, Fill, KeepStep, ShareStep, RecallStep,
             MigrateStep, Doing
    <3> QED BY <1>2, <3>1, OnlyBootStarts
  <2>2. LoadStep(p) \/ MigrateStep(p) \/ Truncate(p) \/ Fill(p)
    BY <2>1 DEF ProgramStep, PeekStep, CreateStep, NeedStep, KeepStep, ShareStep, RecallStep, Doing
  <2> QED BY <1>2, <2>2, LoadStarts, MigrateStarts, TruncateStarts, FillStarts
<1>3. "openai" \in acked["keys"] => "openai" \in acked'["keys"]
  BY KeyStays
<1> QED BY <1>1, <1>2, <1>3 DEF StoresInv, KeyOnItsWay

------------------------------------------------------------------------------
(* The invariant. *)

\* A step that writes no file and keeps nothing is one its process alone knows of.
LEMMA NobodyElseMisses ==
  ASSUME StoresTyped, NEW p \in Procs, NEW h \in Holders \ Procs,
         LoadStep(p) \/ PeekStep(p) \/ CreateStep(p) \/ NeedStep(p) \/ RecallStep(p) \/ MigrateStep(p)
  PROVE  missed'[h] = missed[h]
<1>1. h # p /\ h \in Holders /\ DOMAIN missed = Holders
  BY DEF StoresTyped
<1>2. ASSUME NEW c, NEW f, NEW x, Holds(p, c, [missed EXCEPT ![p][f] = x])
      PROVE  missed'[h] = missed[h]
  <2>1. PICK m : m = [missed EXCEPT ![p][f] = x]
    OBVIOUS
  <2>2. missed' = [m EXCEPT ![p] = IF todo'[p] = << >> THEN Clean ELSE m[p]]
    BY <1>2, <2>1 DEF Holds
  <2>3. DOMAIN m = Holders /\ m[h] = missed[h]
    BY <1>1, <2>1
  <2> QED BY <1>1, <2>2, <2>3
<1>3. CASE LoadStep(p)
  <2>1. \E c, f, x : Holds(p, c, [missed EXCEPT ![p][f] = x])
    BY <1>3 DEF LoadStep
  <2> QED BY <1>2, <2>1
<1>4. CASE CreateStep(p)
  <2>1. \E c, f, x : Holds(p, c, [missed EXCEPT ![p][f] = x])
    BY <1>4 DEF CreateStep
  <2> QED BY <1>2, <2>1
<1>5. CASE RecallStep(p)
  <2>1. \E c, f, x : Holds(p, c, [missed EXCEPT ![p][f] = x])
    BY <1>5 DEF RecallStep
  <2> QED BY <1>2, <2>1
<1>6. CASE NeedStep(p)
  BY <1>1, <1>6 DEF NeedStep, Holds
<1>7. CASE PeekStep(p) \/ MigrateStep(p)
  BY <1>7 DEF PeekStep, MigrateStep
<1> QED BY <1>3, <1>4, <1>5, <1>6, <1>7

LEMMA StepKeeps ==
  ASSUME StoresInv, NEW p \in Procs, ProgramStep(p)
  PROVE  StoresInv'
<1>1. /\ StoresTyped /\ Programmed /\ LostOnlyIfOverlapped /\ CopiesAreOld /\ ServerIsOld
      /\ AgentKept /\ RegisteredLast /\ OneCreator
  BY DEF StoresInv
<1>2. KeyOnItsWay'
  BY KeyMoves
<1>3. CASE Truncate(p)
  BY <1>2, <1>3, TruncateTyped, TruncateNames DEF StoresInv
<1>4. CASE Fill(p)
  <2>1. PICK f : f = Step(p).file /\ Closes(p, f)
    BY <1>4, FillDo
  <2> QED BY <1>2, <2>1, FillTyped, FillLoses, FillNames DEF StoresInv
<1>5. ASSUME Goes(p),
             DOMAIN mem' = DOMAIN mem, mem'.config \in Contents("config"),
             mem.config # Torn => mem'.config # Torn,
             "agent" \in mem'.config \/ mem'.config = Torn,
             ServerIsOld'
      PROVE  StoresInv'
  <2>1. DOMAIN mem' = {"keys", "secrets", "accounts", "config"}
    BY <1>1, <1>5 DEF StoresTyped
  <2>2. StoresTyped'
    BY <1>1, <1>5, <2>1, GoesTyped
  <2>3. Programmed'
    BY <1>1, <1>5, GoesProgrammed
  <2>4. LostOnlyIfOverlapped' /\ CopiesAreOld'
    BY <1>1, <1>5, GoesLoses
  <2>5. AgentKept' /\ RegisteredLast' /\ OneCreator'
    BY <1>1, <1>5, GoesNames
  <2> QED BY <1>2, <1>5, <2>2, <2>3, <2>4, <2>5 DEF StoresInv
<1>6. mem.config \in Contents("config") /\ ("agent" \in mem.config \/ mem.config = Torn)
  BY <1>1 DEF StoresTyped, AgentKept
<1>7. CASE KeepStep(p)
  <2>1. /\ Goes(p) /\ DOMAIN mem' = DOMAIN mem
        /\ Step(p).file = "config" =>
              missed'["launched"]["config"] = missed[p]["config"] /\ mem'.config = copy[p]["config"]
        /\ Step(p).file # "config" => missed'["launched"] = missed["launched"] /\ mem'.config = mem.config
    BY <1>1, <1>7, KeepGoes
  <2>2. todo[p] \in Seq(Steps) /\ todo[p] # << >> /\ Head(todo[p]).do = "keep" /\ Step(p) = Head(todo[p])
    BY <1>1, <1>7 DEF StoresTyped, KeepStep, Doing, Step
  <2>3. Head(todo[p]) = todo[p][1] /\ 1 \in 1 .. Len(todo[p]) /\ todo[p][1] \in Steps
    BY <2>2, HeadIsAStep
  <2>4. Step(p).file \in {"config", "keys", "secrets"} => copy[p][Step(p).file] # Torn
    BY <1>1, <2>2, <2>3 DEF Programmed, Supplied, Uses, Held
  <2>5. \A f \in Files : Target(p, f) = acked[f]
    BY <2>1, <1>1, GoesDo
  <2>6. "config" \in Files
    BY DEF Files
  <2>7. /\ Step(p).file = "config" =>
             /\ mem'.config # Torn /\ mem'.config \in Contents("config") /\ "agent" \in mem'.config
             /\ Between(mem'.config \ LegacyEntries, acked["config"])
                  \subseteq missed'["launched"]["config"] \cup risked["config"]
    BY <1>1, <2>1, <2>4, <2>5, <2>6 DEF CopiesAreOld, AgentKept, StoresTyped
  <2>8. ServerIsOld'
    <3>1. \/ mem'.config = mem.config /\ missed'["launched"] = missed["launched"]
          \/ Between(mem'.config \ LegacyEntries, acked["config"])
               \subseteq missed'["launched"]["config"] \cup risked["config"]
      BY <2>1, <2>7
    <3> QED BY <1>1, <2>1, <3>1, GoesServed
  <2> QED BY <1>5, <1>6, <2>1, <2>7, <2>8
<1>8. CASE LoadStep(p) \/ PeekStep(p) \/ CreateStep(p) \/ NeedStep(p) \/ RecallStep(p) \/ MigrateStep(p)
  <2>1. Goes(p)
    BY <1>1, <1>8, LoadGoes, PeekGoes, CreateGoes, NeedGoes, RecallGoes, MigrateGoes
  <2>2. mem' = mem
    BY <1>8 DEF LoadStep, PeekStep, CreateStep, NeedStep, RecallStep, MigrateStep
  <2>3. missed'["launched"] = missed["launched"]
    <3>1. "launched" \in Holders \ Procs
      BY BoundsAssumption DEF Procs, Holders
    <3> QED BY <1>1, <1>8, <3>1, NobodyElseMisses
  <2>4. ServerIsOld'
    BY <1>1, <2>1, <2>2, <2>3, GoesServed
  <2> QED BY <1>5, <1>6, <2>1, <2>2, <2>4
<1>9. CASE ShareStep(p)
  <2>1. Goes(p)
    BY <1>1, <1>9, ShareGoes
  <2>2. todo[p] \in Seq(Steps) /\ todo[p] # << >> /\ Head(todo[p]).do = "share" /\ Step(p) = Head(todo[p])
    BY <1>1, <1>9 DEF StoresTyped, ShareStep, Doing, Step
  <2>3. Step(p).file \in {"accounts", "secrets"}
    BY <2>2, HeadIsAStep DEF Steps
  <2>4. mem'.config = mem.config /\ DOMAIN mem' = DOMAIN mem
    <3>1. mem' = [mem EXCEPT ![Step(p).file] = mem[Step(p).file] \cup Step(p).add]
      BY <1>9 DEF ShareStep
    <3> QED BY <1>1, <2>3, <3>1 DEF StoresTyped
  <2>5. missed'["launched"] = missed["launched"]
    <3>1. "launched" # p /\ "launched" \in Holders
      BY BoundsAssumption DEF Procs, Holders
    <3>2. missed' = [missed EXCEPT ![p] = IF todo'[p] = << >> THEN Clean ELSE missed[p]]
      BY <1>9 DEF ShareStep, Holds
    <3> QED BY <1>1, <3>1, <3>2 DEF StoresTyped
  <2>6. ServerIsOld'
    BY <1>1, <2>1, <2>4, <2>5, GoesServed
  <2> QED BY <1>5, <1>6, <2>1, <2>4, <2>6
<1> QED BY <1>3, <1>4, <1>7, <1>8, <1>9 DEF ProgramStep

\* A process that does nothing begins a program.
LEMMA BeginKeeps ==
  ASSUME StoresInv, NEW p \in Procs \ {"boot"}, NEW t, Begin(p, t), Sound(t),
         Recalls(t) => mem.config # Torn,
         Mentions(t) => p \in Handlers /\ disk["config2"] = {} /\ \A q \in Procs : ~ Mentions(todo[q]),
         budget' \in [requests : Nat, crashes : Nat], budget'.crashes = budget.crashes
  PROVE  StoresInv'
<1>1. /\ t \in Seq(Steps) /\ Late(t) /\ Supplied(t, {}) /\ Registers(t) /\ Names(t)
      /\ (t # << >> => t[1].do # "fill")
  BY DEF Sound
<1>2. /\ todo["boot"] = << >> /\ todo[p] = << >> /\ todo' = [todo EXCEPT ![p] = t]
      /\ UNCHANGED <<setup, disk, copy, over, mem, acked, missed, risked>>
  BY DEF Begin, Up
<1>3. /\ todo' \in [Procs -> Seq(Steps)] /\ todo'[p] = t /\ \A q \in Procs \ {p} : todo'[q] = todo[q]
  BY <1>1, <1>2 DEF StoresInv, StoresTyped
<1>4. ~ Doing(p, "fill") /\ ~ Doing(p, "fill")'
  <2>1. t # << >> => Head(t) = t[1]
    BY <1>1
  <2> QED BY <1>1, <1>2, <1>3, <2>1 DEF Doing
<1>5. \A q \in Procs, f \in Files : Target(q, f)' = Target(q, f)
  BY <1>2, <1>3, <1>4 DEF Target, Filling, Doing, Step
<1>6. StoresTyped'
  BY <1>2, <1>3 DEF StoresInv, StoresTyped, Contents
<1>7. Programmed'
  <2>1. \A q \in Procs : Held(q)' = Held(q)
    BY <1>2 DEF Held
  <2>2. Supplied(t, Held(p))
    BY <1>1 DEF Supplied
  <2> QED BY <1>1, <1>2, <1>3, <2>1, <2>2 DEF StoresInv, Programmed
<1>8. LostOnlyIfOverlapped'
  BY <1>2 DEF StoresInv, LostOnlyIfOverlapped
<1>9. CopiesAreOld'
  BY <1>2, <1>5 DEF StoresInv, CopiesAreOld
<1>10. ServerIsOld'
  BY <1>2, <1>3 DEF StoresInv, ServerIsOld, Procs
<1>11. AgentKept'
  BY <1>2 DEF StoresInv, AgentKept
<1>12. RegisteredLast'
  <2>1. NewNamed' <=> NewNamed
    BY <1>2 DEF NewNamed
  <2>2. ASSUME NEW q \in Procs \ {p}
        PROVE  /\ "second" \in copy'[q]["global"] => NewNamed'
               /\ NewNamed' \/ Registers(todo'[q])
               /\ Names(todo'[q]) \/ ("agent" \in copy'[q]["config2"] /\ ~ Doing(q, "create")')
               /\ Filling(q, "config2")' => "agent" \in copy'[q]["config2"]
    <3>1. (Doing(q, "create")' <=> Doing(q, "create")) /\ (Filling(q, "config2")' <=> Filling(q, "config2"))
      BY <1>3 DEF Doing, Filling, Step
    <3> QED BY <1>2, <1>3, <2>1, <3>1 DEF StoresInv, RegisteredLast
  <2>3. /\ "second" \in copy'[p]["global"] => NewNamed'
        /\ Registers(todo'[p]) /\ Names(todo'[p]) /\ ~ Filling(p, "config2")'
    BY <1>1, <1>2, <1>3, <1>4, <2>1 DEF StoresInv, RegisteredLast, Filling
  <2> QED BY <1>2, <2>1, <2>2, <2>3 DEF StoresInv, RegisteredLast
<1>13. OneCreator'
  <2>1. Creates(t) => Mentions(t)
    BY <1>1, CreatorsMention
  <2>2. \A q \in Procs \ {p} : Mentions(todo[q]) => ~ Mentions(t)
    OBVIOUS
  <2> QED BY <1>2, <1>3, <2>1, <2>2 DEF StoresInv, OneCreator
<1>14. KeyOnItsWay'
  <2>1. ~ Starting
    BY <1>2 DEF Starting
  <2> QED BY <1>2, <2>1 DEF StoresInv, KeyOnItsWay
<1> QED BY <1>6, <1>7, <1>8, <1>9, <1>10, <1>11, <1>12, <1>13, <1>14 DEF StoresInv

LEMMA CountedDo ==
  ASSUME StoresInv, Counted
  PROVE  budget' \in [requests : Nat, crashes : Nat] /\ budget'.crashes = budget.crashes
<1>1. budget \in [requests : Nat, crashes : Nat]
  BY DEF StoresInv, StoresTyped
<1>2. budget.requests > 0 /\ budget' = [budget EXCEPT !.requests = budget.requests - 1]
  BY DEF Counted
<1> QED BY <1>1, <1>2

LEMMA AcceptKeeps ==
  ASSUME StoresInv, NEW h \in Handlers, Accept(h)
  PROVE  StoresInv'
<1>1. PICK t \in Requests :
        /\ ("config2" \in {t[i].file : i \in DOMAIN t}) =>
             /\ disk["config2"] = {}
             /\ \A q \in Handlers : "config2" \notin {todo[q][i].file : i \in DOMAIN todo[q]}
        /\ Begin(h, t) /\ Counted
  BY DEF Accept
<1>2. Sound(t) /\ ~ Recalls(t)
  BY RequestsSound
<1>3. h \in Procs \ {"boot"}
  BY BoundsAssumption DEF Procs
<1>4. budget' \in [requests : Nat, crashes : Nat] /\ budget'.crashes = budget.crashes
  BY <1>1, CountedDo
<1>5. \A v \in Seq(Steps) : Mentions(v) <=> "config2" \in {v[i].file : i \in DOMAIN v}
  BY DEF Mentions
<1>6. ASSUME Mentions(t)
      PROVE  disk["config2"] = {} /\ \A q \in Procs : ~ Mentions(todo[q])
  <2>1. t \in Seq(Steps) /\ \A q \in Procs : todo[q] \in Seq(Steps)
    BY <1>2 DEF Sound, StoresInv, StoresTyped
  <2>2. disk["config2"] = {} /\ \A q \in Handlers : ~ Mentions(todo[q])
    BY <1>1, <1>5, <1>6, <2>1 DEF Procs
  <2> QED BY <2>2 DEF StoresInv, OneCreator
<1> QED BY <1>1, <1>2, <1>3, <1>4, <1>6, BeginKeeps

LEMMA RunKeeps ==
  ASSUME StoresInv, LaunchRun \/ RunTurn
  PROVE  StoresInv'
<1>1. "run" \in Procs \ {"boot"}
  BY DEF Procs
<1>2. CASE LaunchRun
  <2>1. Sound(LaunchProgram) /\ ~ Mentions(LaunchProgram) /\ ~ Recalls(LaunchProgram)
    BY OwnProgramsSound
  <2>2. Begin("run", LaunchProgram) /\ budget' = budget
    BY <1>2 DEF LaunchRun
  <2>3. budget' \in [requests : Nat, crashes : Nat]
    BY <2>2 DEF StoresInv, StoresTyped
  <2> QED BY <1>1, <2>1, <2>2, <2>3, BeginKeeps
<1>3. CASE RunTurn
  <2>1. PICK t \in RunTurns : Begin("run", t)
    BY <1>3 DEF RunTurn
  <2>2. Sound(t) /\ ~ Mentions(t) /\ mem.config # Torn
    BY <1>3, OwnProgramsSound DEF RunTurn
  <2>3. budget' \in [requests : Nat, crashes : Nat] /\ budget'.crashes = budget.crashes
    BY <1>3, CountedDo DEF RunTurn
  <2> QED BY <1>1, <2>1, <2>2, <2>3, BeginKeeps
<1> QED BY <1>2, <1>3

\* What a new server begins with.
LEMMA BootIsSound ==
  /\ Boot \in Seq(Steps) /\ Late(Boot) /\ Supplied(Boot, {}) /\ Registers(Boot) /\ Names(Boot)
  /\ ~ Mentions(Boot) /\ ~ Creates(Boot) /\ ~ Recalls(Boot)
  /\ << >> \in Seq(Steps) /\ Late(<< >>) /\ Supplied(<< >>, {}) /\ Registers(<< >>) /\ Names(<< >>)
  /\ ~ Mentions(<< >>) /\ ~ Creates(<< >>) /\ ~ Recalls(<< >>)
  /\ Boot # << >> /\ Head(Boot).do = "load"
  /\ Len(Boot) > 2 /\ Is(Boot[1], "load", "config") /\ Is(Boot[2], "load", "keys") /\ Is(Boot[3], "migrate", "keys")
<1>1. Boot # << >> /\ Head(Boot).do = "load"
  BY DEF Boot, Load, Migrate, Shared, Keep
<1>2. /\ Len(Boot) > 2 /\ Is(Boot[1], "load", "config") /\ Is(Boot[2], "load", "keys")
      /\ Is(Boot[3], "migrate", "keys")
  BY DEF Boot, Load, Migrate, Shared, Keep, Is
<1>3. ~ Creates(Boot) /\ ~ Creates(<< >>)
  BY OwnProgramsSound, CreatorsMention DEF Sound
<1> QED BY <1>1, <1>2, <1>3, OwnProgramsSound DEF Sound

Starts ==
  /\ todo = [p \in Procs |-> IF p = "boot" /\ setup.active THEN Boot ELSE << >>]
  /\ copy = [p \in Procs |-> Nothing]
  /\ mem = [keys |-> {}, secrets |-> {}, accounts |-> {}, config |-> Torn]
  /\ missed = [p \in Holders |-> Clean]

\* Nobody holds anything, and nothing but the boot is on.
Anew ==
  /\ todo \in [Procs -> Seq(Steps)]
  /\ copy \in [Procs -> [Files -> (SUBSET Entries) \cup {Torn}]]
  /\ \A p \in Procs : \A f \in Files : copy[p][f] = Torn
  /\ DOMAIN mem = {"keys", "secrets", "accounts", "config"} /\ mem.config = Torn
  /\ missed \in [Holders -> [Files -> SUBSET Entries]]
  /\ Programmed /\ CopiesAreOld /\ ServerIsOld
  /\ \A p \in Procs : /\ Registers(todo[p]) /\ Names(todo[p]) /\ ~ Filling(p, "config2")
                      /\ ~ Mentions(todo[p]) /\ ~ Creates(todo[p])
                      /\ "second" \notin copy[p]["global"]

LEMMA StartsAnew == Starts => Anew
<1> SUFFICES ASSUME Starts PROVE Anew
  OBVIOUS
<1>1. \A p \in Procs : todo[p] \in {Boot, << >>}
  BY DEF Starts
<1>2. todo \in [Procs -> Seq(Steps)]
  BY BootIsSound DEF Starts
<1>3. \A p \in Procs : \A f \in Files : copy[p][f] = Torn
  BY DEF Starts, Nothing
<1>4. copy \in [Procs -> [Files -> (SUBSET Entries) \cup {Torn}]] /\ missed \in [Holders -> [Files -> SUBSET Entries]]
  BY DEF Starts, Nothing, Clean
<1>5. DOMAIN mem = {"keys", "secrets", "accounts", "config"} /\ mem.config = Torn
  BY DEF Starts
<1>6. \A p \in Procs : /\ Late(todo[p]) /\ Supplied(todo[p], {}) /\ Registers(todo[p]) /\ Names(todo[p])
                       /\ ~ Mentions(todo[p]) /\ ~ Creates(todo[p]) /\ ~ Recalls(todo[p])
                       /\ ~ Doing(p, "fill")
  BY <1>1, BootIsSound DEF Doing
<1>7. Programmed
  BY <1>6 DEF Programmed, Supplied
<1>8. CopiesAreOld
  BY <1>3 DEF CopiesAreOld
<1>9. ServerIsOld
  BY <1>5 DEF ServerIsOld
<1>10. \A p \in Procs : "second" \notin copy[p]["global"] /\ ~ Filling(p, "config2")
  BY <1>3, <1>6 DEF Files, Torn, Filling
<1> QED BY <1>2, <1>3, <1>4, <1>5, <1>6, <1>7, <1>8, <1>9, <1>10 DEF Anew

LEMMA StartsAnewAgain == Starts' => Anew'
BY StartsAnew, PTL

LEMMA CrashKeeps ==
  ASSUME StoresInv, Crash
  PROVE  StoresInv'
<1>1. Starts'
  BY DEF Crash, Starts
<1>2. /\ todo' \in [Procs -> Seq(Steps)]
      /\ copy' \in [Procs -> [Files -> (SUBSET Entries) \cup {Torn}]]
      /\ \A p \in Procs : \A f \in Files : copy'[p][f] = Torn
      /\ DOMAIN mem' = {"keys", "secrets", "accounts", "config"} /\ mem'.config = Torn
      /\ missed' \in [Holders -> [Files -> SUBSET Entries]]
      /\ Programmed' /\ CopiesAreOld' /\ ServerIsOld'
      /\ \A p \in Procs : /\ Registers(todo'[p]) /\ Names(todo'[p]) /\ ~ Filling(p, "config2")'
                          /\ ~ Mentions(todo'[p]) /\ ~ Creates(todo'[p])
                          /\ "second" \notin copy'[p]["global"]
  BY <1>1, StartsAnewAgain DEF Anew
<1>3. UNCHANGED <<setup, disk, acked, risked>> /\ budget.crashes > 0
      /\ budget' = [budget EXCEPT !.crashes = budget.crashes - 1]
  BY DEF Crash
<1>4. budget' \in [requests : Nat, crashes : Nat] /\ budget'.crashes < MaxCrashes
  BY <1>3, BoundsAssumption DEF StoresInv, StoresTyped
<1>5. StoresTyped'
  <2>1. budget'.crashes <= MaxCrashes
    BY <1>4, BoundsAssumption
  <2>2. \A f : Torn \in Contents(f)
    BY DEF Contents
  <2> QED BY <1>2, <1>3, <1>4, <2>1, <2>2 DEF StoresInv, StoresTyped, Contents
<1>6. LostOnlyIfOverlapped'
  BY <1>3 DEF StoresInv, LostOnlyIfOverlapped
<1>7. AgentKept'
  BY <1>2, <1>3 DEF StoresInv, AgentKept, Files
<1>8. RegisteredLast'
  BY <1>2, <1>3 DEF StoresInv, RegisteredLast, NewNamed
<1>9. OneCreator'
  BY <1>2 DEF OneCreator
<1>10. KeyOnItsWay'
  <2>1. budget'.crashes # MaxCrashes
    BY <1>4, BoundsAssumption
  <2> QED BY <2>1 DEF KeyOnItsWay
<1> QED BY <1>2, <1>5, <1>6, <1>7, <1>8, <1>9, <1>10 DEF StoresInv

LEMMA StoresInitInv == StoresInit => StoresInv
<1> SUFFICES ASSUME StoresInit PROVE StoresInv
  OBVIOUS
<1>1. Starts
  BY DEF StoresInit, Starts
<1>2. Anew
  BY <1>1, StartsAnew
<1>3. setup \in [active : BOOLEAN, legacy : BOOLEAN, born : BOOLEAN]
  BY BoundsAssumption DEF StoresInit
<1>4. /\ DOMAIN disk = Files
      /\ disk["config"] = {"agent"} \cup (IF setup.legacy THEN LegacyEntries ELSE {}) /\ disk["global"] = {"agent"}
      /\ \A f \in Files \ {"config", "global"} : disk[f] = {}
  BY DEF StoresInit, Clean, Files
<1>5. /\ acked["config"] = {"agent"} /\ acked["global"] = {"agent"} /\ DOMAIN acked = Files
      /\ \A f \in Files \ {"config", "global"} : acked[f] = {}
      /\ acked = [Clean EXCEPT !["config"] = {"agent"}, !["global"] = {"agent"}]
  BY DEF StoresInit, Clean, Files
<1>6. {"agent"} \in SUBSET Saved /\ {} \in SUBSET Saved /\ "agent" \notin LegacyEntries 
      /\ LegacyEntries \subseteq Entries
      /\ "second" \notin {"agent"}
  BY DEF Saved, Entries, LegacyEntries
<1>7. StoresTyped
  <2>1. \A f \in Files : disk[f] \in Contents(f)
    BY <1>4, <1>6 DEF Contents, Saved
  <2>2. disk \in [Files -> (SUBSET Entries) \cup {Torn}]
    <3>1. \A f \in Files : disk[f] \in (SUBSET Entries) \cup {Torn}
      BY <2>1 DEF Contents, Saved
    <3>2. disk = [f \in Files |-> disk[f]]
      BY DEF StoresInit, Clean
    <3> QED BY <3>1, <3>2
  <2>3. acked \in [Files -> SUBSET Saved]
    <3>1. Clean \in [Files -> SUBSET Saved]
      BY DEF Clean
    <3> QED BY <1>5, <1>6, <3>1
  <2>4. risked \in [Files -> SUBSET Entries]
    BY DEF StoresInit, Clean
  <2>5. budget \in [requests : Nat, crashes : Nat] /\ budget.crashes <= MaxCrashes
    BY BoundsAssumption DEF StoresInit
  <2>6. /\ todo \in [Procs -> Seq(Steps)]
        /\ copy \in [Procs -> [Files -> (SUBSET Entries) \cup {Torn}]]
        /\ \A p \in Procs : \A f \in Files : copy[p][f] \in Contents(f)
        /\ DOMAIN mem = {"keys", "secrets", "accounts", "config"} /\ mem.config \in Contents("config")
        /\ missed \in [Holders -> [Files -> SUBSET Entries]]
    <3>1. \A f : Torn \in Contents(f)
      BY DEF Contents
    <3> QED BY <1>2, <3>1 DEF Anew
  <2> QED BY <1>3, <2>1, <2>2, <2>3, <2>4, <2>5, <2>6 DEF StoresTyped
<1>8. LostOnlyIfOverlapped
  <2>1. \A f \in Files : disk[f] \ LegacyEntries = acked[f]
    BY <1>4, <1>5, <1>6
  <2> QED BY <2>1 DEF LostOnlyIfOverlapped, Between
<1>9. AgentKept
  BY <1>2, <1>4 DEF AgentKept, Anew, Files
<1>10. RegisteredLast
  BY <1>2, <1>4, <1>6 DEF RegisteredLast, Anew
<1>11. OneCreator
  BY <1>2 DEF OneCreator, Anew
<1>12. KeyOnItsWay
  <2> SUFFICES ASSUME setup.active, setup.legacy PROVE Starting
    BY DEF KeyOnItsWay
  <2>1. todo["boot"] = Boot /\ \A p \in Procs \ {"boot"} : todo[p] = << >>
    BY <1>1 DEF Starts, Procs
  <2>2. {"old", "legacy"} \subseteq disk["config"] /\ disk["keys"] = {}
    BY <1>4 DEF LegacyEntries, Files
  <2> QED BY <2>1, <2>2, BootIsSound DEF Starting
<1> QED BY <1>2, <1>7, <1>8, <1>9, <1>10, <1>11, <1>12 DEF StoresInv, Anew

LEMMA StoresNextKeeps == StoresInv /\ [StoresNext]_storesVars => StoresInv'
<1> SUFFICES ASSUME StoresInv, [StoresNext]_storesVars PROVE StoresInv'
  OBVIOUS
<1>1. CASE StoresNext
  BY <1>1, AcceptKeeps, RunKeeps, CrashKeeps, StepKeeps DEF StoresNext
<1>2. CASE UNCHANGED storesVars
  <2>1. UNCHANGED <<setup, disk, todo, copy, over, mem, budget, acked, missed, risked>>
    BY <1>2 DEF storesVars
  <2>2. \A p, f : /\ Held(p)' = Held(p) /\ (Filling(p, f)' <=> Filling(p, f)) /\ Target(p, f)' = Target(p, f)
                  /\ Doing(p, "create")' <=> Doing(p, "create")
    BY <2>1 DEF Held, Filling, Doing, Target, Step
  <2>3. StoresTyped' /\ LostOnlyIfOverlapped' /\ ServerIsOld' /\ AgentKept' /\ OneCreator'
    BY <2>1 DEF StoresInv, StoresTyped, Contents, LostOnlyIfOverlapped, ServerIsOld, AgentKept, OneCreator
  <2>4. Programmed' /\ CopiesAreOld'
    BY <2>1, <2>2 DEF StoresInv, Programmed, CopiesAreOld
  <2>5. RegisteredLast'
    BY <2>1, <2>2 DEF StoresInv, RegisteredLast, NewNamed
  <2>6. KeyOnItsWay'
    BY <2>1 DEF StoresInv, KeyOnItsWay, Starting
  <2> QED BY <2>3, <2>4, <2>5, <2>6 DEF StoresInv
<1> QED BY <1>1, <1>2

LEMMA StoresInvHolds == StoresSpec => []StoresInv
BY StoresInitInv, StoresNextKeeps, PTL DEF StoresSpec

------------------------------------------------------------------------------
(* The theorems. *)

\* Handlers run one after the other never undo each other's work: a file that
\* can be read differs from its history only in what was written across.
THEOREM WritesSurvive == StoresSpec => []LostOnlyIfOverlapped
<1>1. StoresInv => LostOnlyIfOverlapped
  BY DEF StoresInv
<1> QED BY <1>1, StoresInvHolds, PTL

\* A configuration that can be read is the agent's, and the hive never lists an
\* agent before its configuration is written.
THEOREM AgentsKeepTheirConfig == StoresSpec => []ConfigKeepsTheAgent
<1>1. StoresInv => ConfigKeepsTheAgent
  BY DEF StoresInv, ConfigKeepsTheAgent, AgentKept, RegisteredLast, NewNamed
<1> QED BY <1>1, StoresInvHolds, PTL

\* A start of the server that no crash cuts short brings the legacy key home.
THEOREM LegacyKeyArrives == StoresSpec => []LegacyKeyMoved
<1>1. StoresInv => LegacyKeyMoved
  <2> SUFFICES ASSUME StoresInv, Up, setup.active, setup.legacy, budget.crashes = MaxCrashes
               PROVE  "openai" \in acked["keys"]
    BY DEF LegacyKeyMoved
  <2>1. ~ Starting
    BY DEF Starting, Up
  <2> QED BY <2>1 DEF StoresInv, KeyOnItsWay
<1> QED BY <1>1, StoresInvHolds, PTL
=============================================================================
