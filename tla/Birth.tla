------------------------------- MODULE Birth -------------------------------
(***************************************************************************)
(* The birth of one agent: the five stages from Darkness to Emergence, the *)
(* signing key that exists only until the constitutional documents are     *)
(* signed, and the HTTP handlers that walk the agent through them          *)
(* (orion-birth/src/stages.rs, orion-core/src/keyring.rs, the birth and    *)
(* genesis handlers of orion-api/src/main.rs).                             *)
(*                                                                         *)
(* Every handler loads the configuration file, works on its copy and saves *)
(* the copy; nothing locks the file.  A handler is therefore a sequence of *)
(* steps, one per file it touches, and up to one request per slot is under *)
(* way at a time.  A request may fail at any step and the server may crash *)
(* between any two; what is on disk survives, what is in AppState does not.*)
(***************************************************************************)
EXTENDS Naturals, FiniteSets

CONSTANTS Slots,      \* requests that may be under way at once
          Contents,   \* personal souls an interview may come to
          Paths,      \* the interviews a mentor may choose
          MaxKeys,    \* keypairs ever generated (bound)
          MaxFaults,  \* failing requests and crashes (bound)
          None

Interviews == {"direct", "soul_crystallization", "soul_forge"}

ASSUME BirthAssumption ==
    /\ MaxKeys \in Nat \ {0}
    /\ MaxFaults \in Nat
    /\ None \notin Contents \union {"template"}
    /\ Paths \subseteq Interviews

VARIABLES
    config,       \* config.json: birth_stage and birth_complete
    pubkey,       \* external_pubkey.bin, 0 when there is none
    keyFile,      \* signing.key, 0 when there is none
    soul,         \* soul.md with ethics.md and instincts.md
    signed,       \* the .sig files: the key that signed and what it signed
    born,         \* the birth row of the memory store
    genesisPath,  \* genesis_path.json
    birthKeys,    \* AppState.birth_keys, 0 when there is none
    session,      \* AppState.genesis_sessions: none, open or finished
    locked,       \* the slot that holds the sessions mutex, or None
    req,          \* the request of each slot
    minted,       \* history: keypairs generated so far
    persisted,    \* history: the key has been on disk
    raced,        \* history: a request wrote over another one's work
    faults        \* failures and crashes so far

disk == <<config, pubkey, keyFile, soul, signed, born, genesisPath>>
memory == <<birthKeys, session, locked>>
history == <<minted, persisted, raced>>
vars == <<disk, memory, req, history, faults>>

StageNames == {"none", "Darkness", "Ignition", "Connectivity", "Genesis", "Emergence"}
Keys == 0 .. MaxKeys
Souls == Contents \union {"template"}
Configs == [stage : StageNames, complete : BOOLEAN]

\* The steps a request still has to make are named by pc.
Idle == [pc |-> "idle", cfg |-> [stage |-> "none", complete |-> FALSE], key |-> 0, arg |-> None]
PCs == {"idle", "state", "generate", "identity", "darkness", "keep", "advance", "url",
        "ignite", "store",
        "open", "path", "session", "quick", "quickSign", "quickSave", "quickPath",
        "answer", "manifest", "manifestDocs", "manifestSave", "chat", "chatLoad",
        "chatDocs", "chatSave", "emerge", "record", "complete", "cleanup"}

TypeOK ==
    /\ config \in Configs
    /\ pubkey \in Keys /\ keyFile \in Keys /\ birthKeys \in Keys /\ minted \in Keys
    /\ soul \in Souls \union {None}
    /\ signed = None \/ signed \in [by : Keys, of : Souls]
    /\ born \in BOOLEAN /\ persisted \in BOOLEAN /\ raced \in BOOLEAN
    /\ genesisPath \in Paths \union {"quick_start", None}
    /\ session \in {"none", "open", "finished"}
    /\ locked \in Slots \union {None}
    /\ req \in [Slots -> [pc : PCs, cfg : Configs, key : Keys,
                          arg : Paths \union Contents \union {None}]]
    /\ faults \in 0 .. MaxFaults

\* api_create_agent without quick start: a configuration and nothing else.
Init ==
    /\ config = [stage |-> "none", complete |-> FALSE]
    /\ pubkey = 0 /\ keyFile = 0 /\ soul = None /\ signed = None
    /\ born = FALSE /\ genesisPath = None
    /\ birthKeys = 0 /\ session = "none" /\ locked = None
    /\ req = [s \in Slots |-> Idle]
    /\ minted = 0 /\ persisted = FALSE /\ raced = FALSE /\ faults = 0

\* BirthOrchestrator::new: a stage that was never saved is Darkness.
CurrentStage(c) == IF c.stage = "none" THEN "Darkness" ELSE c.stage

At(s, pc) == req[s].pc = pc
Goto(s, pc) == req' = [req EXCEPT ![s].pc = pc]
Load(s, pc) == req' = [req EXCEPT ![s].pc = pc, ![s].cfg = config]
Answer(s) == req' = [req EXCEPT ![s] = Idle]

\* Two ways to write over another request's work: from a copy of the
\* configuration that is out of date, or over documents that another request
\* has signed and not yet declared complete.
Stale(s) == req[s].cfg # config
Crosses(s) == \E t \in Slots \ {s} : req[t].pc \in {"quickSave", "record", "complete"}
Note(racing) == raced' = (raced \/ racing) /\ UNCHANGED <<minted, persisted>>

\* Every save replaces the file by the request's own copy.
Save(s, c) == config' = c /\ Note(Stale(s))
SaveStage(s, stage) == Save(s, [req[s].cfg EXCEPT !.stage = stage])
WriteSoul(s, text) == soul' = text /\ Note(Stale(s) \/ Crosses(s))

\* A request reaches its handler, which loads the configuration.
Arrive(s, pc, key, arg) ==
    /\ At(s, "idle")
    /\ req' = [req EXCEPT ![s] = [pc |-> pc, cfg |-> config, key |-> key, arg |-> arg]]
    /\ UNCHANGED <<history, faults>>

(***************************************************************************)
(* GET birth/state: reload the key after a restart, and generate the       *)
(* identity of an agent in Darkness that has no public key yet.            *)
(***************************************************************************)
BirthState(s) ==
    /\ ~config.complete
    /\ Arrive(s, "state", 0, None)
    /\ birthKeys' = IF birthKeys = 0 THEN keyFile ELSE birthKeys
    /\ UNCHANGED <<disk, session, locked>>

OpenState(s) ==
    /\ At(s, "state")
    /\ IF ~born /\ CurrentStage(req[s].cfg) = "Darkness" /\ pubkey = 0
       THEN Goto(s, "generate") ELSE Answer(s)
    /\ UNCHANGED <<disk, memory, history, faults>>

\* The keypair; the configuration that points to it is saved next.
GenerateIdentity(s) ==
    /\ At(s, "generate") /\ minted < MaxKeys
    /\ minted' = minted + 1
    /\ pubkey' = minted'
    /\ raced' = (raced \/ Stale(s) \/ \E t \in Slots \ {s} : req[t].pc \in {"identity", "darkness", "keep"})
    /\ req' = [req EXCEPT ![s].pc = "identity", ![s].key = minted']
    /\ UNCHANGED <<config, keyFile, soul, signed, born, genesisPath,
                   memory, persisted, faults>>

SaveDarkness(s) ==
    /\ At(s, "darkness")
    /\ SaveStage(s, "Darkness")
    /\ Goto(s, "keep")
    /\ UNCHANGED <<pubkey, keyFile, soul, signed, born, genesisPath, memory, faults>>

\* The key goes to AppState and to disk; a failing write is only logged.
KeepKey(s) ==
    /\ At(s, "keep")
    /\ birthKeys' = req[s].key
    /\ \/ keyFile' = req[s].key /\ persisted' = TRUE /\ UNCHANGED faults
       \/ /\ faults < MaxFaults /\ faults' = faults + 1
          /\ UNCHANGED <<keyFile, persisted>>
    /\ Answer(s)
    /\ UNCHANGED <<config, pubkey, soul, signed, born, genesisPath, session, locked,
                   minted, raced>>

(***************************************************************************)
(* The early stages: each handler advances its copy of the configuration,  *)
(* and only from the stage before.                                         *)
(***************************************************************************)
AdvanceDarkness(s) ==
    /\ ~config.complete
    /\ Arrive(s, "advance", 0, None)
    /\ UNCHANGED <<disk, memory>>

\* advance_past_darkness does not look at the stage.
AdvanceUnguarded(s) ==
    /\ At(s, "advance")
    /\ SaveStage(s, "Ignition")
    /\ Answer(s)
    /\ UNCHANGED <<pubkey, keyFile, soul, signed, born, genesisPath, memory, faults>>

AdvancePastDarkness(s) ==
    /\ At(s, "advance")
    /\ IF ~born /\ CurrentStage(req[s].cfg) = "Darkness"
       THEN SaveStage(s, "Ignition") ELSE UNCHANGED <<config, history>>
    /\ Answer(s)
    /\ UNCHANGED <<pubkey, keyFile, soul, signed, born, genesisPath, memory, faults>>

\* The mentor may give the address of a local model, which is saved first.
Ignition(s) ==
    /\ ~config.complete
    /\ \E pc \in {"url", "ignite"} : Arrive(s, pc, 0, None)
    /\ UNCHANGED <<disk, memory>>

AdvanceToConnectivity(s) ==
    /\ At(s, "ignite")
    /\ IF ~born /\ CurrentStage(req[s].cfg) = "Ignition"
       THEN SaveStage(s, "Connectivity") ELSE UNCHANGED <<config, history>>
    /\ Answer(s)
    /\ UNCHANGED <<pubkey, keyFile, soul, signed, born, genesisPath, memory, faults>>

\* Storing a provider key saves the whole configuration, at any stage.
StoreKey(s) == Arrive(s, "store", 0, None) /\ UNCHANGED <<disk, memory>>

\* The saves of a copy whose stage is left alone: a stored key, the path of a new
\* public key, the address of the local model.
SaveCopy(s) ==
    /\ req[s].pc \in {"store", "identity", "url"}
    /\ Save(s, req[s].cfg)
    /\ \/ At(s, "store") /\ Answer(s)
       \/ At(s, "identity") /\ Goto(s, "darkness")
       \/ At(s, "url") /\ Goto(s, "ignite")
    /\ UNCHANGED <<pubkey, keyFile, soul, signed, born, genesisPath, memory, faults>>

(***************************************************************************)
(* POST genesis/start with an interview: stage, path file, session.        *)
(***************************************************************************)
GenesisStart(s, path) ==
    /\ ~config.complete
    /\ Arrive(s, "open", 0, path)
    /\ UNCHANGED <<disk, memory>>

AdvanceToGenesis(s) ==
    /\ At(s, "open")
    /\ IF ~born /\ CurrentStage(req[s].cfg) = "Connectivity"
       THEN SaveStage(s, "Genesis") /\ Goto(s, "path")
       ELSE Answer(s) /\ UNCHANGED <<config, history>>
    /\ UNCHANGED <<pubkey, keyFile, soul, signed, born, genesisPath, memory, faults>>

PersistPath(s) ==
    /\ At(s, "path")
    /\ genesisPath' = req[s].arg
    /\ Goto(s, "session")
    /\ UNCHANGED <<config, pubkey, keyFile, soul, signed, born, memory, history, faults>>

\* An interview whose first step is already Complete is not kept, and what
\* it completed with is dropped: the quick_start depth of crystallization.
OpenSession(s) ==
    /\ At(s, "session") /\ locked = None
    /\ session' = "open" \/ (req[s].arg = "soul_crystallization" /\ UNCHANGED session)
    /\ Answer(s)
    /\ UNCHANGED <<disk, birthKeys, locked, history, faults>>

(***************************************************************************)
(* POST genesis/start with quick_start: no stage is asked for and no birth *)
(* row written; the template documents are written and signed at once.     *)
(***************************************************************************)
TakenKey == IF birthKeys # 0 THEN birthKeys ELSE keyFile

QuickStart(s) ==
    /\ ~config.complete /\ TakenKey # 0
    /\ Arrive(s, "quick", TakenKey, None)
    /\ birthKeys' = 0
    /\ UNCHANGED <<disk, session, locked>>

QuickDocs(s) ==
    /\ At(s, "quick")
    /\ WriteSoul(s, "template")
    /\ Load(s, "quickSign")
    /\ UNCHANGED <<config, pubkey, keyFile, signed, born, genesisPath, memory, faults>>

QuickSign(s) ==
    /\ At(s, "quickSign")
    /\ signed' = [by |-> req[s].key, of |-> soul]
    /\ Goto(s, "quickSave")
    /\ UNCHANGED <<config, pubkey, keyFile, soul, born, genesisPath, memory, history, faults>>

QuickSave(s) ==
    /\ At(s, "quickSave")
    /\ Save(s, [stage |-> "none", complete |-> TRUE])
    /\ Goto(s, "quickPath")
    /\ UNCHANGED <<pubkey, keyFile, soul, signed, born, genesisPath, memory, faults>>

QuickPath(s) ==
    /\ At(s, "quickPath")
    /\ genesisPath' = "quick_start"
    /\ Goto(s, "cleanup")
    /\ UNCHANGED <<config, pubkey, keyFile, soul, signed, born, memory, history, faults>>

(***************************************************************************)
(* POST genesis/step holds the sessions mutex from end to end.  The        *)
(* strategy counts itself complete before its manifest is written.         *)
(***************************************************************************)
GenesisStep(s) ==
    /\ session # "none" /\ locked = None
    /\ Arrive(s, "answer", 0, None)
    /\ locked' = s
    /\ UNCHANGED <<disk, birthKeys, session>>

StrategyAdvances(s) ==
    /\ At(s, "answer")
    /\ \/ Answer(s) /\ locked' = None /\ UNCHANGED session
       \/ /\ session = "open"
          /\ session' = "finished"
          /\ \E c \in Contents : req' = [req EXCEPT ![s].pc = "manifest", ![s].arg = c]
          /\ UNCHANGED locked
    /\ UNCHANGED <<disk, birthKeys, history, faults>>

LoadForManifest(s) ==
    /\ At(s, "manifest")
    /\ IF ~born /\ CurrentStage(config) = "Genesis"
       THEN Load(s, "manifestDocs") /\ UNCHANGED locked
       ELSE Answer(s) /\ locked' = None
    /\ UNCHANGED <<disk, birthKeys, session, history, faults>>

WriteDocs(s) ==
    /\ At(s, "manifestDocs") \/ At(s, "chatDocs")
    /\ WriteSoul(s, req[s].arg)
    /\ Goto(s, IF At(s, "manifestDocs") THEN "manifestSave" ELSE "chatSave")
    /\ UNCHANGED <<config, pubkey, keyFile, signed, born, genesisPath, memory, faults>>

CrystallizeFromManifest(s) ==
    /\ At(s, "manifestSave")
    /\ SaveStage(s, "Emergence")
    /\ session' = "none" /\ locked' = None
    /\ Answer(s)
    /\ UNCHANGED <<pubkey, keyFile, soul, signed, born, genesisPath, birthKeys, faults>>

(***************************************************************************)
(* POST birth/chat: the other way through the same interview.              *)
(***************************************************************************)
BirthChat(s) ==
    /\ genesisPath \in {"direct", "soul_crystallization"}
    /\ config.stage = "Genesis" /\ ~born
    /\ Arrive(s, "chat", 0, None)
    /\ UNCHANGED <<disk, memory>>

\* The model answers, or recommends the name, purpose and personality.
BirthChatTurn(s) ==
    /\ At(s, "chat")
    /\ \/ Answer(s)
       \/ \E c \in Contents : req' = [req EXCEPT ![s].pc = "chatLoad", ![s].arg = c]
    /\ UNCHANGED <<disk, memory, history, faults>>

\* Birth chat does not look at the stage before it crystallizes.
LoadForChatUnguarded(s) ==
    /\ At(s, "chatLoad")
    /\ Load(s, "chatDocs")
    /\ UNCHANGED <<disk, memory, history, faults>>

LoadForChat(s) ==
    /\ At(s, "chatLoad")
    /\ IF ~born /\ CurrentStage(config) = "Genesis" THEN Load(s, "chatDocs") ELSE Answer(s)
    /\ UNCHANGED <<disk, memory, history, faults>>

CrystallizeSoul(s) ==
    /\ At(s, "chatSave")
    /\ SaveStage(s, "Emergence")
    /\ Answer(s)
    /\ UNCHANGED <<pubkey, keyFile, soul, signed, born, genesisPath, memory, faults>>

(***************************************************************************)
(* POST birth/complete-emergence: sign, record the birth, save, drop key.  *)
(***************************************************************************)
Emergence(s) ==
    /\ ~config.complete /\ config.stage = "Emergence" /\ TakenKey # 0
    /\ Arrive(s, "emerge", TakenKey, None)
    /\ birthKeys' = 0
    /\ UNCHANGED <<disk, session, locked>>

\* The private key file is deleted as soon as the documents are signed.
SignAndForget(s) ==
    /\ At(s, "emerge")
    /\ IF ~born /\ soul # None
       THEN /\ signed' = [by |-> req[s].key, of |-> soul] /\ keyFile' = 0
            /\ Goto(s, "record")
       ELSE Answer(s) /\ UNCHANGED <<signed, keyFile>>
    /\ UNCHANGED <<config, pubkey, soul, born, genesisPath, memory, history, faults>>

SignDocuments(s) ==
    /\ At(s, "emerge")
    /\ IF ~born /\ soul # None
       THEN signed' = [by |-> req[s].key, of |-> soul] /\ Goto(s, "record")
       ELSE Answer(s) /\ UNCHANGED signed
    /\ UNCHANGED <<config, pubkey, keyFile, soul, born, genesisPath, memory, history, faults>>

RecordBirth(s) ==
    /\ At(s, "record")
    /\ IF born THEN Answer(s) ELSE Goto(s, "complete")
    /\ born' = TRUE
    /\ UNCHANGED <<config, pubkey, keyFile, soul, signed, genesisPath, memory, history, faults>>

SaveComplete(s) ==
    /\ At(s, "complete")
    /\ Save(s, [stage |-> "none", complete |-> TRUE])
    /\ Goto(s, "cleanup")
    /\ UNCHANGED <<pubkey, keyFile, soul, signed, born, genesisPath, memory, faults>>

DeleteKeyFile(s) ==
    /\ At(s, "cleanup")
    /\ keyFile' = 0
    /\ Answer(s)
    /\ UNCHANGED <<config, pubkey, soul, signed, born, genesisPath, memory, history, faults>>

(***************************************************************************)
(* Faults: a read, a write, a model call or the client may fail at any     *)
(* step, which ends the request; a crash ends all of them.                 *)
(***************************************************************************)
Fail(s) ==
    /\ faults < MaxFaults /\ ~At(s, "idle")
    /\ faults' = faults + 1
    /\ Answer(s)
    /\ locked' = IF locked = s THEN None ELSE locked
    /\ UNCHANGED <<disk, birthKeys, session, history>>

Crash ==
    /\ faults < MaxFaults
    /\ faults' = faults + 1
    /\ req' = [s \in Slots |-> Idle]
    /\ birthKeys' = 0 /\ session' = "none" /\ locked' = None
    /\ UNCHANGED <<disk, history>>

Early(s) ==
    \/ BirthState(s) \/ OpenState(s) \/ GenerateIdentity(s) \/ SaveDarkness(s) \/ KeepKey(s)
    \/ AdvanceDarkness(s) \/ AdvancePastDarkness(s)
    \/ Ignition(s) \/ AdvanceToConnectivity(s)
    \/ StoreKey(s) \/ SaveCopy(s)

Genesis(s) ==
    \/ \E path \in Paths : GenesisStart(s, path)
    \/ AdvanceToGenesis(s) \/ PersistPath(s) \/ OpenSession(s)
    \/ QuickStart(s) \/ QuickDocs(s) \/ QuickSign(s) \/ QuickSave(s) \/ QuickPath(s)
    \/ GenesisStep(s) \/ StrategyAdvances(s) \/ LoadForManifest(s)
    \/ WriteDocs(s) \/ CrystallizeFromManifest(s)
    \/ BirthChat(s) \/ BirthChatTurn(s) \/ LoadForChat(s) \/ CrystallizeSoul(s)

Emerge(s) ==
    \/ Emergence(s) \/ SignDocuments(s) \/ RecordBirth(s) \/ SaveComplete(s)
    \/ DeleteKeyFile(s)

Next == Crash \/ \E s \in Slots : Early(s) \/ Genesis(s) \/ Emerge(s) \/ Fail(s)

Spec == Init /\ [][Next]_vars

-----------------------------------------------------------------------------
\* How far the agent has come.
Rank(c) ==
    IF c.complete THEN 6
    ELSE CASE CurrentStage(c) = "Darkness" -> 1
           [] CurrentStage(c) = "Ignition" -> 2
           [] CurrentStage(c) = "Connectivity" -> 3
           [] CurrentStage(c) = "Genesis" -> 4
           [] CurrentStage(c) = "Emergence" -> 5

\* The promise of birth: unless a request wrote over another one's work, a
\* complete agent's documents carry the signature of its own public key over
\* what is on disk, whatever failed, crashed or was started over on the way.
SignatureHolds == config.complete /\ ~raced => signed = [by |-> pubkey, of |-> soul]

\* A signing key that reached the disk stays there until the configuration
\* says the birth is complete: no failure in between, the crash after the
\* birth row was written included, leaves an agent that can never be finished.
KeyOutlivesBirth == persisted /\ ~raced => config.complete \/ keyFile = pubkey

\* A stage is only ever undone by a request that saves a copy of the
\* configuration older than another request's work.
BackwardsOnlyIfStale ==
    [][Rank(config') < Rank(config) =>
           \E s \in Slots : Stale(s) /\ req'[s] # req[s]]_vars
=============================================================================
