--------------------------- MODULE StoreHandlers ----------------------------
(***************************************************************************)
(* What every request does to the files it shares with others.  Each       *)
(* handler of crates/orion-api is a program: the sequence of files it      *)
(* loads whole, changes in memory and saves whole.  FileStores runs the    *)
(* programs, one step at a time, beside each other.                        *)
(*                                                                         *)
(* A file is a set of entries.  What a handler does between two steps,     *)
(* awaits included, only gives others time.                                *)
(***************************************************************************)
EXTENDS Sequences

Load(f)         == <<[do |-> "load", file |-> f, add |-> {}, del |-> {}]>>
Peek(f)         == <<[do |-> "peek", file |-> f, add |-> {}, del |-> {}]>>
Create(f)       == <<[do |-> "create", file |-> f, add |-> {}, del |-> {}]>>
Save(f, a, d)   == <<[do |-> "truncate", file |-> f, add |-> a, del |-> d]>>
Share(f, a)     == <<[do |-> "share", file |-> f, add |-> a, del |-> {}]>>
Keep(f)         == <<[do |-> "keep", file |-> f, add |-> {}, del |-> {}]>>
Recall          == <<[do |-> "recall", file |-> "config", add |-> {}, del |-> {}]>>
Migrate         == <<[do |-> "migrate", file |-> "keys", add |-> {}, del |-> {}]>>
Need(f, e)      == <<[do |-> "need", file |-> f, add |-> {e}, del |-> {}]>>

------------------------------------------------------------------------------
(* The configuration of an agent, config.json. *)

ListAgents == Load("global") \o Load("config")
TierModels == Load("config") \o Load("keys")
TierModelsUpdate == Load("config") \o Save("config", {"tier"}, {})
TierModelsRefresh == Load("config") \o Load("keys") \o Save("config", {"catalog"}, {})
TierModelsValidate == Load("config") \o Load("keys")
TierModelsReset == Load("config") \o Save("config", {}, {"tier"})
SetActiveProvider == Load("config") \o Save("config", {"preferred"}, {})
UnsetActiveProvider == Load("config") \o Save("config", {}, {"preferred"})

------------------------------------------------------------------------------
(* Keys and secrets, provider_keys.bin and skill_secrets.bin. *)

\* execute_store_provider_key, with the three files in hand.  Tavily is a
\* skill's secret, Perplexity is both.
ExecuteStore(p) ==
  IF p = "tavily" THEN Save("secrets", {p}, {})
  ELSE Save("keys", {p}, {})
         \o (IF p = "perplexity" THEN Save("secrets", {p}, {}) ELSE << >>)
         \o Save("config", {"ego"}, {})

Credentials == Load("config") \o Load("keys") \o Load("secrets")

ConnectivityProviders == Load("keys")
StoreKey(p) == Credentials \o ExecuteStore(p)
RemoveKey(p) == Load("keys") \o Need("keys", p) \o Save("keys", {}, {p})

\* A connectivity chat reads the stage and the providers, asks the model and
\* loads everything again before it stores.
ConnectivityChat(p) ==
  Load("config") \o Load("keys") \o Load("config") \o Credentials \o ExecuteStore(p)

\* The end of an operational chat: the credential tools of its answer.
ChatStoresKey(p) == Credentials \o ExecuteStore(p)
ChatStoresSecret == Credentials \o Save("secrets", {"vault"}, {})

\* Mutant of RegisterEmailAccount: starts a new keychain for the password.
RegisterEmailAfresh ==
  Load("config") \o Save("config", {"account"}, {})
    \o Create("secrets") \o Save("secrets", {"password"}, {})
    \o Share("secrets", {"password"}) \o Share("accounts", {"account"})

RegisterEmailAccount ==
  Load("config") \o Save("config", {"account"}, {})
    \o Load("secrets") \o Save("secrets", {"password"}, {})
    \o Share("secrets", {"password"}) \o Share("accounts", {"account"})

------------------------------------------------------------------------------
(* An agentic run keeps the configuration it was launched with and passes  *)
(* that copy to execute_store_provider_key.                                *)

LaunchProgram == Load("config") \o Keep("config") \o Keep("accounts") \o Load("keys")
RunStoresKey(p) == Recall \o Load("keys") \o Load("secrets") \o ExecuteStore(p)
RunStoresSecret == Load("keys") \o Load("secrets") \o Save("secrets", {"vault"}, {})
RunRegistersMcp == Load("config") \o Save("config", {"mcp"}, {})

------------------------------------------------------------------------------
(* Constraints found by the governor, jobs, agents. *)

SaveDiscovered == Load("constraints") \o Save("constraints", {"limit"}, {})
PersistentConstraints == Load("config") \o Load("constraints")
CreateJob == Load("jobs") \o Save("jobs", {"job"}, {})

SetMentorName == Load("global") \o Save("global", {"mentor"}, {})
LoadAgent == Load("global")

\* Mutant of CreateAgent: registers the agent before it has a configuration.
CreateAgentListedFirst ==
  Load("global") \o Save("global", {"second"}, {})
    \o Create("config2") \o Save("config2", {"agent"}, {})

CreateAgent ==
  Create("config2") \o Save("config2", {"agent"}, {})
    \o Load("global") \o Save("global", {"second"}, {})
QuickStart == CreateAgent \o Load("config2") \o Save("config2", {"born"}, {})
ImportAgent ==
  Create("config2") \o Save("config2", {"agent", "born"}, {})
    \o Load("global") \o Save("global", {"second"}, {})

\* A bundle whose documents are refused: by then the configuration is there.
ImportRefused == Create("config2") \o Save("config2", {"agent", "born"}, {})

\* Export parses the configuration itself, so nothing is migrated; a torn one
\* reads as an agent that is not born, a torn keyring as an error.
ExportAgent == Peek("config") \o Peek("keys")

\* What these answer from besides, keys and documents, is part of Birth.
AgentIdentity == Load("config") \o Load("global")
AgentConstitution == Load("config")
AgentVerify == Load("config")

------------------------------------------------------------------------------
(* Start of the server: legacy keys of the active agent move from its      *)
(* configuration to the keyring; then keys and secrets are read into       *)
(* memory, where nobody updates the keys.                                  *)

Shared == Load("keys") \o Keep("keys") \o Load("secrets") \o Keep("secrets")

\* Mutant of Boot: looks at the configuration once before it migrates.
BootTwice == Load("config") \o Load("config") \o Load("keys") \o Migrate \o Shared

Boot == Load("config") \o Load("keys") \o Migrate \o Shared
=============================================================================
