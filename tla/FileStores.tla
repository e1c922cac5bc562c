----------------------------- MODULE FileStores -----------------------------
(***************************************************************************)
(* The files of an agent and of the hive, each read whole, changed in      *)
(* memory and written whole with std::fs::write, without locks: config.rs, *)
(* provider_keyring.rs, skill_keychain.rs, constraint_store.rs,            *)
(* orchestration.rs, global_config.rs.  Requests, one agentic run and the  *)
(* start of the server run the programs of StoreHandlers side by side.     *)
(*                                                                         *)
(* A write truncates the file and fills it later; in between it is Torn.   *)
(* Two writes at once may leave the longer one's tail behind the shorter   *)
(* one, so the file may stay Torn.  The server may crash and start again.  *)
(*                                                                         *)
(* The keys that runs and chats work with are those of mem, read when the  *)
(* server started: no handler changes them, whatever it writes into the    *)
(* file.  agentic.rs:1334-1338 says that a run's router comes from "the    *)
(* current on-disk keyring" and picks up what was stored in between.       *)
(***************************************************************************)
EXTENDS StoreHandlers, FiniteSets, Naturals

CONSTANTS Handlers,      \* requests at the same time
          Setups,        \* bound: [active, legacy, born], see StoresInit
          MaxRequests,   \* bound: requests and turns of the run
          MaxCrashes     \* bound: crashes

ASSUME BoundsAssumption ==
  /\ MaxRequests \in Nat /\ MaxCrashes \in Nat
  /\ Setups \subseteq [active: BOOLEAN, legacy: BOOLEAN, born: BOOLEAN]
  /\ Handlers \cap {"run", "boot", "launched"} = {}     \* names of others

VARIABLES
  setup,     \* is the agent the active one, of an old version, past its birth
  disk,      \* the files: sets of entries, or Torn
  todo,      \* per process: the rest of its program
  copy,      \* per process: the files it holds in memory
  over,      \* processes in the middle of a write that somebody wrote across
  mem,       \* the server's shared keys, secrets and accounts, the run's config
  budget,    \* requests and crashes left
  acked,     \* history, per file: what it would be had the writes come one by one
  missed,    \* history, per process and file: entries written since it loaded
  risked     \* history, per file: entries written across

storesVars == <<setup, disk, todo, copy, over, mem, budget, acked, missed, risked>>

Files == {"config", "keys", "secrets", "constraints", "jobs", "global", "config2"}
Procs == Handlers \cup {"run", "boot"}
Holders == Procs \cup {"launched"}
Torn == {"torn"}
LegacyEntries == {"old", "legacy"}
Entries ==
  LegacyEntries \cup
  {"agent", "second", "mentor", "tier", "catalog", "preferred", "ego", "account",
   "mcp", "openai", "perplexity", "tavily", "password", "vault", "limit", "job", "born"}

Clean == [f \in Files |-> {}]
Nothing == [f \in Files |-> Torn]     \* no file in memory
Up == todo["boot"] = << >>

\* Files whose reader gives up when it cannot parse them; the others are then
\* taken as empty (the jobs file is one or the other: empty is no jobs, garbled
\* is an error).
Strict == {"config", "config2", "global"}

\* AppConfig::save skips the key fields of old versions.
Serialise(f, c) == IF f = "config" THEN c \ LegacyEntries ELSE c

StoresInit ==
  /\ setup \in Setups
  /\ disk = [Clean EXCEPT !["config"] = {"agent"} \cup
                              IF setup.legacy THEN LegacyEntries ELSE {},
                            !["global"] = {"agent"}]
  /\ todo = [p \in Procs |-> IF p = "boot" /\ setup.active THEN Boot ELSE << >>]
  /\ copy = [p \in Procs |-> Nothing]
  /\ over = {}
  /\ mem = [keys |-> {}, secrets |-> {}, accounts |-> {}, config |-> Torn]
  /\ budget = [requests |-> MaxRequests, crashes |-> MaxCrashes]
  /\ acked = [Clean EXCEPT !["config"] = {"agent"}, !["global"] = {"agent"}]
  /\ missed = [p \in Holders |-> Clean]
  /\ risked = Clean

------------------------------------------------------------------------------
(* What the processes are asked to do. *)

Requests ==
  {ListAgents, TierModels, TierModelsUpdate, TierModelsRefresh, TierModelsValidate,
   TierModelsReset, SetActiveProvider, UnsetActiveProvider, ConnectivityProviders,
   StoreKey("perplexity"), StoreKey("tavily"), RemoveKey("perplexity"),
   RegisterEmailAccount, PersistentConstraints, CreateJob, SetMentorName, LoadAgent,
   CreateAgent, QuickStart, ImportAgent, ImportRefused, ExportAgent, AgentIdentity,
   AgentConstitution, AgentVerify}
    \cup (IF setup.born THEN {ChatStoresKey("perplexity"), ChatStoresSecret, SaveDiscovered}
                        ELSE {ConnectivityChat("perplexity")})

RunTurns ==
  {RunStoresKey("perplexity"), RunStoresSecret, RunRegistersMcp, RegisterEmailAccount,
   SaveDiscovered}

\* Process p begins a program; it holds no file yet.
Begin(p, program) ==
  /\ Up /\ todo[p] = << >>
  /\ todo' = [todo EXCEPT ![p] = program]
  /\ UNCHANGED <<setup, disk, copy, over, mem, acked, missed, risked>>

Counted == budget.requests > 0 /\ budget' = [budget EXCEPT !.requests = @ - 1]

\* An agent is created once: its directory carries a fresh uuid.
Accept(h) ==
  \E program \in Requests :
    /\ ("config2" \in {program[i].file : i \in DOMAIN program}) =>
         /\ disk["config2"] = {}
         /\ \A q \in Handlers : "config2" \notin {todo[q][i].file : i \in DOMAIN todo[q]}
    /\ Begin(h, program) /\ Counted

\* One run, launched before the requests are used up; its launch is not counted.
LaunchRun == /\ setup.born /\ mem.config = Torn /\ budget.requests > 0
             /\ Begin("run", LaunchProgram) /\ UNCHANGED budget

RunTurn == /\ mem.config # Torn /\ Counted
           /\ \E program \in RunTurns : Begin("run", program)

------------------------------------------------------------------------------
(* One step of a program. *)

Doing(p, what) == todo[p] # << >> /\ Head(todo[p]).do = what
Step(p) == Head(todo[p])
Continue(p) == todo' = [todo EXCEPT ![p] = Tail(@)]

\* A handler that cannot go on answers with an error; the server starts anyway.
GiveUp(p) == todo' = [todo EXCEPT ![p] = IF p = "boot" THEN Shared ELSE << >>]

\* Process p now holds c[p] and has missed m[p]; when it is done it forgets both.
Holds(p, c, m) ==
  /\ copy' = [c EXCEPT ![p] = IF todo'[p] = << >> THEN Nothing ELSE @]
  /\ missed' = [m EXCEPT ![p] = IF todo'[p] = << >> THEN Clean ELSE @]

\* AppConfig::load, ProviderKeyring::load and the others.  A configuration of
\* an old version is saved at once, without its keys, which the reader holds.
LoadStep(p) ==
  /\ Doing(p, "load")
  /\ LET f == Step(p).file
         torn == disk[f] = Torn
         Got(content) == Holds(p, [copy EXCEPT ![p][f] = content],
                               [missed EXCEPT ![p][f] = IF torn THEN Entries ELSE {}])
     IN \/ torn /\ f \in Strict \cup {"jobs"} /\ GiveUp(p) /\ Got(Torn)
        \/ torn /\ f \notin Strict /\ Continue(p) /\ Got({})
        \/ "old" \in disk[f] /\ todo' = [todo EXCEPT ![p] = Save(f, {}, {}) \o Tail(@)]
             /\ Got(disk[f] \ {"old"})
        \/ ~torn /\ "old" \notin disk[f] /\ Continue(p) /\ Got(disk[f])
  /\ UNCHANGED <<setup, disk, over, mem, budget, acked, risked>>

CreateStep(p) ==
  /\ Doing(p, "create") /\ Continue(p)
  /\ Holds(p, [copy EXCEPT ![p][Step(p).file] = {}], [missed EXCEPT ![p][Step(p).file] = {}])
  /\ UNCHANGED <<setup, disk, over, mem, budget, acked, risked>>

NeedStep(p) ==
  /\ Doing(p, "need")
  /\ IF Step(p).add \subseteq copy[p][Step(p).file] THEN Continue(p) ELSE GiveUp(p)
  /\ Holds(p, copy, missed)
  /\ UNCHANGED <<setup, disk, over, mem, budget, acked, risked>>

PeekStep(p) ==
  /\ Doing(p, "peek")
  /\ IF disk[Step(p).file] = Torn THEN GiveUp(p) ELSE Continue(p)
  /\ UNCHANGED <<setup, disk, copy, over, mem, budget, acked, missed, risked>>

\* std::fs::write, first half: open and truncate.
Truncate(p) ==
  /\ Doing(p, "truncate")
  /\ LET s == Step(p)
     IN /\ copy' = [copy EXCEPT ![p][s.file] = (@ \cup s.add) \ s.del]
        /\ disk' = [disk EXCEPT ![s.file] = Torn]
  /\ todo' = [todo EXCEPT ![p][1].do = "fill"]
  /\ over' = over \ {p}
  /\ UNCHANGED <<setup, mem, budget, acked, missed, risked>>

\* Second half: write what was serialised.
Fill(p) ==
  /\ Doing(p, "fill") /\ Continue(p)
  /\ LET s == Step(p)
         f == s.file
     IN /\ \/ disk' = [disk EXCEPT ![f] = Serialise(f, copy[p][f])]
           \/ p \in over /\ disk' = [disk EXCEPT ![f] = Torn]
        /\ over' = (over \cup {q \in Procs : Doing(q, "fill") /\ Step(q).file = f}) \ {p}
        /\ acked' = [acked EXCEPT ![f] = (@ \cup s.add) \ s.del]
        /\ risked' = [risked EXCEPT ![f] = @ \cup missed[p][f]]
        /\ Holds(p, copy, [q \in Holders |->
                   IF q = p \/ (q \in Procs /\ copy[q][f] = Torn) THEN missed[q]
                   ELSE [missed[q] EXCEPT ![f] = @ \cup s.add \cup s.del]])
  /\ UNCHANGED <<setup, mem, budget>>

\* Into the server's memory.  sync_email_accounts leaves the list alone when
\* the agent has no account.
Kept(p, f) ==
  LET own == copy[p]["config"] \cap {"account"}
  IN IF f # "accounts" THEN copy[p][f] ELSE IF own = {} THEN mem.accounts ELSE own

KeepStep(p) ==
  /\ Doing(p, "keep") /\ Continue(p)
  /\ LET f == Step(p).file
     IN /\ mem' = [mem EXCEPT ![f] = Kept(p, f)]
        /\ Holds(p, copy, [missed EXCEPT
             !["launched"]["config"] = IF f = "config" THEN missed[p][f] ELSE @])
  /\ UNCHANGED <<setup, disk, over, budget, acked, risked>>

ShareStep(p) ==
  /\ Doing(p, "share") /\ Continue(p)
  /\ mem' = [mem EXCEPT ![Step(p).file] = @ \cup Step(p).add]
  /\ Holds(p, copy, missed)
  /\ UNCHANGED <<setup, disk, over, budget, acked, risked>>

\* A turn of the run works on the configuration of its launch.
RecallStep(p) ==
  /\ Doing(p, "recall") /\ Continue(p)
  /\ Holds(p, [copy EXCEPT ![p]["config"] = mem.config],
              [missed EXCEPT ![p]["config"] = missed["launched"]["config"]])
  /\ UNCHANGED <<setup, disk, over, mem, budget, acked, risked>>

\* migrate_keys_to_keyring.
MigrateStep(p) ==
  /\ Doing(p, "migrate")
  /\ todo' = [todo EXCEPT ![p] =
       IF "legacy" \in copy[p]["config"] /\ "openai" \notin copy[p]["keys"]
       THEN Save("keys", {"openai"}, {}) \o Save("config", {}, {}) \o Tail(@)
       ELSE Tail(@)]
  /\ UNCHANGED <<setup, disk, copy, over, mem, budget, acked, missed, risked>>

------------------------------------------------------------------------------
Crash ==
  /\ budget.crashes > 0
  /\ budget' = [budget EXCEPT !.crashes = @ - 1]
  /\ todo' = [p \in Procs |-> IF p = "boot" /\ setup.active THEN Boot ELSE << >>]
  /\ copy' = [p \in Procs |-> Nothing]
  /\ over' = {}
  /\ mem' = [keys |-> {}, secrets |-> {}, accounts |-> {}, config |-> Torn]
  /\ missed' = [p \in Holders |-> Clean]
  /\ UNCHANGED <<setup, disk, acked, risked>>

ProgramStep(p) ==
  \/ LoadStep(p) \/ PeekStep(p) \/ CreateStep(p) \/ NeedStep(p)
  \/ Truncate(p) \/ Fill(p)
  \/ KeepStep(p) \/ ShareStep(p) \/ RecallStep(p) \/ MigrateStep(p)

StoresNext ==
  \/ \E h \in Handlers : Accept(h)
  \/ LaunchRun \/ RunTurn \/ Crash
  \/ \E p \in Procs : ProgramStep(p)

StoresSpec == StoresInit /\ [][StoresNext]_storesVars

------------------------------------------------------------------------------
(* Properties. *)

Between(a, b) == (a \ b) \cup (b \ a)

\* What a request has saved stays saved, whatever is saved after it, unless
\* the later writer had loaded the file before, or had found it half written:
\* run one after the other, no two handlers undo each other's work.
LostOnlyIfOverlapped ==
  \A f \in Files :
    disk[f] # Torn => Between(disk[f] \ LegacyEntries, acked[f]) \subseteq risked[f]

\* However the writes meet, and wherever a crash falls, a configuration that
\* can be read is that of the agent, also for a new agent as soon as the hive
\* lists it.
ConfigKeepsTheAgent ==
  /\ "agent" \in disk["config"] \/ disk["config"] = Torn
  /\ "second" \in disk["global"] => "agent" \in disk["config2"] \/ disk["config2"] = Torn

\* Loading an old configuration erases the API key it holds, yet a start of
\* the server that is not cut short has put the active agent's in its keyring.
LegacyKeyMoved ==
  Up /\ setup.active /\ setup.legacy /\ budget.crashes = MaxCrashes
    => "openai" \in acked["keys"]
=============================================================================
