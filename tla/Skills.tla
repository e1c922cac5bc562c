------------------------------- MODULE Skills -------------------------------
(***************************************************************************)
(* Running a skill's tool: the shared registry with its built-in and MCP   *)
(* skills, the confirmation nonces of POST .../skills/{id}/execute, the    *)
(* executor with its permits, time limits and sandbox, and the two skills  *)
(* that keep something beyond a call: the filesystem skill's stash of the  *)
(* last structured failure and the processes of the shell and install      *)
(* skills (orion-skills/src/executor.rs, registry.rs, protocol/mcp.rs,     *)
(* orion-api/src/routes/skills.rs, src/skills/skill-filesystem,            *)
(* src/skills/skill-shell).                                                *)
(*                                                                         *)
(* A call comes from the HTTP API or from an agentic loop, which has asked *)
(* its mentor before (AgenticTask).  An API caller may hang up: axum then  *)
(* drops the handler at its next await.                                    *)
(***************************************************************************)
EXTENDS SkillTools, FiniteSets

CONSTANTS Calls,        \* calls that may be under way at once
          McpIds,       \* ids under which MCP servers are registered
          Setups,       \* the semaphore's permits (10 in the code), the tools called
          MaxNonces,    \* nonces ever issued (bound)
          MaxStrays     \* processes counted once their call is over (bound)

NoOne == "no one"
NoTool == "no tool"

ASSUME SkillsAssumption ==
    /\ NoOne \notin Calls
    /\ Setups \subseteq [permits : Nat \ {0}, offered : SUBSET STRING]
    /\ MaxNonces \in Nat /\ MaxStrays \in Nat

VARIABLES
    setup,      \* one of the Setups
    registry,   \* skill id -> its trust tier, or "absent"
    saved,      \* ids in mcp_servers of config.json
    nonces,     \* AppState.skill_confirm_nonces, by the order they were issued
    call,       \* the call of each slot
    queue,      \* calls waiting for a permit, in the order they asked
    stash,      \* last_structured_failure of the filesystem skill
    strays,     \* processes whose call is over
    uses        \* history: executions a nonce paid for

vars == <<setup, registry, saved, nonces, call, queue, stash, strays, uses>>

Ids == DOMAIN BuiltIns \union McpIds
PCs == {"idle", "gate", "execute", "queued", "running", "taking", "done"}

ToolsOf(id, tier) == IF tier = "Verified" THEN BuiltIns[id] ELSE McpTools
Home(name) == IF \E id \in DOMAIN BuiltIns : name \in DOMAIN BuiltIns[id]
              THEN {id \in DOMAIN BuiltIns : name \in DOMAIN BuiltIns[id]}
              ELSE McpIds

IdleCall == [pc |-> "idle", kind |-> "api", id |-> NoTool, name |-> NoTool, arg |-> "good",
             tier |-> "absent", nonce |-> 0, changed |-> FALSE, child |-> FALSE,
             out |-> "ok", failure |-> NoOne, mixed |-> FALSE]

Tiers == {"Verified", "AgentBuilt", "absent"}
TypeOK ==
    /\ setup \in Setups
    /\ registry \in [Ids -> Tiers]
    /\ saved \subseteq McpIds
    /\ nonces \in Seq([id : Ids, name : setup.offered, state : {"fresh", "stale", "gone"}])
    /\ Len(nonces) <= MaxNonces
    /\ call \in [Calls -> [pc : PCs, kind : {"api", "loop"}, id : Ids \union {NoTool},
                            name : setup.offered \union {NoTool}, arg : Args, tier : Tiers,
                            nonce : 0 .. MaxNonces, changed : BOOLEAN, child : BOOLEAN,
                            out : Results \union {"confirm", "refused"},
                            failure : Calls \union {NoOne}, mixed : BOOLEAN]]
    /\ queue \in Seq(Calls)
    /\ stash \in Calls \union {NoOne}
    /\ strays \in 0 .. MaxStrays
    /\ uses \in [1 .. MaxNonces -> Nat]

Registered == [id \in Ids |-> IF id \in DOMAIN BuiltIns THEN "Verified" ELSE "absent"]

Init ==
    /\ setup \in Setups
    /\ registry = Registered
    /\ saved = {}
    /\ nonces = <<>>
    /\ call = [c \in Calls |-> IdleCall]
    /\ queue = <<>>
    /\ stash = NoOne
    /\ strays = 0
    /\ uses = [n \in 1 .. MaxNonces |-> 0]

\* An answered call is over; a file call is remembered with what it ran beside.
Answer(c, out) ==
    IF call[c].name \in DOMAIN FileTools
    THEN [IdleCall EXCEPT !.pc = "done", !.out = out, !.name = call[c].name,
                          !.arg = call[c].arg, !.tier = call[c].tier, !.mixed = call[c].mixed]
    ELSE IdleCall

-----------------------------------------------------------------------------
\* The policy gate with the default envelope: only a personal query is refused.
Blocked(name, arg) == name \in Searching /\ arg = "bad"

\* api_execute_skill up to the confirmation; a blocked call is answered at once.
ApiCall(c) ==
    /\ call[c].pc = "idle"
    /\ \E name \in setup.offered, arg \in Args, id \in Ids :
         /\ id \in Home(name) /\ arg \in ArgsOf(name)
         /\ ~ Blocked(name, arg)
         /\ call' = [call EXCEPT ![c] =
              [IdleCall EXCEPT !.pc = "gate", !.id = id, !.name = name, !.arg = arg]]
    /\ UNCHANGED <<setup, registry, saved, nonces, queue, stash, strays, uses>>

\* A turn of an agentic loop runs a tool it was allowed to run.
LoopCall(c) ==
    /\ call[c].pc = "idle"
    /\ \E name \in setup.offered, arg \in Args, id \in Ids :
         /\ id \in Home(name) /\ arg \in ArgsOf(name) /\ ~ Blocked(name, arg)
         /\ call' = [call EXCEPT ![c] =
              [IdleCall EXCEPT !.pc = "execute", !.kind = "loop", !.id = id, !.name = name, !.arg = arg]]
    /\ UNCHANGED <<setup, registry, saved, nonces, queue, stash, strays, uses>>

\* SkillExecutor::requires_confirmation: a skill or tool that is not there needs none.
RequiresConfirmation(id, name) ==
    /\ registry[id] # "absent"
    /\ name \in DOMAIN ToolsOf(id, registry[id])
    /\ ToolsOf(id, registry[id])[name].confirm

\* Every request that concerns confirmation drops the nonces of over five minutes.
Retain(ns) == [i \in DOMAIN ns |-> IF ns[i].state = "stale" THEN [ns[i] EXCEPT !.state = "gone"] ELSE ns[i]]

\* Mutant: the nonce is left in the map until it expires.
RedeemNever(ns, n) == ns

\* The nonce is taken out of the map before it is compared; 0 was never issued.
Redeem(ns, n) == [i \in DOMAIN ns |-> IF i = n THEN [ns[i] EXCEPT !.state = "gone"] ELSE ns[i]]
Matches(nonce, c) == nonce.id = call[c].id /\ nonce.name = call[c].name

NotAsked(c) ==
    /\ call[c].pc = "gate" /\ ~ RequiresConfirmation(call[c].id, call[c].name)
    /\ call' = [call EXCEPT ![c].pc = "execute"]
    /\ UNCHANGED nonces

IssueNonce(c) ==
    /\ call[c].pc = "gate" /\ RequiresConfirmation(call[c].id, call[c].name)
    /\ Len(nonces) < MaxNonces
    /\ nonces' = Append(Retain(nonces), [id |-> call[c].id, name |-> call[c].name, state |-> "fresh"])
    /\ call' = [call EXCEPT ![c] = Answer(c, "confirm")]

ConfirmWith(c, n) ==
    /\ call[c].pc = "gate" /\ RequiresConfirmation(call[c].id, call[c].name)
    /\ nonces' = Redeem(Retain(nonces), n)
    /\ IF n # 0 /\ Retain(nonces)[n].state = "fresh" /\ Matches(nonces[n], c)
       THEN call' = [call EXCEPT ![c].pc = "execute", ![c].nonce = n]
       ELSE call' = [call EXCEPT ![c] = Answer(c, "refused")]

Gate(c) ==
    /\ \/ NotAsked(c) \/ IssueNonce(c)
       \/ \E n \in 0 .. Len(nonces) : ConfirmWith(c, n)
    /\ UNCHANGED <<setup, registry, saved, queue, stash, strays, uses>>

-----------------------------------------------------------------------------
\* SkillExecutor::execute: a second look at the registry, then the sandbox.
Lookup(c) ==
    LET id == call[c].id  tier == registry[call[c].id]  name == call[c].name
        known == tier # "absent" /\ name \in DOMAIN ToolsOf(id, tier)
    IN  /\ call[c].pc = "execute"
        /\ \/ /\ known /\ Permitted(id, tier, ToolsOf(id, tier)[name])
              /\ call' = [call EXCEPT ![c].pc = "queued", ![c].tier = tier]
              /\ queue' = Append(queue, c)
           \/ /\ ~ (known /\ Permitted(id, tier, ToolsOf(id, tier)[name]))
              /\ call' = [call EXCEPT ![c] = Answer(c, "err")]
              /\ UNCHANGED queue
        /\ UNCHANGED <<setup, registry, saved, nonces, stash, strays, uses>>

Holders == {c \in Calls : call[c].pc \in {"running", "taking"}}
Filing(c) == call[c].pc \in {"running", "taking"} /\ call[c].name \in DOMAIN FileTools

\* FilesystemSkill::execute_tool clears the stash before it does anything.
ClearStash(c) == stash' = IF call[c].name \in DOMAIN FileTools THEN NoOne ELSE stash

\* A command that passes its check is a process from here on.
Spawns(c) == call[c].name \in Spawning /\ call[c].arg = "good"

\* The semaphore is fair: the first in the queue gets the next permit.
Acquire(c) ==
    /\ queue # <<>> /\ c = Head(queue)
    /\ Cardinality(Holders) < setup.permits
    /\ queue' = Tail(queue)
    /\ LET others == {d \in Calls \ {c} : Filing(d)}
           filing == call[c].name \in DOMAIN FileTools
       IN  call' = [d \in Calls |->
              IF d = c
              THEN [call[c] EXCEPT !.pc = "running", !.child = Spawns(c),
                                   !.mixed = filing /\ others # {}]
              ELSE IF filing /\ d \in others THEN [call[d] EXCEPT !.mixed = TRUE] ELSE call[d]]
    /\ ClearStash(c)
    /\ uses' = IF call[c].nonce = 0 THEN uses ELSE [uses EXCEPT ![call[c].nonce] = @ + 1]
    /\ UNCHANGED <<setup, registry, saved, nonces, strays>>

\* The processes that lose their call; the count stops at its bound.
Stray(cs) == LET n == strays + Cardinality({c \in cs : call[c].child})
             IN  IF n > MaxStrays THEN MaxStrays ELSE n

\* The tool's own end.  A process that timed out inside the tool is not killed.
Finish(c) ==
    /\ call[c].pc = "running" /\ ~ (call[c].name \in DOMAIN FileTools)
    /\ \E out \in ToolOutcomes(call[c].name, call[c].arg) :
         /\ call' = [call EXCEPT ![c] = Answer(c, out)]
         /\ strays' = IF out = "timeout" THEN Stray({c}) ELSE strays
    /\ UNCHANGED <<setup, registry, saved, nonces, queue, stash, uses>>

\* Mutant: a denial that does not go through permission_denied.
DenyQuietly(c) ==
    /\ call' = [call EXCEPT ![c].pc = "taking"]
    /\ UNCHANGED stash

\* permission_denied leaves the failure in the skill for execute_tool to find.
Deny(c) ==
    /\ call' = [call EXCEPT ![c].pc = "taking"]
    /\ stash' = c

FileStep(c) ==
    /\ call[c].pc = "running" /\ call[c].name \in DOMAIN FileTools
    /\ \E out \in ToolOutcomes(call[c].name, call[c].arg) :
         IF out = "denied" THEN Deny(c)
         ELSE call' = [call EXCEPT ![c] = Answer(c, out)] /\ UNCHANGED stash
    /\ UNCHANGED <<setup, registry, saved, nonces, queue, strays, uses>>

TakeFailure(c) ==
    /\ call[c].pc = "taking"
    /\ call' = [call EXCEPT ![c] = [Answer(c, IF stash = NoOne THEN "err" ELSE "denied")
                                    EXCEPT !.failure = stash]]
    /\ stash' = NoOne
    /\ UNCHANGED <<setup, registry, saved, nonces, queue, strays, uses>>

\* Mutant: the time limit is applied to agent-built skills only.
TimeoutAgentBuilt(c) ==
    /\ call[c].pc = "running" /\ call[c].tier = "AgentBuilt"
    /\ strays' = Stray({c})
    /\ call' = [call EXCEPT ![c] = Answer(c, "err")]
    /\ UNCHANGED <<setup, registry, saved, nonces, queue, stash, uses>>

\* The executor's time limit drops the tool's future, not its process.
Timeout(c) ==
    /\ call[c].pc = "running" /\ ~ (call[c].name \in Synchronous)
    /\ strays' = Stray({c})
    /\ call' = [call EXCEPT ![c] = Answer(c, "err")]
    /\ UNCHANGED <<setup, registry, saved, nonces, queue, stash, uses>>

\* A waiting future that is dropped leaves the semaphore's queue.
Leave(c) ==
    IF call[c].pc = "queued"
    THEN LET i == CHOOSE i \in DOMAIN queue : queue[i] = c
         IN  queue' = SubSeq(queue, 1, i - 1) \o SubSeq(queue, i + 1, Len(queue))
    ELSE UNCHANGED queue

\* The HTTP client hangs up while the handler waits.
HangUp(c) ==
    /\ call[c].kind = "api"
    /\ call[c].pc = "queued" \/ (call[c].pc = "running" /\ ~ (call[c].name \in Synchronous))
    /\ strays' = Stray({c})
    /\ call' = [call EXCEPT ![c] = IdleCall]
    /\ Leave(c)
    /\ UNCHANGED <<setup, registry, saved, nonces, stash, uses>>

Return(c) ==
    /\ call[c].pc = "done"
    /\ call' = [call EXCEPT ![c] = IdleCall]
    /\ UNCHANGED <<setup, registry, saved, nonces, queue, stash, strays, uses>>

ChildEnds ==
    /\ strays > 0
    /\ strays' = strays - 1
    /\ UNCHANGED <<setup, registry, saved, nonces, call, queue, stash, uses>>

-----------------------------------------------------------------------------
\* Five minutes pass.
Expire ==
    /\ \E n \in DOMAIN nonces :
         /\ nonces[n].state = "fresh"
         /\ nonces' = [nonces EXCEPT ![n].state = "stale"]
    /\ UNCHANGED <<setup, registry, saved, call, queue, stash, strays, uses>>

\* register_with_tier replaces whatever has the id; calls between their two looks
\* at the registry are marked.
Register(id) ==
    /\ registry' = [registry EXCEPT ![id] = "AgentBuilt"]
    /\ call' = [c \in Calls |->
          IF call[c].pc = "execute" /\ call[c].id = id /\ registry[id] # "AgentBuilt"
          THEN [call[c] EXCEPT !.changed = TRUE] ELSE call[c]]

\* register_mcp_skill: a server that answers and has tools is registered, then
\* saved; failing to load or save the configuration is only logged.
RegisterMcp(id) ==
    /\ Register(id)
    /\ saved' \in {saved, saved \union {id}}
    /\ UNCHANGED <<setup, nonces, queue, stash, strays, uses>>

\* A launch registers the saved servers that are missing and answer.
ReloadMcp(id) ==
    /\ id \in saved /\ registry[id] = "absent"
    /\ Register(id)
    /\ UNCHANGED <<setup, saved, nonces, queue, stash, strays, uses>>

\* Only the configuration and the processes outlive the server.
Restart ==
    /\ registry' = Registered
    /\ nonces' = [n \in DOMAIN nonces |-> [nonces[n] EXCEPT !.state = "gone"]]
    /\ call' = [c \in Calls |-> IdleCall]
    /\ queue' = <<>> /\ stash' = NoOne
    /\ strays' = Stray(Calls)
    /\ UNCHANGED <<setup, saved, uses>>

Handling(c) ==
    \/ Gate(c) \/ Lookup(c) \/ Acquire(c) \/ FileStep(c) \/ TakeFailure(c)
    \/ Timeout(c) \/ Return(c)

Next ==
    \/ \E c \in Calls : ApiCall(c) \/ LoopCall(c) \/ Handling(c) \/ Finish(c) \/ HangUp(c)
    \/ \E id \in McpIds : RegisterMcp(id) \/ ReloadMcp(id)
    \/ Expire \/ ChildEnds \/ Restart

\* A handler goes on while it can, the semaphore serves its queue and timers fire.
\* Only a tool that cannot be interrupted is sure to end: an answer from outside
\* may never come.
FinishSynchronous(c) == call[c].name \in Synchronous /\ Finish(c)
Served(c) == Handling(c) \/ FinishSynchronous(c)
Spec == Init /\ [][Next]_vars /\ \A c \in Calls : WF_vars(Served(c))

-----------------------------------------------------------------------------
\* A tool that asks for confirmation runs for an API caller only on a nonce issued
\* for that very tool, and no nonce pays for two runs, however the requests, the
\* expiry and the removal from the map fall together.  The one way round is a skill
\* registered after the handler looked whether confirmation is needed and before
\* the executor looked the skill up (skills.rs api_execute_skill, executor.rs
\* execute).
NeedsNonce(c) == /\ call[c].kind = "api" /\ call[c].pc \in {"running", "taking"}
                 /\ ToolsOf(call[c].id, call[c].tier)[call[c].name].confirm
ConfirmedOnce ==
    /\ \A n \in DOMAIN uses : uses[n] <= 1
    /\ \A c \in Calls : NeedsNonce(c) =>
          \/ call[c].changed
          \/ /\ call[c].nonce \in DOMAIN nonces
             /\ Matches(nonces[call[c].nonce], c)
             /\ nonces[call[c].nonce].state = "gone"

\* A file call that was denied reports its own path: the failure it takes from the
\* stash is the one it left there, unless another file call ran at the same time and
\* cleared, took or replaced it (skill-filesystem permission_denied, execute_tool).
OwnFailure ==
    \A c \in Calls :
        call[c].pc = "done" /\ call[c].name \in DOMAIN FileTools
        /\ call[c].arg = "bad" /\ call[c].tier # "absent" /\ ~ call[c].mixed
            => call[c].out = "denied" /\ call[c].failure = c

\* Every call is answered or given up by its caller: a tool that never comes back is
\* cut off, its permit goes to the next in the queue (executor.rs execute).
EveryCallReturns == \A c \in Calls : call[c].pc # "idle" ~> call[c].pc \in {"idle", "done"}

------------------------------------------------------------------------------
(* What the documentation says and the code does not do.                   *)

\* "Maximum timeout in seconds.  Commands exceeding this are killed."
\* (skill-shell/src/lib.rs:54)
CommandsKilled == strays = 0
=============================================================================
