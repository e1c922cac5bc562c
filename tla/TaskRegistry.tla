---------------------------- MODULE TaskRegistry ----------------------------
(***************************************************************************)
(* The in-memory map of autonomous tasks (AppState.agentic_tasks) and the  *)
(* three parties that work on it in crates/orion-api/src/main.rs:          *)
(* launches (launch_agentic_task_internal, called by HTTP requests and by  *)
(* the job scheduler), the loops they spawn, and the periodic cleanup.     *)
(*                                                                         *)
(* The map is a tokio mutex held for one look or one change at a time, so  *)
(* a launch is four steps with awaits between them: look for an active     *)
(* task, insert the new one, prepare the loop, spawn it.  The future of an *)
(* HTTP handler is dropped at an await when its client goes away.  What a  *)
(* loop does inside is AgenticTask; here it is seen as TaskLifecycle shows *)
(* it: active, waiting for the mentor, ended.                              *)
(***************************************************************************)
EXTENDS FiniteSets

CONSTANTS
  Agents,
  Tasks,      \* task ids; one that nobody holds any more stands for a fresh one
  Callers,    \* clients and schedulers, each of which launches one task at a time
  Droppable,  \* the callers that are HTTP clients and may disconnect
  NoAgent, NoTask, NoCaller

ASSUME CallersAssumption == Droppable \subseteq Callers
ASSUME NobodyAssumption == NoAgent \notin Agents /\ NoTask \notin Tasks /\ NoCaller \notin Callers

VARIABLES
  step,        \* step[c]: how far caller c's launch has come
  claim,       \* claim[c]: the agent c is launching for
  holds,       \* holds[c]: the task c has inserted but not yet spawned
  registered,  \* keys of the task map
  owner,       \* owner[t]: task.agent_id
  status,      \* status[t]: task.status, the two waiting states as one
  loop,        \* loop[t]: run_agentic_loop for t is not spawned, alive or gone
  expired,     \* tasks whose completed_at is more than ten minutes ago
  launcher     \* history: the caller that inserted t

launchVars == <<step, claim, holds>>
taskVars   == <<registered, owner, status, loop, expired, launcher>>
vars == <<launchVars, taskVars>>

ActiveStatuses == {"Running", "Waiting"}

Init ==
  /\ step = [c \in Callers |-> "idle"]
  /\ claim = [c \in Callers |-> NoAgent]
  /\ holds = [c \in Callers |-> NoTask]
  /\ registered = {}
  /\ owner = [t \in Tasks |-> NoAgent]
  /\ status = [t \in Tasks |-> "Ended"]
  /\ loop = [t \in Tasks |-> "none"]
  /\ expired = {}
  /\ launcher = [t \in Tasks |-> NoCaller]

\* The tasks has_active_agentic_task would count for agent a.
ActiveOf(a) ==
  {t \in registered : owner[t] = a /\ status[t] \in ActiveStatuses}

\* Mutant: a task that waits for the mentor is not seen as active.
RunningOf(a) ==
  {t \in registered : owner[t] = a /\ status[t] = "Running"}

Fresh(t) == /\ t \notin registered
            /\ loop[t] # "alive"
            /\ \A c \in Callers : holds[c] # t

-----------------------------------------------------------------------------
(* A launch.                                                               *)

\* Mutant: only tasks in status Running block a launch.
CheckRunningOnly(c, a) ==
  /\ step[c] = "idle"
  /\ RunningOf(a) = {}
  /\ step' = [step EXCEPT ![c] = "checked"]
  /\ claim' = [claim EXCEPT ![c] = a]
  /\ UNCHANGED <<holds, taskVars>>

\* No active task was found; the map lock is released again.  A caller that
\* finds one gets a Conflict and nothing changes.
CheckActive(c, a) ==
  /\ step[c] = "idle"
  /\ ActiveOf(a) = {}
  /\ step' = [step EXCEPT ![c] = "checked"]
  /\ claim' = [claim EXCEPT ![c] = a]
  /\ UNCHANGED <<holds, taskVars>>

\* The new task goes into the map, Running, under a lock of its own.
InsertTask(c, t) ==
  /\ step[c] = "checked"
  /\ Fresh(t)
  /\ step' = [step EXCEPT ![c] = "preparing"]
  /\ holds' = [holds EXCEPT ![c] = t]
  /\ registered' = registered \cup {t}
  /\ owner' = [owner EXCEPT ![t] = claim[c]]
  /\ status' = [status EXCEPT ![t] = "Running"]
  /\ loop' = [loop EXCEPT ![t] = "none"]
  /\ expired' = expired \ {t}
  /\ launcher' = [launcher EXCEPT ![t] = c]
  /\ UNCHANGED claim

\* Email accounts synced, MCP servers contacted: the loop is spawned.
SpawnLoop(c) ==
  /\ step[c] = "preparing"
  /\ loop' = [loop EXCEPT ![holds[c]] = "alive"]
  /\ step' = [step EXCEPT ![c] = "idle"]
  /\ claim' = [claim EXCEPT ![c] = NoAgent]
  /\ holds' = [holds EXCEPT ![c] = NoTask]
  /\ UNCHANGED <<registered, owner, status, expired, launcher>>

\* The client disconnects and the handler's future is dropped where it awaits.
Disconnect(c) ==
  /\ c \in Droppable
  /\ step[c] # "idle"
  /\ step' = [step EXCEPT ![c] = "idle"]
  /\ claim' = [claim EXCEPT ![c] = NoAgent]
  /\ holds' = [holds EXCEPT ![c] = NoTask]
  /\ UNCHANGED taskVars

-----------------------------------------------------------------------------
(* The loops, and time.                                                    *)

LoopPauses(t) ==
  /\ loop[t] = "alive"
  /\ status[t] = "Running"
  /\ status' = [status EXCEPT ![t] = "Waiting"]
  /\ UNCHANGED <<launchVars, registered, owner, loop, expired, launcher>>

LoopResumes(t) ==
  /\ loop[t] = "alive"
  /\ status[t] = "Waiting"
  /\ status' = [status EXCEPT ![t] = "Running"]
  /\ UNCHANGED <<launchVars, registered, owner, loop, expired, launcher>>

LoopEnds(t) ==
  /\ loop[t] = "alive"
  /\ status[t] \in ActiveStatuses
  /\ status' = [status EXCEPT ![t] = "Ended"]
  /\ UNCHANGED <<launchVars, registered, owner, loop, expired, launcher>>

\* The audit record is written and the loop returns.
LoopReturns(t) ==
  /\ loop[t] = "alive"
  /\ status[t] = "Ended"
  /\ loop' = [loop EXCEPT ![t] = "gone"]
  /\ UNCHANGED <<launchVars, registered, owner, status, expired, launcher>>

\* Ten minutes have passed since completed_at.
Expire(t) ==
  /\ t \in registered \ expired
  /\ status[t] = "Ended"
  /\ expired' = expired \cup {t}
  /\ UNCHANGED <<launchVars, registered, owner, status, loop, launcher>>

-----------------------------------------------------------------------------
(* The cleanup loop, and a restart of the server.                          *)

Stale == {t \in registered : status[t] = "Ended" /\ t \in expired}

\* Mutant: everything that is not working at the moment is swept.
SweepIdle ==
  /\ \E t \in registered : status[t] # "Running"
  /\ registered' = {t \in registered : status[t] = "Running"}
  /\ expired' = expired \cap registered'
  /\ UNCHANGED <<launchVars, owner, status, loop, launcher>>

\* Mutant: the cutoff is compared the wrong way round.
SweepYoung ==
  LET young == {t \in registered \ expired : status[t] = "Ended"} IN
  /\ young # {}
  /\ registered' = registered \ young
  /\ UNCHANGED <<launchVars, owner, status, loop, expired, launcher>>

Sweep ==
  /\ Stale # {}
  /\ registered' = registered \ Stale
  /\ expired' = expired \ Stale
  /\ UNCHANGED <<launchVars, owner, status, loop, launcher>>

\* Tasks live in memory only.
Restart ==
  /\ registered # {}
  /\ step' = [c \in Callers |-> "idle"]
  /\ claim' = [c \in Callers |-> NoAgent]
  /\ holds' = [c \in Callers |-> NoTask]
  /\ registered' = {}
  /\ expired' = {}
  /\ loop' = [t \in Tasks |-> "none"]
  /\ UNCHANGED <<owner, status, launcher>>

-----------------------------------------------------------------------------
Launch(c) == \/ \E a \in Agents : CheckActive(c, a)
             \/ \E t \in Tasks : InsertTask(c, t)
             \/ SpawnLoop(c)
             \/ Disconnect(c)

LoopStep(t) == LoopPauses(t) \/ LoopResumes(t) \/ LoopEnds(t) \/ LoopReturns(t)

Next == \/ \E c \in Callers : Launch(c)
        \/ \E t \in Tasks : LoopStep(t) \/ Expire(t)
        \/ Sweep
        \/ Restart

Spec == Init /\ [][Next]_vars

\* Time passes and the cleanup interval ticks; nobody has to launch, answer or
\* finish anything.
FairSpec == /\ Spec
            /\ \A t \in Tasks : WF_vars(Expire(t))
            /\ WF_vars(Sweep)

-----------------------------------------------------------------------------
(* Properties.                                                             *)

\* Each variable stays in its range.
TypeOK ==
  /\ step \in [Callers -> {"idle", "checked", "preparing"}]
  /\ claim \in [Callers -> Agents \cup {NoAgent}]
  /\ holds \in [Callers -> Tasks \cup {NoTask}]
  /\ registered \subseteq Tasks
  /\ owner \in [Tasks -> Agents \cup {NoAgent}]
  /\ status \in [Tasks -> {"Running", "Waiting", "Ended"}]
  /\ loop \in [Tasks -> {"none", "alive", "gone"}]
  /\ expired \subseteq registered
  /\ launcher \in [Tasks -> Callers \cup {NoCaller}]

\* A loop that has not ended is in the map: the mentor's answers and a cancel
\* reach it, and a launch for its agent sees it.
ActiveIsFindable ==
  \A t \in Tasks : loop[t] = "alive" /\ status[t] \in ActiveStatuses => t \in registered

\* Two active tasks of one agent were launched by two different callers: a
\* client that waits for its launch to return never books an agent twice, so the
\* overbooking of an agent is bounded by the number of launches that race.
RivalsRaced ==
  \A a \in Agents : \A t, u \in ActiveOf(a) : t # u => launcher[t] # launcher[u]

\* An agent has at most one active task, as the error text "Agent already has a
\* running agentic task" promises: so it is while launches do not race.
AtMostOneActive == \A a \in Agents : \A t, u \in ActiveOf(a) : t = u

\* A task that ended leaves the map in the end; the map does not keep the dead.
EndedIsForgotten ==
  \A t \in Tasks : (t \in registered /\ status[t] = "Ended") ~> (t \notin registered)

-----------------------------------------------------------------------------
(* What the documentation says and the code does not do.                   *)

\* "Holds the state of a running agentic task", mutated "across the spawned task
\* and the API handler threads": a task listed as active has a loop, or a launch
\* about to spawn it.
ActiveHasLoop ==
  \A t \in registered : status[t] \in ActiveStatuses =>
    loop[t] = "alive" \/ \E c \in Callers : holds[c] = t
=============================================================================
