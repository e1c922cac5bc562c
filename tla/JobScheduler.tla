---------------------------- MODULE JobScheduler ----------------------------
(***************************************************************************)
(* The scheduled jobs of one agent: orchestration_jobs.json, the scheduler *)
(* loop that runs what is due, the run-now handler, and the edits made by  *)
(* the API and by the manage_job tool (crates/orion-api/src/main.rs,       *)
(* crates/orion-api/src/orchestration.rs, crates/orion-api/src/agentic.rs).*)
(*                                                                         *)
(* Nothing locks the file.  Every writer reads the whole of it and later   *)
(* writes the whole of it: an edit at once, the scheduler and run-now      *)
(* after the jobs they ran, which may take minutes.  A cron expression is  *)
(* a grid of Period ticks.  A job record keeps what is_job_due reads:      *)
(* whether the job is enabled, and last_run_at or else created_at, as      *)
(* `ref`.  A read or a write of the file is one step, and succeeds.        *)
(***************************************************************************)
EXTENDS Integers, FiniteSets

CONSTANTS
  Jobs,        \* job ids
  Mode,        \* Mode[j]: "id_check" or "agentic_run"
  Policy,      \* Policy[j]: significance policy, [escalateMedium, flagHigh]
  Period,      \* ticks between two points of the cron grid
  Clients,     \* requests and manage_job calls that are under way at a time
  Scheduler,
  MaxTime,     \* bound on the clock
  MaxRequests, \* bound on requests that touch the jobs
  MaxRestarts  \* bound on restarts of the server

ASSUME JobsAssumption == Jobs # {}
ASSUME PeriodAssumption == Period \in Nat \ {0}
ASSUME BoundsAssumption == {MaxTime, MaxRequests, MaxRestarts} \subseteq Nat
ASSUME WorkersAssumption == Scheduler \notin Clients
ASSUME ModeAssumption == Mode \in [Jobs -> {"id_check", "agentic_run"}]
ASSUME PolicyAssumption == Policy \in [Jobs -> [escalateMedium : BOOLEAN, flagHigh : BOOLEAN]]

Workers == Clients \cup {Scheduler}
Gone    == [enabled |-> FALSE, ref |-> -1]  \* no such job in the list
Nobody  == [j \in Jobs |-> Gone]

VARIABLES
  now,         \* the clock
  jobs,        \* the jobs file
  busy,        \* the agent has an active autonomous run
  step,        \* step[w]: idle, holding a list, or running a job of its list
  list,        \* list[w]: the jobs as w read them, with w's own updates
  pending,     \* due jobs of the scheduler's list it has not come to yet
  target,      \* target[w]: the job w runs
  requests,    \* requests that have read the file
  restarts,    \* restarts of the server
  served,      \* history: when j's last scheduled run ended
  rolledBack,  \* history: jobs whose recorded run a save or a crash undid
  reran        \* history: jobs run by the scheduler again for a slot it had served

workVars    == <<step, list, pending, target>>
historyVars == <<served, rolledBack, reran>>
countVars   == <<requests, restarts>>
vars == <<now, jobs, busy, workVars, countVars, historyVars>>

AnyJob == CHOOSE j \in Jobs : TRUE

Init ==
  /\ now = 0
  /\ jobs = Nobody
  /\ busy = FALSE
  /\ step = [w \in Workers |-> "idle"]
  /\ list = [w \in Workers |-> Nobody]
  /\ pending = {}
  /\ target = [w \in Workers |-> AnyJob]
  /\ requests = 0 /\ restarts = 0
  /\ served = [j \in Jobs |-> -1]
  /\ rolledBack = {}
  /\ reran = {}

-----------------------------------------------------------------------------
(* Cron, significance, and whole-file saves.                               *)

\* schedule.after(ref).next(): the first grid point after ref.
NextSlot(ref) == (ref \div Period + 1) * Period

Due(job, time) == job # Gone /\ job.enabled /\ NextSlot(job.ref) <= time

\* decide_action for a job in its mode, given the significance of Id's output.
Decide(j, significance) ==
  CASE Mode[j] = "agentic_run" -> "SpawnAgentic"
    [] Mode[j] = "id_check" /\ significance = "High" ->
         IF Policy[j].flagHigh THEN "FlagMentor" ELSE "SpawnAgentic"
    [] Mode[j] = "id_check" /\ significance = "Medium" ->
         IF Policy[j].escalateMedium THEN "SpawnAgentic" ELSE "SilentLog"
    [] OTHER -> "SilentLog"

\* Jobs whose recorded state goes back in time when `new` replaces the file.
UndoneBy(new) == {j \in Jobs : new[j] # Gone /\ (jobs[j] = Gone \/ new[j].ref < jobs[j].ref)}

Save(new) ==
  /\ jobs' = new
  /\ rolledBack' = rolledBack \cup UndoneBy(new)

\* Whatever w did is over and its list is dropped.
Finish(w) ==
  /\ step' = [step EXCEPT ![w] = "idle"]
  /\ list' = [list EXCEPT ![w] = Nobody]
  /\ target' = [target EXCEPT ![w] = AnyJob]

-----------------------------------------------------------------------------
(* Edits: create, delete, enable or update, by the API or by manage_job.   *)

ReadJobs(c) ==
  /\ step[c] = "idle"
  /\ requests < MaxRequests
  /\ requests' = requests + 1
  /\ step' = [step EXCEPT ![c] = "holding"]
  /\ list' = [list EXCEPT ![c] = jobs]
  /\ UNCHANGED <<now, jobs, busy, pending, target, restarts, historyVars>>

\* The id is fresh, nothing is known of it: only ids that are in no list stand
\* for it, and their history starts anew.
CreateJob(c, j) ==
  /\ step[c] = "holding"
  /\ jobs[j] = Gone /\ \A w \in Workers : list[w][j] = Gone
  /\ LET new == [list[c] EXCEPT ![j] = [enabled |-> TRUE, ref |-> now]] IN
     /\ jobs' = new
     /\ rolledBack' = (rolledBack \cup UndoneBy(new)) \ {j}
  /\ served' = [served EXCEPT ![j] = -1]
  /\ reran' = reran \ {j}
  /\ Finish(c)
  /\ UNCHANGED <<now, busy, pending, countVars>>

DeleteJob(c, j) ==
  /\ step[c] = "holding"
  /\ list[c][j] # Gone
  /\ Save([list[c] EXCEPT ![j] = Gone])
  /\ Finish(c)
  /\ UNCHANGED <<now, busy, pending, countVars, served, reran>>

SetEnabled(c, j) ==
  /\ step[c] = "holding"
  /\ list[c][j] # Gone
  /\ Save([list[c] EXCEPT ![j].enabled = ~list[c][j].enabled])
  /\ Finish(c)
  /\ UNCHANGED <<now, busy, pending, countVars, served, reran>>

\* The request is refused, or only read the list.
GiveUp(c) ==
  /\ step[c] = "holding"
  /\ Finish(c)
  /\ UNCHANGED <<now, jobs, busy, pending, countVars, historyVars>>

-----------------------------------------------------------------------------
(* Running one job: run_orchestration_job_once.                            *)

\* What a job does for the agent: an autonomous run is launched, unless one is
\* active or the launch fails; or an alert is appended to the chat, or nothing.
\* An Id check whose model fails has low significance.
Act(j) ==
  \E significance \in {"Low", "Medium", "High"} :
    busy' \in IF Decide(j, significance) = "SpawnAgentic" THEN {busy, TRUE} ELSE {busy}

\* update_job_after_execution.
Ran(w) == [list[w] EXCEPT ![target[w]].ref = now]

-----------------------------------------------------------------------------
(* The scheduler.                                                          *)

\* A tick of the scheduler's interval that finds something due.
SchedulerWakes ==
  /\ step[Scheduler] = "idle"
  /\ \E j \in Jobs : Due(jobs[j], now)
  /\ list' = [list EXCEPT ![Scheduler] = jobs]
  /\ pending' = {j \in Jobs : Due(jobs[j], now)}
  /\ step' = [step EXCEPT ![Scheduler] = "holding"]
  /\ UNCHANGED <<now, jobs, busy, target, countVars, historyVars>>

\* Mutant: a pass runs one due job.
BeginFirstOnly ==
  /\ step[Scheduler] = "holding"
  /\ pending # {}
  /\ target' = [target EXCEPT ![Scheduler] = CHOOSE j \in Jobs : j \in pending]
  /\ pending' = {}
  /\ step' = [step EXCEPT ![Scheduler] = "running"]
  /\ UNCHANGED <<now, jobs, busy, list, countVars, historyVars>>

BeginJob ==
  /\ step[Scheduler] = "holding"
  /\ \E j \in pending :
       /\ target' = [target EXCEPT ![Scheduler] = j]
       /\ pending' = pending \ {j}
       /\ reran' = IF NextSlot(list[Scheduler][j].ref) <= served[j]
                   THEN reran \cup {j} ELSE reran
  /\ step' = [step EXCEPT ![Scheduler] = "running"]
  /\ UNCHANGED <<now, jobs, busy, list, countVars, served, rolledBack>>

\* Mutant: a run whose log entry could not be written is not marked.
EndJobUnmarked ==
  /\ step[Scheduler] = "running"
  /\ Act(target[Scheduler])
  /\ list' \in {list, [list EXCEPT ![Scheduler] = Ran(Scheduler)]}
  /\ served' = [served EXCEPT ![target[Scheduler]] = now]
  /\ step' = [step EXCEPT ![Scheduler] = "holding"]
  /\ UNCHANGED <<now, jobs, pending, target, countVars, rolledBack, reran>>

\* The job ran and is marked, also when its log entry could not be written.
EndJob ==
  /\ step[Scheduler] = "running"
  /\ Act(target[Scheduler])
  /\ list' = [list EXCEPT ![Scheduler] = Ran(Scheduler)]
  /\ served' = [served EXCEPT ![target[Scheduler]] = now]
  /\ step' = [step EXCEPT ![Scheduler] = "holding"]
  /\ UNCHANGED <<now, jobs, pending, target, countVars, rolledBack, reran>>

\* The agent's config cannot be read: nothing happens, and nothing is recorded.
JobUnreadable ==
  /\ step[Scheduler] = "running"
  /\ step' = [step EXCEPT ![Scheduler] = "holding"]
  /\ UNCHANGED <<now, jobs, busy, list, pending, target, countVars, historyVars>>

\* The pass is over and its list replaces the file.
SavePass ==
  /\ step[Scheduler] = "holding"
  /\ pending = {}
  /\ Save(list[Scheduler])
  /\ Finish(Scheduler)
  /\ UNCHANGED <<now, busy, pending, countVars, served, reran>>

-----------------------------------------------------------------------------
(* Run now.                                                                *)

RunNow(c, j) ==
  /\ step[c] = "holding"
  /\ list[c][j] # Gone
  /\ target' = [target EXCEPT ![c] = j]
  /\ step' = [step EXCEPT ![c] = "running"]
  /\ UNCHANGED <<now, jobs, busy, list, pending, countVars, historyVars>>

EndRunNow(c) ==
  /\ step[c] = "running"
  /\ Act(target[c])
  /\ Save(Ran(c))
  /\ Finish(c)
  /\ UNCHANGED <<now, pending, countVars, served, reran>>

\* The handler fails, or the client goes away and the handler is dropped: the
\* job may have had its effect, and is not marked.
RunNowUnmarked(c) ==
  /\ step[c] = "running"
  /\ Act(target[c])
  /\ Finish(c)
  /\ UNCHANGED <<now, jobs, pending, countVars, historyVars>>

-----------------------------------------------------------------------------
(* The agent, the clock, the server.                                       *)

\* The agent's run ends, or one is launched by hand.
AgentRunChanges ==
  /\ busy' = ~busy
  /\ UNCHANGED <<now, jobs, workVars, countVars, historyVars>>

TimePasses ==
  /\ now < MaxTime
  /\ now' = now + 1
  /\ UNCHANGED <<jobs, busy, workVars, countVars, historyVars>>

\* What the scheduler ran in this pass and did not save is forgotten.
Restart ==
  /\ restarts < MaxRestarts
  /\ restarts' = restarts + 1
  /\ busy' = FALSE
  /\ step' = [w \in Workers |-> "idle"]
  /\ list' = [w \in Workers |-> Nobody]
  /\ pending' = {}
  /\ target' = [w \in Workers |-> AnyJob]
  /\ rolledBack' = rolledBack \cup {j \in Jobs : list[Scheduler][j].ref > jobs[j].ref}
  /\ UNCHANGED <<now, jobs, requests, served, reran>>

-----------------------------------------------------------------------------
Edit(c) == \/ ReadJobs(c) \/ GiveUp(c)
           \/ \E j \in Jobs : CreateJob(c, j) \/ DeleteJob(c, j) \/ SetEnabled(c, j)

RunNowStep(c) == \/ \E j \in Jobs : RunNow(c, j)
                 \/ EndRunNow(c) \/ RunNowUnmarked(c)

SchedulerStep == SchedulerWakes \/ BeginJob \/ EndJob \/ JobUnreadable \/ SavePass

Next == \/ SchedulerStep
        \/ \E c \in Clients : Edit(c) \/ RunNowStep(c)
        \/ AgentRunChanges \/ TimePasses \/ Restart

Spec == Init /\ [][Next]_vars

\* The scheduler's interval keeps ticking and a job comes to its end: it asks the
\* Id, whose local client has a time limit, and launches a run without waiting
\* for it.  Nobody has to edit, ask or finish anything.
FairSpec == Spec /\ WF_vars(SchedulerStep)

-----------------------------------------------------------------------------
(* Properties.                                                             *)

JobRecords == [enabled : BOOLEAN, ref : 0 .. MaxTime] \cup {Gone}

\* Each variable stays in its range, and a worker that does nothing (in the code:
\* whose handler or pass has ended) holds no list.
TypeOK ==
  /\ now \in 0 .. MaxTime
  /\ jobs \in [Jobs -> JobRecords]
  /\ busy \in BOOLEAN
  /\ step \in [Workers -> {"idle", "holding", "running"}]
  /\ list \in [Workers -> [Jobs -> JobRecords]]
  /\ pending \subseteq Jobs
  /\ target \in [Workers -> Jobs]
  /\ requests \in 0 .. MaxRequests /\ restarts \in 0 .. MaxRestarts
  /\ served \in [Jobs -> -1 .. MaxTime]
  /\ rolledBack \subseteq Jobs /\ reran \subseteq Jobs
  /\ \A w \in Workers : step[w] = "idle" => list[w] = Nobody

\* The scheduler (run_orchestration_scheduler_loop) runs a job twice for one slot
\* of its cron schedule only if the record of the first run was undone, by a crash
\* before the save or by somebody's save of an older list; however long jobs take
\* and whatever is edited or run by hand meanwhile.
RerunOnlyIfUndone == reran \subseteq rolledBack

\* A job that is enabled and due is run by the scheduler, unless it is disabled,
\* deleted, run by hand or overwritten first: no job of a pass starves another.
DueIsRun ==
  \A j \in Jobs :
    Due(jobs[j], now) ~> (~Due(jobs[j], now) \/ (step[Scheduler] = "running" /\ target[Scheduler] = j))

-----------------------------------------------------------------------------
(* What the documentation says and the code does not do.                   *)

\* The delete handler is documented as "delete an orchestration job": a job that
\* was deleted does not come back.
DeletedStaysDeleted ==
  [][\A j \in Jobs : jobs[j] = Gone /\ jobs'[j] # Gone =>
       \E c \in Clients : CreateJob(c, j)]_vars
=============================================================================
