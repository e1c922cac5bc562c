# Orion Dock: specifications, model checks and proofs

TLA+ modules for the server side of Orion Dock (`src/crates`, `src/skills`). Each
module is written from the Rust code; paths below are those of the source files, a
bare name standing for the file of that name under `src/crates/`. `PROJECT.json`
relates every definition to the lines it models, lists the runs, the theorems, and
the hazards the properties are aimed at.

Contents: 1 the system, 2 the modules, 3 the runs, 4 fairness, 5 the proofs,
6 where code and documentation differ, 7 what is not modelled, 8 the plan.

## 1. The system

Orion Dock is one `axum` server process (`orion-api`) that hosts agents. An
agent is a directory of JSON files and a row of in-memory tables shared by all
request handlers (`AppState`). A chat request, an autonomous run and a scheduled
job each become calls of language models and of tools ("skills").

| component | state | operations | what is hard |
|---|---|---|---|
| autonomous run (`orion-api/src/agentic.rs`, `routes/agent_runs.rs`) | task record (status, turn, completed_at), two oneshot senders for the mentor's answers, a one-slot cancel channel, the loop's counters, the record file | turns of the loop, ask the mentor, confirm a tool, cancel, end, write the record | the loop and three handlers run on different threads with awaits between any two steps; answers, cancels and timeouts race |
| task registry (`orion-api/src/main.rs` 4622-4786, 5386-5410) | `agentic_tasks`, a map behind a mutex | launch (look, insert, prepare, spawn), cleanup of old tasks | a launch awaits between look and insert and between insert and spawn; clients disconnect; the server restarts |
| execution governor (`orion-router/src/governor.rs`, `execution_state.rs`) | goal frame, attempts, strategy, active mitigation, constraints | plan, reply, run tools, judge progress, pick a strategy, stop | long sequences of failures; budgets of rounds and time; every exit has to answer |
| scheduled jobs (`orion-api/src/orchestration.rs`, `main.rs` 4859-5098, 5299-5372) | `orchestration_jobs.json`, copies of it held by the scheduler and by run-now | create, enable, disable, delete, pass of the scheduler, run now | whole-file read, minutes of awaiting, whole-file write; crashes between run and save |
| operational chat (`main.rs` 2615-3079, 3226-4375) | `operational_chat.json`, archives, pending proposals | chat turn, proposal and confirmation, automatic and manual archive, notices of runs and jobs | five writers of one file without a lock; truncated files; stale copies held through model calls |
| Id/Ego router, safety filter, providers (`orion-router/src/router.rs`, `orion-core/src/superego.rs`, `orion-capabilities`) | providers, mode, the request under way, the stream shown so far | precheck, route, route with tools, stream, heartbeat | fallback between providers differs between the routing functions; a stream that breaks half way |
| council (`orion-router/src/council.rs`) | drafts, critiques | draft in parallel, critique, rank, synthesize | one time limit around spawned work |
| birth (`orion-birth/src/stages.rs`, the birth and genesis handlers of `main.rs`) | stage in the configuration, signing key in memory and on disk, documents and signatures, birth row | advance, start and step a genesis, quick start, complete emergence | a crash between any two durable steps; requests that overlap |
| genesis sessions (`genesis-core`, `genesis-paths/*`, `soul-forge`, `orion-soul-crystallization`) | turns, phases, confidences, weights, archetype | begin, answer a scenario, a conversation turn | counters that grow on failed turns too; rounding and clamping at thresholds |
| skills (`orion-skills`, `routes/skills.rs`, `src/skills/*`) | registry, semaphore, confirmation nonces, stash of the filesystem skill, processes | register, replace, confirm, execute, time out, hang up | concurrency limit, nonces that race, two looks at the registry, dropped futures |
| cooperative install (`skill-cooperative-install`) | script files, what reports promise, the host | install here, in the toolbox, or by a script for the mentor | files named after seconds; package managers that claim success |
| files (`orion-core/src/config.rs`, `provider_keyring.rs`, `skill_keychain.rs`, `constraint_store.rs`, the handlers of `main.rs`) | `config.json`, keyrings, constraints, jobs, the hive's settings, copies in `AppState` and in runs | load, migrate, change, save | whole-file writes of concurrent handlers; crashes; copies that are never refreshed |
| event stream (`routes/agent_runs.rs`) | broadcast channel per task | subscribe, lag, end | a subscriber that comes late or too slow |
| memory, email, sensory input, frontend | database, remote services | - | outside services |

How they interact. The chat handler calls the governor, the council or the
router, may launch a run (`launch_agentic_task_internal`), and stores its turn.
The scheduler launches runs through the same function. A run is spawned by the
registry, reads and writes its own record there, calls the router (or the council) once
a turn and the skill executor for its tools, and ends by writing its record
file and a notice into the chat file. A job may put an alert into the chat file.
Birth chats go through the router, genesis steps through a strategy object.
Handlers share files and `AppState`, nothing else; files have no locks.

For each modelled part, correctness means:

* *run*: no question of the mentor is left without a way to answer it, nothing is
  cancelled unasked, gated tools run only with an approval each, status, closing
  event and a record that can be read agree, an acknowledged cancel ends the run;
* *registry*: a live run can be found, an ended one is forgotten, an agent is
  overbooked only by launches that race;
* *governor*: the user is asked only after a repeated failure, a decision to ask
  stands, stuck work is not simply retried and work that recovered goes on, every run
  ends unless a model call hangs;
* *jobs*: a slot of the schedule is served once, no due job is passed over;
* *chat*: an entry is lost only where the file handling exposes it, a proposal is
  settled once, every turn ends or stands in a model call that hangs;
* *model calls*: a failing Ego is covered wherever a fallback is promised, a stream
  speaks with one voice, stray council work comes from a council that was dropped, a
  run's breakers fire for cause, a request keeps its goal and its newest message;
* *birth*: a complete agent is signed with its own key over what is on disk, the key
  is not lost before that, stages go back only by stale saves;
* *genesis*: the interview ends at its cap, archetype and weights agree;
* *skills*: a confirmation pays for one run of the tool it was given for, a failure
  is reported to the call it belongs to, every call comes back;
* *install*: a script that completes leaves every check its report promised with
  something on the host to rest on;
* *files*: what is saved is lost only to an overlapping writer, a configuration that
  can be read is the agent's own, old keys move to the keyring.

## 2. The modules

    TaskLifecycle        what a run promises to everyone outside of it
      ^ implemented by
    AgenticTask          the loop and its handlers      AgenticTask_proofs
    TaskRegistry         launches, map, cleanup         TaskRegistry_proofs
    Governor             one governed execution         Governor_proofs
    JobScheduler         the jobs of one agent          JobScheduler_proofs
    OperationalChat      the chat of one agent          OperationalChat_proofs
    Birth                the birth of one agent         Birth_proofs
    GenesisInterview     one genesis session            GenesisInterview_proofs
    SkillTools <- Skills running a skill's tool         Skills_proofs
    HostInstall          the cooperative-install skill  Skills_proofs
    Providers, Superego <- ModelCalls
                         from a turn to an answer       AgenticTask_proofs
    StoreHandlers <- FileStores
                         the files, all who write them  TaskRegistry_proofs
    MC<module>           instances for TLC

(`A <- B`: B extends A.) Three proof modules hold two components each: skills with the
skill that installs for them, the loop with the calls it makes, the table in memory
with the files on disk. So that both can be extended, the second of each pair names its
specification after itself (`InstallSpec`, `CallsSpec`, `StoresSpec`).

`TaskRegistry` sees a run the way `TaskLifecycle` shows it
(active, waiting, ended), which is what the refinement below justifies;
`JobScheduler` sees runs as the flag `busy`, the answer of `has_active_agentic_task`;
`OperationalChat` sees runs and jobs as the notices they store. `ModelCalls` composes
the providers, the safety check, the router and the council with the callers that
use them, an autonomous run among them: it has the part of a turn that `AgenticTask`
takes as the reply of the model. `Skills` has what `AgenticTask` takes as the
execution of a tool, `GenesisInterview` what `Birth` takes as "the strategy advances".

**AgenticTask.** `pc` is where the loop stands; its values are the loop's await
points, so `Respond`, `Confirm` and `RequestCancel`, the handlers, interleave between
any two of its steps. `status`, `shownTurn`, `completedAt`, `mentorTx`, `confirmTx` are
fields of the task record; `mentorMsg`, `confirmMsg`, `cancelSlot` the content
of the channels. The model's replies are chosen from `Contents` (texts, told apart
only by the duplicate breaker), `Plans` (lists of tool calls, told apart by what
the loop does with them) and `Reported` (the status of `task_complete`, which the code
takes from the model as it is, "cancelled" included). The selects between an answer and
a cancel, a failed model call, the policy check before the tools, the text-only streak
and every way to leave the loop are actions or disjuncts.
`Leave` keeps the order of the code: closing event, then status, then record file,
whose write may fail unnoticed or stop half way; a cancel may come between. `TaskLifecycle` is the abstract specification, and
`LifecycleSpec` in `AgenticTask` is it under the refinement mapping.

**TaskRegistry.** A launch is four steps, as the mutex is taken twice and preparing
the loop awaits. A handler's future is dropped when its client goes away, so a
caller in `Droppable` may stop at each of them. Task ids that nobody holds are
used again for new tasks, which bounds the ids without bounding the launches.

**Governor.** One action per phase of `execute`: plan, top of the round (budget,
strategy), reply, tool, verdict. A failure is its `kind_key`, a criterion the
tool that verifies it, a risk the failure it predicts. The clock is a choice: a
frame with a time limit may find it exceeded at the top of any round.

**JobScheduler.** A cron expression is a grid of `Period` ticks; `NextSlot` is
`schedule.after(ref)`. A job record is what `is_job_due` reads. `list[w]` is the list
a worker holds from its read to its save; `Save` replaces the file by it. History:
`served`, the last slot run; `rolledBack`, jobs of which a save or a crash undid a
record; `reran`, jobs run again for a slot.

**OperationalChat.** A *writer* is a request with its answer (`Turns`), a notice or
an archive request; `copy[w]` is the conversation it has read. A file write is two
steps, `Truncate` and `Fill`, as `std::fs::write` is; so is that of an archive
(`CreateArchive`, `FillArchive`) and of the empty conversation behind it (`Clear`,
`Empty`). A file that does not parse is read as empty (`unwrap_or_default`), and two
writes that overlap may leave one that does not parse. A message is what `parse_confirmation_signal` and the proposal parser make
of it plus what its author meant. `atRisk` collects the entries whose only copy
was exposed: stored while another writer held an older copy, held by a writer with
the file truncated when somebody read it or the server stopped, overlapped, or
in an archive under whose name another was begun. The invariant says nothing else is lost.

**Birth.** A request is a sequence of steps, one per file it touches, with the copy of
the configuration it loaded (`req[s].cfg`); up to one request per slot is under way,
each may fail at any step, and the server may crash between any two. `config`, `pubkey`,
`keyFile`, `soul`, `signed`, `born`, `genesisPath` are files or rows and survive;
`birthKeys`, `session` and the sessions mutex do not. History: `raced`, a request
wrote over another's work, from a stale copy or over documents being signed; `persisted`,
the key has been on disk. Quick start is the program that skips stages and birth row.

**GenesisInterview.** A session begins a strategy and is advanced by whatever the mentor
sends. Weights are hundredths, confidences tenths; a reply may carry any number of
signals (`ApplySignals`), of which only their sum per dimension matters.
`DetermineArchetype` is the sort of the code with its stable order and its fallback for
the one pair without a compound, `FinalizeWeights` the clamping before it,
`CrystallizationTurn` counts the turn before the reply may fail.

**Skills**, on **SkillTools.** `SkillTools` is the data: every built-in tool with its
confirmation flag and network permission, and how a call of it can end, which the
sandbox and the tool's own checks decide (`ToolOutcomes`). `Skills` runs a call: policy
gate, look at the registry and issue or redeem a nonce (`Gate`), second look and sandbox
(`Lookup`), the semaphore's queue, the tool, the time limit. The filesystem
skill's call has two steps more, since the structured failure travels through a stash
that all calls share. A client may hang up, which drops the handler at its await; a
timeout drops the tool's future but not its process (`strays`). MCP servers are
registered, saved, and reloaded after a restart; in the model under ids of their own.

**HostInstall.** A report's script is a file named by second, purpose, cleaned label and
platform; `files` has the content under each name, `written` who wrote it. The mentor
runs a file line by line; a package manager may install, fail, be missing, or claim
success and do nothing. bash stops at a failing command, PowerShell only at one that is
not there. A generated check asks in one of five ways (`Checks`): the manager's record,
a name in the text of a listing, a command on PATH, an exit code, or in PowerShell the
value of an expression, which `Test-OrionCommand` throws away. `Answers` says which of
yes and no each may give on a host, `Alike` which packages a text search takes for
another.

**ModelCalls**, on **Providers** and **Superego.** `Superego` decides over classes of
words (a text is the set of word groups it hits) and reads the second model's verdict.
`Providers` selects providers by key, converts messages for Anthropic (merging roles),
and assembles replies and streams. In `ModelCalls` one caller makes one call after the
other; every await on a provider is a value of `call.pc`; draft and critique tasks of
a council run beside it, and those still running when its limit, or a client that goes
away (`ClientLeaves`), drops the council become `strays`. For an autonomous run the module
keeps the conversation, trims it (`TrimContext`), appends a council's plan to what is sent
(`Synthesised`), and has the duplicate breaker and the text-only streak over real
replies: a turn that asks the mentor neither counts nor resets the streak.

**FileStores**, on **StoreHandlers.** `StoreHandlers` gives each of thirty handlers,
turns of a run and the server's start as a program: the files it loads, changes and saves
whole, in order. `FileStores` interleaves the programs step by step. A write truncates
and fills; in between, or after a crash, the file is `Torn`, which the configuration's
readers refuse and the keyrings' readers take for empty. Two writes at once may leave a
file torn for good. `mem` holds what the server keeps from its start, and the configuration
a run was launched with. History: `acked`, what writers believe saved; `missed[p]`, what
others have saved since p loaded; `risked`, what a writer that had missed it wrote over.

## 3. The runs

| run | instance | states | shows |
|---|---|---|---|
| `agentic` | 4 turns, 4 texts, 6 plans, 3 words of outcome | 265 thousand | all promises of a run, its refinement of TaskLifecycle, its liveness |
| `registry` | 1 agent, 3 task ids, 2 callers, one may disconnect | 44 thousand | findable, forgotten, overbooked only in a race |
| `governor` | 5 frames, 2 tools, 2 failure kinds, replies of one to three calls | 292 thousand | the strategy rules, termination |
| `jobs` | 2 jobs of both modes, period 2, clock to 3, 3 requests, 1 restart | 92 thousand | one run per slot unless undone, no starvation |
| `chat` | 2 turns, 1 notice, 1 archive request, 1 earlier turn, 1 restart | 1.0 million | what can be lost, proposals settled once, turns end |
| `birth` | 2 requests at a time, 2 keypairs, 1 failure or crash | 3.7 million | signature, key and stages |
| `genesis` | every strategy and depth, 5 scenarios, 3 choices, cap 4, 6 turns | 16 thousand | the cap, the archetype |
| `skills` | 2 calls; 1 permit for commands, or 2 for a command, a file tool and an MCP tool; 1 nonce | 273 thousand | confirmations, failures, every call answered |
| `install` | 2 calls, 2 packages of one label, 3 managers and one that is unknown, 2 seconds | 4.9 million | scripts deliver |
| `modelcalls` | 12 callers, 8 answers, 4 stream events, conversations of 6 units | 185 thousand | fallback, streams, council, breakers, trimming |
| `modelcalls_duplicate` | the same | 3 thousand | the difference of section 6 |
| `filestores` | 2 setups, 2 requests, the run and the start, 1 crash | 881 thousand | what is lost, what is kept |

Why these bounds are enough to meet the interesting cases.

* `agentic`: four turns let the text-only streak reach its limit of three, the
  duplicate breaker see a text again, and two questions follow each other; a plan
  with two gated calls lets a decision for the first meet the second. The words a model
  may report are one the documentation lists, one it does not, and "cancelled", which a
  run may also end with for another reason. `MaxTurns` is
  the code's own limit (1 to 50), not an artificial bound.
* `registry`: two callers are needed for a race and three ids for an ended task, a
  stranded one and a fresh one at a time. Agents do not influence each other in any
  guard but through the map, so one is enough for the properties of one agent.
* `governor`: three rounds of up to three calls fill the three-attempt window of the
  loop detector, move it past failures that have been overcome, and leave a round after
  it; the frames are one with foresight, one without, a timed one and the two degenerate
  ones `validate` lets through (no criterion, no round).
* `jobs`: period 2 and a clock to 3 hold a slot, a point between slots and the next
  slot. Three requests are a create, an edit and a run-now. Artificial bounds:
  `MaxTime`, `MaxRequests`, `MaxRestarts`.
* `chat`: automatic archiving starts at two messages (four in the code, `MinArchived`),
  so that one earlier turn and two new ones are archived under one name with different
  content, one after the other and at once; `Seconds` has one value, the worst case. `MaxRestarts` is an artificial
  bound, as is the finite number of requests: the run may therefore stop and
  deadlock is not checked. The messages are honest ones: their author means what the
  program reads in them.
* `birth`: the two interviews stand for the third, since every step of a direct one is
  also one of a crystallization; two requests are enough for one to write over the
  other at every pair of steps; a second keypair shows what a second GET in Darkness does; one fault is the
  crash between two durable steps. `MaxKeys` and `MaxFaults` are artificial bounds;
  the proofs have none.
* `genesis`: weights need five scenarios to reach the clamp on both sides, and their
  choices lead to a pure archetype, to a compound and to the balanced one; choice 3
  does not exist; the confidences are those that sums of two kinds of signal reach, on two
  OCEAN dimensions, one moral one and the attachment. The cap of four (ten in the code)
  leaves room for failed turns on both sides of it. `MaxTurns` is an artificial bound on counting beyond the cap.
* `skills`: two calls are needed for a nonce redeemed twice, a permit waited for, a stash
  taken by another. One permit makes the queue, two let calls overlap (ten in the
  code). `MaxNonces` and `MaxStrays` are artificial bounds.
* `install`: one second after the other lets two calls write the same or different
  names; `g` and `g++` are cleaned to one label, as `sanitize_name` does, and a search
  for the first finds the second. The host may have either from the start. A manager
  that is asked for brings each way of checking: records, text searches, commands.
  `MaxOwn` bounds the steps and checks of a caller's own script.
* `modelcalls`: the callers cover each client library, mode, second check, and key
  situation; a run of four turns passes the limit of three turns without a tool, and two
  results of size 4 exceed the budget of 6, so that trimming drops between both ends. The
  pro run of three turns has council plans behind its trimmed requests; an answer that
  asks the mentor stands between answers without tools.
  `MaxEvents` bounds a stream: text, a call opened, and its end.
* `filestores`: two programs overlap at every pair of steps, a third (the start or the
  run) beside them; a second crash would start the same programs over. The setups are an
  active newborn agent and an inactive born one, both of the old version; handlers are
  symmetric. `MaxRequests` and `MaxCrashes` are artificial bounds.

In `agentic`, `registry`, `governor` and `jobs` deadlock is checked; where the program
ends, the modules say so with a stuttering action. In the others requests are
bounded, or sessions, scripts and runs end, so the system may really stop.

The type invariants of `AgenticTask`, `TaskRegistry`, `Governor`, `JobScheduler`,
`OperationalChat` and `Birth` are theorems (`TypeCorrect`) and therefore not checked again
by the runs; those of `Skills` and `GenesisInterview` are part of their proofs'
inductive invariants.

## 4. Fairness

Most model calls have no time limit that holds for every provider. The clients for
Anthropic, for compatible services and for the local model give each request 120 s, but
the OpenAI client sets no limit to a request that does not stream (`openai.rs:38-46`),
and neither the router nor its callers put one around it. The modules therefore assume
nothing of such a call (`AwaitsModel`): it may hang, and the liveness properties say so.

* `AgenticTask`: weak fairness of the loop's own steps (`OwnStep`), those that await no
  model: the loop is a spawned task that is always polled again, and the skill executor
  limits every tool. The heartbeat, a turn's call and the second safety check may hang.
  Waiting for the mentor has no limit, in the code as in the model: nobody is obliged to
  answer or to cancel.
* `TaskRegistry`: time passes and the cleanup interval ticks. Nobody has to launch.
* `Governor`: weak fairness of the steps that await no model. The planner, a round's
  reply and the closing summary may hang: the time budget is looked at only at the top of
  a round.
* `JobScheduler`: the scheduler's interval ticks and the jobs it runs end: they ask the
  local model only, whose client has a limit (`local_http.rs:147-151`). No fairness of
  requests, so run-now and edits may stop anywhere.
* `OperationalChat`: a turn that has begun is worked on, except while it stands in the
  governor, the router, or the model that reads what the tools did. The council has its
  own time limit. No fairness of notices, archives or restarts, and none of sending a
  request.
* `Skills`: for each call, weak fairness of its handler, the semaphore, its timer and
  a tool that cannot be interrupted: such a tool returns. Any other tool may never
  come back by itself, which is what the time limit is for.
* `ModelCalls`: weak fairness of the precheck, of the caller, of the council's time limit,
  and of each provider whose client sets a limit to its requests (`Limited`);
  `EveryCallEnds` leaves callers that wait for the OpenAI client out.
* `GenesisInterview`: the mentor stays and the model answers now and then; only the
  refutable `InterviewEnds` (section 6) uses it.
* `Birth`, `HostInstall`, `FileStores`: none; their properties are about what must not
  happen.

## 5. The proofs

Checked by TLAPS for every value of the constants that the modules' assumptions
allow. In each proof module an inductive invariant is shown to hold initially and
to be preserved by each action, and the properties follow from it.

* **AgenticTask_proofs.** `IInv` = types, `StatusFollowsPc` (which status goes with
  which point of the loop), `ExitChosenOnce` (exit, closing event, status and record
  are fixed in this order), `OneshotsHold` (while the loop waits, the sender is in the
  task record or its message in the channel, never both), `CancelWasAsked` (a full
  cancel slot or a cancel exit was asked for) and `ApprovalsCover` (approvals so far pay
  for the gated runs so far and for the decision under way). None of the properties is
  inductive alone: that a waiting run can be answered, for instance, needs where each
  sender is while the loop is *not* waiting. Theorems: `TypeCorrect`, `NoLostWakeup`,
  `NoSpuriousCancel`, `GatedRunsApproved`, `OneStory`, `CancelStopsTurns`, and `Implements`,
  that the run refines `TaskLifecycle` (`LifecycleInit`, `LifecycleStep`), all for any set
  of words the model may report, but for the two that stand for a missing and a torn
  record (`ReportedAssumption`).
* **TaskRegistry_proofs.** The invariant relates each caller's place in its launch to
  the tasks it inserted. Theorems: `TypeCorrect`, `ActiveCanBeFound`,
  `OverbookingIsARace`, and `SerialLaunchesNeverOverbook`: with one caller an agent
  never has two active tasks.
* **Governor_proofs.** The invariant follows the verdict through the strategy to the
  result (`PcInv`, `AskInv`, `ResultInv`) and says of a round that runs tools that it was
  not to stop and leaves the newest attempt behind (`RoundInv`); lemmas say what the loop
  detector and the stall detector imply about repeated failures. Theorems: `TypeCorrect`,
  `NoIdleQuestions`, `MitigationsFit`, `NoBlindRetry`, and two that no invariant states:
  `AskingStopsWork`, that a decision to ask is followed by the question or a limit and by
  nothing else, and `RecoveredRunsGoOn`, that two calls that worked keep a run going.
* **JobScheduler_proofs.** `IInv` = types, `Past` (no record is ahead of the clock),
  `Working` (what the scheduler runs is in the list it holds), `Recorded` (a served
  slot is in the file, or in the scheduler's list, or was undone) and the property.
  Theorems: `TypeCorrect`, `SlotsServedOnce`.
* **OperationalChat_proofs.** `IInv` = types, `HoldersCover` (a writer about to replace the
  file holds every stored entry that is not safe, that is, archived or exposed; so
  does one that archives, until its archive is filled; then everything is safe until
  the chat is cleared), `FileCovers` (so does the file, or it is truncated by such a
  writer), `ProposalsMoveOn`
  (a turn that may still propose has not; a pending or held proposal is unsettled and
  held once) and `CarriedOutOnce`. `LostOnlyIfAtRisk` alone says nothing about what a
  writer is about to write, which is what the next file will be. Theorems:
  `TypeCorrect`, `NothingElseIsLost`, `ProposalsSettleOnce`.
* **Birth_proofs.** Public key, private key and signature are written by different steps
  of different requests, and the properties relate them only at the end. `IInv` = types
  (`RequestsTyped`, `StateTyped`, `ArgumentsFit`), `CopiesHold` (what a request may rely on
  of the copy it loaded), `OwnKey` (every copy of a key is the agent's own),
  `FreshIsKeyless` (while the configuration is as created nobody holds a key, but those
  who just generated one) and `SignedFirst` (what is about to be declared complete is
  signed). `GeneratesOnce` is the heart: a request that generates a key and overwrites
  nothing is the first to do so. Theorems: `TypeCorrect`, `BornIsSigned`, `KeyIsKept`,
  `StagesGoForward`.
* **GenesisInterview_proofs.** Lemmas about the stable order of the dimensions
  (`PrimaryIsFirst`, `SecondaryIsNext`, `ArchetypeFits`) for arbitrary integer weights, the
  pair that falls back to the balanced archetype included; the invariant carries them to
  whatever names an archetype. Theorems: `LatticeIsCapped`,
  `ManifestsFit`, and `ScenariosPassOnce` (`OneAnswerPerScenario`, which no run checks):
  a forge session takes one answer per scenario, choices that do not exist included.
* **Skills_proofs.** Two invariants. For nonces, `IInv` = types, `QueueWaits` (the queue
  holds each waiting call once), and for each place of a call what it has paid:
  `UnpaidIsFree`, `PaidIsGone`, `HeldIsUnused`, `UnspentIsUnused`. That a nonce pays once
  needs that it is out of the map while its call waits for a permit. For the stash,
  `FInv` = `AloneOwnsTheStash` and `TierIsFound`. Theorems: `ConfirmationsPayOnce`, for any
  number of calls, permits and nonces, and `DenialsAreOwn`.

  For `HostInstall`, `InstallInv` = types, `ReportsHold` (a report's script is there,
  was written by its own call, and while nobody else wrote it secures what the report
  promises), `RunHolds` (so do the lines that are left of the script under way, together
  with what is on the host by now) and `DeliveredRan`. `MentorRunDelivers` compares a
  promise with the host after the last line; between the two is a loop over the lines.
  Theorem: `ScriptsDeliver`, for any packages, labels, likenesses of names and number of
  seconds: each check is backed by what that kind of check asks for, which for a text or
  a command is not always the package, and for a PowerShell expression is nothing.
* **AgenticTask_proofs, second half: ModelCalls.** Three invariants.
  `CallsInv` = types, `OneCallAtATime`, `StreakIsCounted` (the streak is the number
  of turns without a tool call since the last turn whose tools were done), `EgoWasTried`
  (who is asked as a fallback is asked because the other has failed) and `TasksOfPhase` (which council tasks can be running in
  which phase). Theorems: `FailuresAreCovered`, `StraysAreOfDropped`,
  `BreakerHasCause`.
  `VoiceInv` adds `ShownSoFar`: what a stream has shown comes from the provider asked now
  and is what that provider has sent, unless the Id broke off before. `ShownIsOneVoice` is
  about finished calls only, and a finished call is an unfinished one plus an event.
  Theorem: `ShownInOneVoice`.
  `HistoryKept`: the run's conversation begins with the prompt and the goal and, between
  two turns, ends with the newest message; what is sent ends with it too, or with a
  council's plan right behind it. Theorem: `RequestsKeepBothEnds`, for every
  budget, every size of messages and both client libraries. It rests on lemmas on what
  trimming (`TrimKeeps`) and merging roles for Anthropic (`MergeKeeps`, `ConvertKeeps`)
  do to a conversation of any length: trimming keeps the first two messages, and the last
  one unless it alone is larger than the room the first two leave; merging keeps what is
  said, in its order.
* **TaskRegistry_proofs, second half: FileStores.** `StoresInv` = types, `Programmed` (a
  process is somewhere in its program and holds the files the rest of it uses),
  `CopiesAreOld` and `ServerIsOld` (what a process or the server holds differs from what
  the file will be, once the writes on their way are done, only in what the holder has
  missed or in what was overlapped), `AgentKept`, `RegisteredLast` and `OneCreator` (a new
  agent has a configuration that names it before anybody can find it, and one process
  makes it) and `KeyOnItsWay` (a legacy key is in the keyring or the start of the server,
  alone, is about to put it there). What a handler will still do is a fact about
  the rest of its program, so each of the thirty programs is checked once and each
  step leaves a rest of the same kind. Theorems: `WritesSurvive`, `AgentsKeepTheirConfig`,
  `LegacyKeyArrives`, for any number of requests and crashes.

What a recursive definition computes is proved where it is a fact about every index of
one sequence. The induction theorems of the library take an operator as parameter and
cannot be used here; `SetInduction` (AgenticTask_proofs) says the same of a *set* of
numbers, from the well-foundedness of < on Nat (`WFMin`), and the facts about
`FlattenSeq`, the sum of sizes, trimming and merging are the statement that such a set is
all of Nat.

Proving found one kind of mistake in the model: in `Routed`, `Next1` and `L2Verdict` two
arms of a CASE could hold at once, which TLC resolves in the order written, as the code
does, and TLA+ leaves open. They are conditionals now.

The assumptions on constants are few: sets of writers do not overlap, "nobody" values
are not members of the sets they stand beside, bounds and sizes are natural numbers, plans
and replies are sequences, there is a scenario and a permit, cleaned labels are strings.

Every safety invariant and every action property that a passing run checks is also
a theorem.

Only model-checked: the liveness properties (`CancelEndsRun`, `SettlesOrWaits`,
`EndedIsForgotten`, `EveryRunEnds`, `DueIsRun`, `EveryTurnEnds`, `EveryCallReturns`,
`EveryCallEnds`), as fairness is out of the prover's reach. Of the refinement of
`TaskLifecycle` the theorem has initial states and steps; that specification states no
fairness.

## 6. Where code and documentation differ

With a run whose counterexample shows it:

* `modelcalls_duplicate`: the duplicate breaker hashes the text of a reply alone
  (`agentic.rs:480`, "detect duplicate state (LLM producing identical responses)"). A
  model that calls tools natively answers with empty text, so its second such turn is
  taken for a repetition, whatever it calls, and the run fails.

Stated in the modules under "What the documentation says and the code does not do";
none of these holds of the specification beside it, and no run checks them:

* `OutcomeAsListed` (AgenticTask): `task_complete` is documented with three outcomes
  (`tool_extraction.rs:200`), and the loop takes any word its status holds
  (`agentic.rs:539-565`): a run nobody cancelled may be recorded as "cancelled".
* `DecisionMatchesPrompt` (AgenticTask): a decision of the mentor names no prompt, so a late
  or repeated approval opens the next gate (`agent_runs.rs:245`).
* `ActiveHasLoop` (TaskRegistry): a client that disconnects during a launch leaves a task
  that is Running and has no loop; it blocks its agent until a restart (`main.rs:4685`).
* `EveryRunAnswers` (Governor): cutting a tool's output at byte 500 panics inside a
  character (`governor.rs:354`).
* `VerifiedIsSuccess` (Governor): no criterion is ever marked met, so work that was verified
  is reported as unfinished (`governor.rs:38`; only tests call `mark_criterion_met`).
* `DeletedStaysDeleted` (JobScheduler): the scheduler and run-now save the list they read
  before the jobs ran, so a deleted job comes back (`main.rs:5088`).
* `ExplicitlyConfirmed` (OperationalChat): any message with the letter y confirms, "no way"
  too (`main.rs:2642`).
* `InterviewEnds` (GenesisInterview): nothing sets the mirror text (`engine.rs:150`), so a
  crystallization stays in its Mirror phase for ever.
* `CommandsKilled` (Skills): "Commands exceeding this are killed" (`skill-shell/src/lib.rs:54`);
  the timeout drops the future that waits for the process, and the process goes on.

Seen while modelling:

* Two launches may both pass the check and both insert (`main.rs:4660`), against
  "Agent already has a running agentic task"; `RivalsRaced` bounds it.
* The text-only streak is not reset by a question to the mentor (`agentic.rs:570-654`
  leave the turn before 881), so two turns of text before an answered question and one
  after it stop the run; `Streak` in `ModelCalls` has it so.
* The record of a run is written with `let _ =` (`agentic.rs:1659`): when that fails, the
  run is over and its audit record is missing or cut short, and nobody is told.
* `Test-OrionCommand` sends the value of its check to `Out-Null` and returns true unless
  something throws (`skill-cooperative-install/src/lib.rs:704-716`), so a check such as
  `Test-Path` passes whatever it finds. The check for `cargo` is a substring search over
  the list of what is installed (880-886).
* An escalation decided in the governor's last round is dropped: the loop ends first
  (`governor.rs:381`, against `goal_frame.rs:32`). A retry may take the strategy ladder
  back (`governor.rs:253`). A successful run's constraints are not stored (`main.rs:3636`).
* `docs/ARCHITECTURE.md:161` has autonomous runs use the governor; they do not.
* "Id must never be used for autonomous loops", and `route_with_tools` falls back to it
  (`router.rs:294`). The streaming functions have no caller in the server; a chat that
  takes the council bypasses the router's precheck; in the `id_primary` mode `route` does
  not cover a failing Ego with the Id. A check of the second layer that fails lets the
  request pass.
* A stream that is cut off is taken as complete, and the tool calls an OpenAI-style
  client collects leave a `HashMap` in any order.
* A comment promises the "current on-disk keyring" where the copy in memory is used
  (`agentic.rs:1334-1338`): `state.provider_keyring` is read at start-up, never updated,
  and serves every agent, so a key stored mid-run is used after a restart only.
* A run's result is stored in the chat "so the task result persists across page reloads"
  (`agentic.rs:1664`); another writer may overwrite it.
* `keyring.rs:257`: "the private key is never stored on disk"; `persist_signing_key`
  stores it until the birth is complete. "Birth cannot happen twice" (`stages.rs`), but
  quick start records no birth row. Quick start writes `external_pubkey.bin` into
  `docs/`, where export and identity do not look for it.
* `register_mcp_skill` may replace a built-in skill that has the id.
* `run_command` reports a command that failed as `success: true`. The inner limits of 120,
  180 and 190 s are out of reach behind the executor's 30 s. A toolbox install with a
  manager it does not know uses apt-get without saying so.
* A run's `store_provider_key` saves the configuration of its launch (`agentic.rs:899`) over
  what the same run registered ("Persist to agent config so the skill reloads on
  restart", `agentic.rs:1736`). Any load of an old configuration erases the plaintext
  keys in it, yet only the active agent's were migrated, at start-up (`config.rs:852`); a
  crash between the two saves loses the key. An email account is saved before its
  password. `sync_email_accounts` returns early for an agent without accounts, so the
  previous agent's stay. A torn configuration is reported by export as "birth not yet
  complete"; torn keyrings and constraints are taken for empty and then saved. A refused
  import leaves a directory that no list shows.

## 7. What is not modelled

* Wording, prompts, cost and token accounting, logging, redaction.
* In `AgenticTask`: what tools do, the events before the closing one, context
  trimming (in `ModelCalls`); the constant limits of the code enter as constants.
* In `TaskRegistry`: capacity of the map (it has none) and the tasks' contents.
* In `Governor`: the constraints gathered (stored, not read within a run), the text
  of prompts, the structured failure's classification, taken as an input.
* In `JobScheduler`: cron parsing (every schedule is a grid), the execution log, torn
  writes of the file (they are in `OperationalChat` and `FileStores`).
* In `OperationalChat`: tools and credentials of a turn, attachments, requests refused
  up front, failures of reading the configuration or of a file operation; a file cut
  inside a character, which cannot even be read as text; agents' other files.
* In `Birth`: the texts of the documents, verification of signatures (external), the
  transcripts of birth chats; in `GenesisInterview`: prompts, sigil and hashes, the
  terminal front end, choosing scenarios by seed, snapshot and restore.
* In `Skills`: the watcher of skill directories and `unregister`, which nothing calls; the
  concurrency limit per tier, which nothing enforces; the protocols of the tools.
* In `ModelCalls`: lists of words and models, download and validation of models, the
  memory records a council leaves.
* In `FileStores`: environment overrides, field contents, encryption, verification
  reports; `vault_migration.rs`, which only its tests call.
* The components listed as `not_modelled` in `PROJECT.json`, with reasons: planned
  ones (section 8), pure functions over text, wrappers of outside services,
  cryptography, user interface and deployment.

## 8. Plan

Done: the autonomous run with its abstract specification, the registry, the governor,
the scheduler, the chat, birth, genesis sessions, skills, the install skill, model calls
and the files, each with its proofs.

Next, in order:

1. `EventStream`: a subscriber that comes late, lags, or stays to the end always learns
   that the run ended; composed with `AgenticTask`, whose closing events it carries.
2. The register of `FileStores` (a file read and written as a whole) as an abstract
   specification that the jobs file and the chat file implement.
3. Attachments and the file ingestion behind them: limits, and what remains of an
   upload that fails half way.
4. Sharper data where the models are coarse: several cron grids, structured failures
   as classified, scenarios chosen by seed.
