# Formal model of the Team Agent Harness backend

The Team Agent Harness (`src/team_agent_harness/backend`) runs multi-agent
workflows on one machine: an HTTP API accepts tasks, a workflow runner executes
the steps of a workflow pack with model and tool calls, approvals interrupt a run
until an operator decides, and a durable background worker executes runs outside
the requests and resumes them after a crash. This directory holds TLA+ modules
translated from that code, TLC configurations for small instances, and TLAPS
proofs for all instances.

Paths below are relative to `src/team_agent_harness/backend/app/`.

## 1. Inventory

| Component | State it keeps | Operations | Properties that make it correct |
|---|---|---|---|
| Storage (`core/storage.py`) | SQLite rows: runs, agent runs, sessions, runtime jobs, queue items, locks, artifacts, handoffs, evals, traces | row writes, `transaction`, recovery query, retention purge | a failed call changes nothing; at most one acquired lock per run; a purge removes files and rows together |
| Run coordinator (`core/run_control.py`) | the lock row and the queue item of a segment | `execute`, `execute_exclusive`, `execute_queue_item`, `release_orphaned_locks`, heartbeat | the bodies of one run never overlap; the item ends with the run's status |
| Runtime controller (`core/runtime_control.py`) | approval jobs, their agent runs and sessions | approve, reject, cancel, terminal-intent recovery | a decision is applied once and completely; a finished run has nothing open |
| Background worker (`core/run_worker.py`) | wake-up queue, `_scheduled`, `_pending_schedules`, admissions, stop flag | start (recovery), stop, submit, approve_and_resume, the loop | no wake-up is lost or doubled; recovery leaves nothing behind; shutdown ends |
| Workflow runner (`core/runner.py`) | run row, agent runs as checkpoints, handoffs, evals | run, resume, prepare, execute, commit, wait, fail, invalidate checkpoints | a step reruns only if its checkpoint is not valid; consumers use the attempt that counts; batches commit in plan order |
| Artifact store (`core/artifacts.py`) | files, purge quarantine | idempotent write, verified read, quarantine, restore, discard, startup recovery | no file of a run on record is lost; what is listed can be read after recovery |
| HTTP API (`api.py`, `main.py`) | `history_purge_lock`, worker handle | run, approval, purge, quality, writeback routes; startup | purge, execution and writeback do not damage each other's files |
| Agent loop (`core/agent_loop.py`) | counters of one step | iterate, call tools, stop | budgets are kept; a loop that met a limit does not report `finished` |
| Model runtime (`core/model_runtime.py`, `provider_health.py`, `route_policy.py`) | permits per provider, circuit state | complete with candidates, retries, continuation, fallback | permits are not leaked; deadlines bound a request; circuits open and close consistently |
| Tool gateway and tools (`core/tool_gateway.py`, `web_tools.py`, `browser_tools.py`) | none of its own | permission check, execute, trace | no handler runs without permission |
| Source writeback (`core/writeback.py`) | journal, backups, temporaries, source files, success trace | approve, apply, roll back, recover | the patch is written as one set; the service comes up again after a crash |
| Execution plans (`core/execution_plan.py`, `plan_generation.py`, `team_selection.py`, `packs/base.py`) | the frozen plan of a run | validate, freeze, restore gates, load, order steps | a frozen plan can be executed, keeps the Pack's gates and is independent of later Packs |
| Quality (`core/quality.py`) | none | report on a run | its verdict follows from the evidence the runner left |
| Codex MCP bridge (`../scripts/codex_harness_mcp.py`) | handshake, LRU of run bindings | JSON-RPC tools as sequences of HTTP exchanges | what it binds and answers is true of the run |
| Local code executor, skills, redaction, intake | none shared | pure functions, subprocesses | - |
| UI (`static/`), CDP proxy, launchers (`../scripts/`) | none the backend depends on | polling, relays, commands | - |

**Interactions.** Request threads and the worker thread meet only in SQLite and in
the worker's in-memory wake-up queue. A request either creates a run (executed in
the request, or handed to the worker) or acts on an approval job, always inside
the coordinator's lock. The worker takes wake items, re-reads the rows and runs
the segment under the same lock. `SQLite run/queue state is authoritative; the
in-memory queue is only a wake-up signal` (`../README.md`). Inside a segment the
runner calls the agent loop, the loop calls the model gateway and the tool gateway.
The history purge and the writeback run in request threads beside the worker and
share files and rows with it. The MCP bridge is a process of its own that sees the
backend only through HTTP.

**What is hard.** Every body reads records, works, and writes copies back; only
the lock row keeps two bodies apart. Every storage call may fail, and the code
distinguishes failures to retry from failures of the run. The process may die
between any two writes, recovery included. Wake-ups, a pending wake-up per run,
the put-back after a failure and the stop sentinel share one queue. Files and rows
cannot be written together: the artifact store, the purge and the writeback each
have an order of writes and a startup recovery that must understand every prefix of
it, also when the other two have moved on. Timers, permits and circuits are shared
by threads that hold results of different ages. The list of
hazards in `PROJECT.json` names each one with its line and the property that
would catch it.

## 2. Modules

```
RunStore            rows of runs, approval jobs, queue items, locks; storage failures
  RunCoordinator    the critical section, one step per storage call
    RunSegment      the bodies: controller actions, the runner's run-level steps
      RunWorker     requests, wake-ups, the worker loop, recovery, shutdown, crash
        MCRunWorker       small instances
        RunWorkerProofs   theorems

WorkflowRunner      attempts, checkpoints and batches inside one run, quality report
  MCWorkflowRunner      two small packs
  WorkflowRunnerProofs  theorems on types, approvals and evidence
    LineageProofs         theorems on lineage, batches, pack evaluation and quality

ExecutionPlans      packs, submitted and frozen plans, teams, graph algorithms
  MCExecutionPlans      drafts of up to three steps
  ExecutionPlansProofs  theorems

HistoryPurge        artifact files and rows, the purge, its quarantine and recovery
  Writeback         the journalled writeback beside the purge; implements
    AtomicWriteback     what a writeback promises
    MCWriteback         a patch and a second run
    WritebackProofs     theorems on the purge, the writeback and the refinement

ModelGateway        one model request after another: candidates, permits, deadlines, circuits
  MCModelGateway        two callers and two providers; one caller without a fallback
  ModelGatewayProofs    theorems

ToolGateway         what a step's agent may call
  AgentLoop         the budgets of one agent loop
    MCAgentLoop         two tools, two candidates
    AgentLoopProofs     theorems

McpBridge           the MCP adapter and a Harness that moves on
  MCMcpBridge           two runs, room for one binding
  McpBridgeProofs       theorems
```

The first four form a chain by `EXTENDS` because they share the rows: each adds the
variables of its component and the actions of its operations. `WorkflowRunner` looks
inside the body of a segment, which the chain keeps abstract: the lock guarantees
that one runner at a time works on a run, so one run is enough there. The other
groups meet the run machinery at one point each: a frozen plan is the constant
`DependsOn`, `Order` of WorkflowRunner (`ExecutionPlans!ScheduleSound` is what its
assumption needs), a branch that ends is an agent loop that ends, and a request of the
loop ends because of `ModelGateway!CallEnds`.

### RunStore - the durable rows

`run[r]` is the status of the run row (`absent` before it exists), `job[r][j]` the
status of the latest approval job of step `j`, `items` all queue items in creation
order, `lock[r]` the thread that holds the acquired lock row. The job's agent run
and session move with it and are not separate state. `Storage(ok)` is a storage
call that succeeds or raises `StorageError` (at most `MaxFaults` times); a failed
call changes nothing, because `SQLiteStorage.transaction` rolls back.

### RunCoordinator - `execute_queue_item`, `execute_exclusive`

A thread is a program counter `pc[p]`, the operation it serves `op[p]` and the
exception in flight `exc[p]`. `AcquireLock`, `AcquireFailed`, `MarkRunning`,
`FinishItem`, `ErrorItem`, `FailItem` and `ReleaseLock` are the storage calls of
`execute_queue_item` in their order, with the exception paths: an exception before
`execution_started` fails the item, one after it goes through
`_update_queue_item_after_execution_error`, failures of the handlers are
swallowed, the release is the `finally` block. `Return` is what the caller makes
of the outcome: the worker puts a `StorageError` back and terminalizes the run for
any other exception; a background approval goes on to schedule.

### RunSegment - the bodies of the critical section

`Load` reads the records of a controller action and decides (`Decision` holds the
checks that raise conflicts), `ApplyApproval` and `TerminalAction` write; the two
are separate steps because the written rows are copies of what was read.
`EnqueueApproved` is the transaction of `_prepare_background_approval`. `Activate`,
`RequestApproval`, `CommitApproved`, `WaitRun`, `CompleteRun`, `FailRun`,
`CloseRuntimeState` and `SegmentInterrupted` are the runner's steps that touch the
run row or an approval job.

### RunWorker - the worker, its clients and the process

`Request` starts a client operation; `Schedule` and `Put` are the two halves of
`_schedule` (the update under `_scheduled_lock`, and the `put` after it).
`LoopTest`, `GetWake`, `ReadWake`, `RequeueSegment`, `ReleaseOrphans`,
`Reconcile`, `ConfigurationMissing`, `Terminalize`, `PutBack` and `Settle` are
`_run_loop` and `_execute`. `Start`, `ReleaseLocks`, `RecoverItem`, `RecoverJobs`,
`RecoverRun`, `StartThread`, `ScheduleRecovered` and `Accept` are `start()`, one
storage write per step, so that `Crash` can fall between any two of them. `Stop`
and `Stopped` are the two ends of `stop()`; `Crash` drops everything but the rows.
Two history variables record what the worker does to a run without its lock: `stolen`, the
runs whose lock `ReleaseOrphans` took from a thread that was using it; `disturbed`, those and
the runs whose row `RequeueSegment`, `ConfigurationMissing` or `Terminalize` wrote while the
holder of the lock relied on the row it had read (`Relying`). No action reads them.

### WorkflowRunner - the steps of one run

`attempts` holds the agent run rows in creation order, each with what hangs on it:
its step and status, the status of its approval job, the attempts named in its
`dependency_lineage` (`from`), its passing structural evaluations, its outgoing
handoffs and whether an artifact file was damaged. `packEvals` lists the attempts
the pack evaluation results are bound to. The other variables are the locals of
`_run`: the completed steps (`done`), `last_completed_agent_run`, the steps being
prepared, the prepared batch and the state of its branches.

`DependsOn` and `Order` are the run's frozen plan. A recovery, at startup or after a storage
failure, first examines the checkpoints with the Pack that is registered under the name at
that moment, and the next segment examines them again with the frozen plan
(`_resolved_execution_plan_pack`). `Editions` are the Packs a recovery may find, each as the
examination reads it: its order, its dependencies, the recorded handoffs that do not fit it,
the steps whose gates are not passed; `pack` is the one in force. `Requeue` takes any
edition, `Begin` takes `Frozen`. An edition without steps is a Pack that is gone, for which
the code skips the examination.

| Actions | Code |
|---|---|
| `Begin`, `Requeue`, `Reclose` | `_start_run`, `requeue_interrupted_run` |
| `Invalidate`, `LoadState` | `_invalidate_incomplete_checkpoints` step by step, `_completed_step_state` |
| `PickReady`, `StartAttempt`, `RecordRuntimeState`, `PrepareStep`, `PrepareFails`, `WaitRun` | the loop of `_run` with `_prepare_step_execution` |
| `SubmitBatch`, `BranchStarts`, `BranchEnds`, `CollectError`, `CollectOk`, `BatchEnds` | `_execute_prepared_steps` and its thread pool |
| `CommitEvidence`, `WriteHandoff`, `CompleteJob`, `Checkpoint`, `BatchFailed`, `BatchCommitted` | `_commit_step_output` in plan order |
| `AbortBatch`, `FailRun`, `CloseRun`, `EvaluatePack`, `CompleteRun` | the ends of `_run` |
| `Interrupt` | a crash, or a `StorageError` that leaves `_run`: the locals are lost |
| `Approve`, `Damage` | the operator; a file changed outside the program |

`Interrupt` may fall between any two writes of a commit. Simplifications: the rows
closed by one `_terminalize_open_runtime_state` are closed in one step, because the
recovery that follows a crash closes the remaining ones before anything reads them;
the siblings cancelled when a `StorageError` leaves a commit are left to that same
recovery; a serial batch is a pool of one thread; a pack has one evaluation check;
`Approve` includes the resume, whose races are in RunWorker. A rejected or cancelled
run ends (RunWorker) and does not come back to the runner. `Failing` are the steps
whose inputs, execution, outputs or evaluations may fail; all required evaluations of
a step count as one. `PackBlocks` are the attempts at which the pack check does not
pass.

`StepQuality`, `PackEvalPassed`, `ArtifactsVerified` and `QualityPassed` are the verdict
of the quality report (`quality.py`): it looks for evaluations of the latest completed
attempt of every step and for the pack evaluation at the last step of the plan order,
while the runner binds the pack evaluation to the attempt it happens to call last.

**Left out of these modules:** the lock heartbeat (it writes metadata nothing
reads), rows that cannot be decoded (`_terminalize_invalid_run_record`), the
30-second bound of `stop`, and what a step computes.

### HistoryPurge - artifacts and their purge

`place[r]` is where the artifact file of run `r` is (unwritten, in the store, in the
quarantine of the k-th purge, unlinked), `listed` the runs whose artifact row exists,
`row[r]` whether the run may be purged. `WriteFile`, `WriteRow`, `WriteFails` are
`write_text_idempotent`; `PurgePreview`, `QuarantineMove`, `DeleteRows`,
`PurgeBacksOut`, `RestoreMove`, `RestoreFails`, `DiscardMove`, `PurgeEnds` are
`_purge_history_records`, one file per step; `RecoverMove`, `RecoverRefuses`,
`RecoverDone` are `recover_purge_quarantines`. `Lock` is a request that makes a settled
run ineligible after the preview. One artifact per run: the purge treats the files of a
run alike.

### Writeback and AtomicWriteback - source files

`wb` is the call that holds `_WRITEBACK_APPROVAL_LOCK` (an approval or the startup
recovery), `txn` the state of its transaction directory, `backup` and `temp` the files
it has made, `src` the contents of the targets: base, new, or somebody else's. Every
replacement is two steps (compare, swap), so that an outside edit, a purge or a crash
falls between them; the directory is removed entry by entry, as `rmtree` does. `Resume`,
`Rollback` and `Raise` are the three ways a step goes on. The result of the test command
is a choice. The trace is part of the success: `RecordTrace` fails when the run is gone.

`AtomicWriteback` is the promise: a window opens over the exact base contents, files
change inside it, and it closes with the untouched files all new and on record, or all
base. `Atomic == INSTANCE AtomicWriteback WITH repo <- src, open <- txn \in Published,
audited <- trace # "absent", foreign <- edited` is the refinement mapping, and the run
`source` checks `Atomic!Spec` as a property. The abstract `Write` says openly that an
edit made between the last comparison and the replacement is lost.

### ModelGateway - model requests

`call[c]` is a caller's request: the candidate it is at and its timers, stored as the
time they have left, so that no clock needs a bound. `Begin` to `Admit` are the
candidate loop of `complete`; `Acquire` to `Retry` are `_complete_single` and the
adapter's `_complete_with_retries`; `Complete`, `Permanent`, `Incomplete`, `Partial` and
`Invalid` are the answers. `RecordSuccess`, `RecordFailure` and `Snapshot` are
`ProviderHealthRegistry`. `Tick` lets time pass when all callers wait. The rejections of a
candidate follow the order of the checks: confirmation and fallback rules
(`RejectByPolicy`) and a missing adapter (`RejectNotConfigured`) do not ask the registry, an
open circuit rejects (`RejectOpenCircuit`), and readiness and capabilities
(`RejectNotReady`, `RejectIncapable`) are looked at after the registry has forgotten an
expired circuit. Whether a static check rejects is a choice: the properties do not depend
on it.

### ToolGateway and AgentLoop - one agent loop

`ToolGateway` has no state: `Permitted` is the decision of `call_tool`, `Results` what a
call may come to. `AgentLoop` is `AgentLoopExecutor.execute`: `StopBeforeRequest` and
`Ask` the checks and the caps before a request, `Answer` the charges and checks after it,
`CallTool` one call of the batch, `NextStep` the forced final answer. Usage comes in the
three shapes the code distinguishes (in and out, a total, nothing), and providers may
report more than they were allowed (`honest` remembers whether they did; `Reports` are the
counts a report may hold, `handled` and `ran` the handlers that really ran). An answer with
text may have been continued by the gateway, which sends every continuation with the
`max_tokens` of the request and adds the usage up (`Continued`, `Combined`); `extra` remembers
what the continuations of the last answer used. A continuation is a request of its own, so
it does not make a provider dishonest.

### McpBridge - the adapter

`call` is the tool call being served with the HTTP requests it has left
(`Requests(tool, bound)` is the sequence of every tool), `bindings` the LRU. `Exchange`
takes a reply, `Believed` holds it against the binding or the replies before it,
`Coherent` holds the replies of one call against each other, `ExchangeFails` and
`OutOfContract` are the replies that cannot be used, after which a POST may have taken
effect. `Harness` moves and purges runs at any time; up to `MaxWrong` replies are about
something else. The plan hash freezes the selection, so a plan is its selection.

### ExecutionPlans - plans and packs

`draft` is the list of steps an operator writes, `pack` the Pack in force, `run` a stored
run with its frozen plan and the receipt that was returned, `loaded` what the runner has
rebuilt. `PackValid`, `PlanValid`, `ValidAgainst`, `Freeze`, `AgentSnapshots`,
`RestoreGates`, `ReceiptFromPlan` and `PackFromPlan` are the functions of
`execution_plan.py`, `team_selection.py` and `packs/base.py`; `Visit` and the two searches
for upstream steps are its graph algorithms as recursive functions, `ReadyBatches` and
`OrderedSteps` those of `runner.py`. Of `validate_pack`, `PackValid` has the checks that the
properties depend on: steps, roles, dependencies, controllers, cycles and the final artifact;
the limits on handoffs, subagents without a controller, resume strategies, agent loops and
names of required evaluations are left out. `EditPack` restarts the server with another edition.

## 3. Runs

`CHECK_DEADLOCK FALSE` is used where the system really rests: a service without
requests, a finished loop, a loaded plan. `gateway` and `bridge` check deadlock.

| Run | Instance | Shows |
|---|---|---|
| `threads` | 1 run, 2 approval steps, 2 clients, every request kind, no storage failure, fair threads | bodies of a run do not overlap unless its lock was taken from its holder, no lost wake-up, a finished run stays finished and has nothing open unless it was disturbed, approvals are acted on, shutdown ends |
| `restarts` | 2 clients, 2 runs, one left by an older release waiting on a rejected job; two storage failures, shutdown and a crash at every step, recovery included; fair threads | wake-up bookkeeping, one active segment of a run that was not disturbed, complete recovery, the worker settles every scheduled run |
| `join` | a, b and c on two threads, then d behind an approval; failures, two interruptions, one damaged file, a pack check that fails at one attempt, recoveries with the Pack unchanged, edited and gone | nothing runs unapproved; checkpoints are complete and kept; one consistent set of attempts; the reported failure is real; one pack evaluation; the quality report follows; the run ends |
| `source` | a patch of two files; a purge, an outside edit, an I/O error and a crash anywhere | the writeback implements AtomicWriteback, leaves nothing half written, and the service serves again; no artifact of a run on record is lost, what is listed can be read |
| `gateway` | two callers, one with a fallback, one permit, threshold 2 | permits balanced, deadlines kept, circuits consistent, every request ends |
| `loop` | three steps, two tools (one not permitted), two candidates with different prices, batches of two, continued answers | `finished` is honest, tool budgets are kept, and so is spending but for the continuations of the last answer |
| `bridge` | two runs, two selections, one binding, one wrong reply | bindings and answers are true, a mismatch is reported only for a reason |
| `plans` | every draft of up to three steps with any dependencies and three shapes, two editions of the Pack, teams complete and incomplete | graph algorithms exact, schedules sound, gates kept, loading and receipt stable |
| `lock_theft` | one run with one storage failure | finding 1 |
| `purged_pending` | one run, a patch of two files, a purge and a crash | finding 2 |
| `pack_eval_sinks` | a step and two sinks behind it, the earlier behind an approval; no fault | finding 3 |
| `deadline` | one caller with one candidate | finding 4 |

**Bounds** are named constants. RunWorker: `MaxFaults`, `MaxRequests`, `MaxStarts` and the
sets `Run`, `Job`, `Client`, `Requests`. The hazards need two threads in one section and
a third party that disturbs them, which two clients and the worker give; one or two
failures, because a failure that matters meets a handler that may fail itself; and
a second start, because a crash during recovery is recovered by the next (the run an
older release left behind makes the first start a recovery as well).
WorkflowRunner: the join has more branches than threads; `MaxFaults` is two, because the
second interruption hits the recovery of the first; `MaxDamage` is one file; the edited
Pack has lost an edge, gained a step, and disagrees with the frozen plan on an agent and a
gate; packs without
declared dependencies, steps without artifacts and other shapes are covered by the
theorems, not by a run. Writeback: two files make a mixture, one purge, one
edit and one error meet every step, and the theorems cover purges that follow each
other. ModelGateway: timeouts of two ticks let every timer fire before, with and after
another; the theorems cover the rest.
AgentLoop: `MaxBatch` two lets a limit strike inside a batch; the token and cost limits
are such that some loops reach each of them and some do not; one continued answer is
enough to exceed them. McpBridge: one binding makes
every second run an eviction. ExecutionPlans: three steps hold every cycle and diamond
that the searches treat differently.

**Fairness** (`Fairness` in RunWorker) is weak fairness of the steps of each thread
with successful storage calls, of startup and of the end of `stop`: the operating
system schedules threads, `start()` runs straight through and storage calls that
fail are bounded. Nothing forces a request, a failure, a start, a stop or a crash. `FairSpec` of
WorkflowRunner is weak fairness of the runner (the worker executes and recovers every
run, which is what the liveness properties of RunWorker show) and of the operator's
approvals: a run that waits for a decision nobody makes rightly waits.
Writeback is fair to the restart of a process that is down, to startup and to the call in
progress, which are straight-line code; an operator, purges, edits and faults are not
forced. ModelGateway is weakly fair to a caller's local steps, among them the client's own
timeout, and strongly fair to `Tick`, because other callers may interrupt waiting again
and again without stopping time; a provider is never forced to answer and a permit never
forced to be free. AgentLoop and McpBridge are weakly fair to their own steps.

## 4. Proofs

`RunWorkerProofs` proves for every number of runs, jobs, clients, requests,
failures and restarts, from the named assumptions of the modules
(`RunStoreAssumption`, `RunSegmentAssumption`, `RunWorkerAssumption`):

* **TypeCorrect**, `Spec => []TypeOK`. `TypeOK` is not inductive: a finished item
  takes the status of its run row, so the proof must know that a thread inside the
  section, a wake item and a run under recovery refer to rows that exist.
  `TypeInv` adds exactly that (`ThreadsExist`, `QueueExists`, `StartupExists`).
* **WakeUpTokensCorrect**, `Spec => []WakeUpTokens`: `_scheduled` holds a run
  exactly when one wake item of it is in the queue, with the worker or about to be
  put. The invariant `TokenInv` adds `Quiet`: no thread works and the queue is
  empty while the process is down or recovering, so the first wake items are the
  ones recovery schedules.
* **RecoveryCorrect**, `Spec => []RecoveryComplete`: `RecoveryInv` says that a run
  not in `todo` and not being fixed is already recovered while startup runs, that
  the run being fixed has lost its lock, and that no other thread works then; the
  round's own writes finish the argument, wherever the previous crash fell.

* **SectionIsExclusive**, `Spec => []SectionExclusive`. `LockInv` says that a thread between
  the acquisition of a lock and the end of its body is the holder of the row, for every run
  that is not in `stolen`. `MutualExclusion` itself is not an invariant, with or without
  storage failures: a wake-up that was kept pending while the worker was busy finds its
  run terminal and releases the lock of a live request (finding 1; without failures it
  takes five requests, more than the bound of `threads`). The theorem says that this is the
  only way: no failure, retry, recovery or crash breaks the section.
* **FinishedRunIsClosed**, `Spec => []TerminalRunClosed`, and **FinishedRunStaysFinished**,
  `Spec => TerminalNeverReopened`, an action property. Every writer of the run row writes a
  copy it read earlier. `WriteInv` adds to `LockInv` that a thread which relies on its copy
  finds the row as it was (`RowInv`: running inside the runner, waiting between the check of
  an approval and its write), and that a finished run is shut or is the failed run between
  the two writes of the runner (`FinishedInv`). Each action is then reduced to what it may do
  to a row.
* **NoWakeUpIsLost**, `Spec => []NoLostWakeUp`. `WakeInv` names who owes a queued run its
  wake-up at every moment: the startup, the request that queued it, the queue, the pending
  item, or the worker at one of the places from which it cannot turn away (`Woken`). It needs
  to know where each kind of request can be and when an exception is in flight (`ShapeInv`),
  that every wake item names a background segment of its run (`NamesInv`), that a run that
  does not exist has left no trace (`ExistInv`), and that a run started in the foreground is
  known to its client alone, so that nothing stands in its way (`FreshInv`). The condition
  `faults = 0` is needed: a failed release after a background approval loses the wake-up
  (section 6).
* **SegmentIsUnique**, `Spec => []OneActiveSegment`. The hard case is a segment that failed
  while its run is live: its wake item is retried, and `_requeue_interrupted_segment` makes
  the item active again. `SegmentInv` says that as long as a wake item names such a spoiled
  segment the run is dormant: queued, or running with nobody in the runner and no segment
  active. So no approval can add a second segment before the retry, and the worker never
  drops the wake item of a spoiled segment or meets one from before. `StageInv` says how far
  the worker is with its item (`ItemStages`), that it still holds the lock when it closes it
  (`HoldInv`), and which rows a thread about to activate can find (`ResumeInv`,
  `ActivateInv`); `TodoInv` says that startup schedules runs whose active segments are queued.

The exception for `disturbed` runs is needed. `release_orphaned_locks`,
`_requeue_interrupted_segment` and `_terminalize_unhandled_failure` act without the lock; when
they strike a thread in the middle of its writes, that thread writes its old copy over
theirs. Without the exception TLC finds a finished run that is live again, with one storage
failure and two requests for its approval job. The theorems say that there is no other way:
no order of requests, failures, crashes and recoveries does it.

`WorkflowRunnerProofs` proves for every pack (any dependency graph with a plan order
that respects it, any approvals, failing steps, thread limit), any number of
interruptions and of damaged files, from `WorkflowRunnerAssumption`:

* **TypeCorrect**, `Spec => []TypeOK`. `References` adds that the attempt being
  committed, recorded or failed is a row, and that a run with a completed step has a
  last completed attempt. The lemmas on `Latest`, `First` and `Ready` show that what
  the runner picks exists: with an acyclic plan some step is always ready.
* **ApprovalCorrect**, `Spec => []ApprovedBeforeExecution`. The row of an attempt is
  written before its approval job, and an open attempt without a job is taken for one
  that may run. `ApprovalInv` therefore says when such an attempt exists (`Unrecorded`):
  while its job is being written, or after a crash, in which case recovery closes it
  before the runner looks at it again. `BatchJobs` carries the approval through the
  batch, where the status is `running` already.
* **CheckpointCorrect**, `Spec => []CheckpointComplete`. Nothing in the commit removes
  the traces of an interrupted one; it is correct because every attempt starts blank
  and is committed at most once. `EvidenceInv` says that an open attempt is blank
  unless it is being committed (`OpenIsBlank`), that the members of a batch are
  distinct and open until their turn (`BatchInv`), and that the handoffs written are
  the edges minus those still to be written (`CommitInv`).

`LineageProofs` continues for the same packs, on top of `EvidenceInv`:

* **LineageIsConsistent**, `Spec => []ConsistentLineage`. The property speaks of the end
  of a run; what makes it true happens at every commit and at every start. `LineageInv`
  says that a step has at most one checkpoint, that `agent_runs_by_step` is exactly the
  table of the checkpoints while the runner works (`Tracks`), that each of them consumed
  the others (`Linked`), that what is in the batch consumes what counts and commits no step
  twice (`BatchLineage`), and that during the examination of a restart the steps before the
  cursor are already linked (`Examined`), which rests on the plan order.
* **CheckpointsAreKept**, `Spec => CheckpointsKept`, an action property, from the same
  invariant: the only step that takes a checkpoint away is `Invalidate`, and the checkpoint
  it finds invalid was damaged, bare, consumed something that no longer counts, or belongs
  to a step that the Pack a recovery found declares differently from the frozen plan
  (`~Agrees`). The last exception is needed: the code examines the checkpoints with that
  Pack (section 6). With a Pack that agrees, crashes alone cost no completed step.
* **FirstFailure**, `Spec => []FirstFailureIsReal`. `BranchInv` follows the collector of the
  thread pool: branches are submitted in order (`Dispatch`), so that one that was never
  started stands behind one that failed.
* **PackEvaluatedOnce** and **QualityOfRun**, `ASSUME SingleSink \/ FlatIntact PROVE Spec =>
  []PackEvalOnce` and `[]QualityFollows`. `SingleSink` says that every step but the last in
  plan order has a dependent, as in the pack of `join` and in `code_rd_institutional`.
  `FlatIntact` is for packs that declare no dependencies, as `code_rd` and `research`: each
  step has an artifact, nobody damages it, and every Pack a recovery finds is the frozen one. The hypotheses are needed: with two sinks
  (`pack_eval_sinks`, finding 3) and in a flat pack with a damaged artifact `QualityFollows`
  is false. `SinkInv` says that the last committed attempt is the checkpoint of the
  sink once all steps are done, and that its evaluation was recorded exactly once; for flat
  packs `FlatInv` adds that the checkpoints are those of the first steps, because a step is
  executed with the handoff of the one before it and recovery gives no checkpoint up.

`ModelGatewayProofs` proves for any callers, providers, routes, permits and limits, from
`GatewayAssumption`:

* **PermitsCorrect**, `Spec => []PermitsBalanced`. `PermitInv` adds that every request
  under way is at one of its candidates (`CallInv`). The lemma `StepMoves` reduces all
  seventeen steps to three kinds (`Keeps`, `Takes`, `Gives`), and only these are held
  against the cardinality of the holders.
* **BreakerCorrect**, `Spec => []BreakerConsistent`: one lemma for every method of the
  registry and one for the clock.
* **DeadlineCorrect**, `Spec => []CallBounded`. `TimeInv` says that with several candidates
  no timer outlives the route's deadline (`SharedDeadline`), and that with one candidate
  the time of the continuations is set aside while a try runs (`OwnDeadlines`); a retry
  adds one `Quota` step of twice the timeout. This is what the code guarantees; the
  documents promise more for one candidate (finding 4).

`WritebackProofs` proves for any runs, number of files, purges, faults, crashes and edits,
from the assumptions of HistoryPurge and Writeback, one invariant
`IInv == PurgeInv /\ DiskInv /\ CallInv` and from it four results:

* **PurgeKeepsArtifacts** and **RecoveryRestoresArtifacts**, `[]NoArtifactLost` and
  `[]ListedReadable`: a purge only touches the files of its preview and discards them when
  the rows are gone (`PurgeScope`), and what a serving process cannot read is what the
  purge in progress holds (`HeldByPurge`).
* **NothingStaysHalfWritten**, `[]NothingHalfWritten`: without a published journal all is
  settled (`QuietOutside`); inside the transaction `Progress` and `Regress` say how far the
  writes and the restores are, file by file, for the files nobody edited.
* **WritebackIsAtomic**, `Spec => WritesAtomically`: every step maps to a step of
  AtomicWriteback or to a stutter. The visible steps are the publication of the
  journal, the replacement or the restoration of a file, the trace event, the end of the
  transaction and the edits from outside.

`McpBridgeProofs` proves for any runs, selections, size of the LRU, deadline and number of
wrong replies, from `BridgeAssumption`: **BindingsStayTrue**, **AnswersStayTrue** and
**MismatchesAreExplained**. `BridgeInv` describes a call by the stage it is at (`Staged`: what
it has asked and what it still has to ask) and says what it has heard by then: with a
correct Harness all of it is true and, as long as the run has not moved, current
(`RunHeard`, `DocHeard`); with one wrong reply, what a second reply or a binding confirms
is true (`Confirmed`). The moves of the Harness are abstracted to `Evolves`: a plan is
never changed and a completed run is only purged.

`AgentLoopProofs` proves for any tools, permissions, budgets, prices, candidates and usage
reports, from `LoopAssumption` and `ToolAssumption`:
**FinishedMeansNoLimit**, **ToolsStayInBudget** and **SpendingStaysInBudget**. `LoopInv` adds
that a request in flight fits what is left for every candidate (`RequestFits`), and that
until a call is refused the handlers that ran are counted (`ToolInv`); a lemma on the
integer division of `_cost_bounded_output_tokens` shows that the bound holds for
every candidate. `SpendingKept` allows the last answer what its continuations used, because
the loop bounds requests and the gateway repeats them; what an earlier answer used beyond
its request was taken off before the next one was sent.

`ExecutionPlansProofs` proves for any Packs, step shapes, teams and submitted plans, from
`PlansAssumption`: **GatesAreKept** (an action property), **ReceiptIsStable** and
**RecoveryIsStable**. Resolving a team and adding task skills change the agents of a Pack
alone (`RoutedPack`); a frozen plan with a resolved team has a snapshot of every slot, which
is why the receipt survives (`StoredReceipt`); and what a frozen plan is held against does
not mention the Pack (`LoadableAnywhere`).

The proofs have one step per action and end with a `PTL` step. Only checked by TLC,
on the instances above:

* the liveness properties (fairness is outside the prover's reach);
* `GraphSearchExact` and `ScheduleSound` of ExecutionPlans: what the recursive searches
  and waves compute for every graph needs induction over data;
* `MutualExclusion`, `MixedStateRolledBack` and `OneDeadline`, which are false (findings 1,
  2 and 4).

Every other invariant and action property of the passing runs is a theorem.

## 5. Mutants

Every property of a passing run has a mutant: an operator placed before the
definition it mutates (its comment starts with "Mutant of"), which changes it as a
plausible bug would, for instance a lock insert that does not conflict
(`UncheckedAcquire`), a `finally` block that drops the pending wake item
(`SettleDropsPending`) or a recovery query that forgets waiting runs
(`RequiresRecoveryUnlessWaiting`). TLC finds the property violated with it.

## 6. Findings

Four runs expect a violation:

1. `lock_theft`: a wake-up retried after a storage failure finds its run waiting or
   terminal and calls `release_orphaned_locks`, which also releases the lock a live
   request holds; another thread then enters the section. The documents say that
   orphaned locks are released only during startup recovery.
2. `purged_pending`: the purge neither takes the writeback lock nor looks for a pending
   transaction. A purge that deletes the run of a patch being written, followed by a
   crash, leaves a mixture of base and new files that every startup refuses, because the
   journal's run is not in SQLite any more. `../README.md:637` says a mixed state is rolled
   back as a whole and that unknown bytes stop startup; no byte is unknown here.
3. `pack_eval_sinks`: the runner evaluates the pack at `last_completed_agent_run`, the
   attempt committed last; the quality report looks for the result at the last step in plan
   order. In a plan with two sinks, the earlier one behind an approval, they differ: the run
   completes and its quality report misses the pack evaluation. After a restart the runner
   takes the last step in plan order itself, so that a crash before the completed row
   records the evaluation a second time. With one sink neither can happen (section 4). The
   same happens in a flat pack when an artifact of an earlier step is damaged before a
   restart: that step alone is repeated, and it is the one committed last.
4. `deadline`: only a request with several candidates has a route deadline. With one
   candidate the continuations of an answer get the full timeout once more, and so does the
   retry of an invalid answer. `../README.md:42` says that the continuation reuses the same
   route deadline, `:44` that the retry is within the shared deadline, `:549` that a retry
   receives only the remaining time. `CallBounded` states what holds instead.

Observations met while modelling, without a run of their own:

* `_acquire_lock` reports a failed insert as a conflict, and the worker fails the run for
  it, although transient storage failures are documented as retried.
* When the lock release fails after a background approval was committed, the request ends
  before `_schedule`; the retried approval finds the active segment and does not schedule
  it either. The run waits for a restart.
* The recovery of an interrupted run examines its checkpoints with the Pack registered now
  (`run_worker.py:298-300` and `600-603`, `runner.py:235-236`); the frozen plan is resolved
  only later (`runner.py:450`). For an edited Pack, and for a dynamic plan whose edges differ
  from its Pack's, a crash alone gives up completed checkpoints, although `../README.md:104`
  and `:106` say that later Pack edits do not reinterpret a run in flight and `src/README.md:66`
  that completed checkpoints resume after a restart. `CheckpointsKept` states what holds; the
  repeated steps follow the frozen plan.
* Continuations are sent with the same `max_tokens` and their usage is added up
  (`model_runtime.py:1050-1074`): with providers that keep to every request, one answer can
  take an agent loop over its token and cost budgets. `SpendingKept` states what holds.
* The agent loop looks at its deadline before and after a request, not between the tool
  calls of one answer; slow tools run on. The stop reason `step_budget` cannot be reached:
  the last step is asked without tools, so its answer ends the loop.
* The gateway discards the usage of an answer it retries as invalid; the loop's budgets
  never see it.
* A frozen dynamic plan whose `controller_step` is not upstream is accepted, and the Pack
  rebuilt from it is refused by `validate_pack`: the run can never be loaded.
  `RecoveryStable` is about runs that were loaded once.
* `_conservative_mock_plan` may close a cycle when a step depends on a later one, and may
  lose the final sink; the request then fails. Blocker evaluations without required
  artifact types are not restored in dynamic plans. A Pack needs some step that produces
  the final type, a plan needs a sink that does.
* `harness_delegate` may leave a task without a run when an exchange after it fails.

## 7. Not modelled

The local code executor (a subprocess in a directory of its own, whose result is a choice
of the models that use it), the web and browser tools, the CDP proxy and the wire formats
of the providers (network I/O), the skill library, context assembly, redaction and task
intake (text processing without interacting state), the operator UI, and the launchers.
Of the modelled parts: rows that cannot be decoded, schema migration, the lock heartbeat,
path confinement and encodings of artifact reads, the text of prompts and reports, the
catalogue of models and roles, and the checks of `validate_pack` on fields no property
depends on. Trace events are modelled where they are read, as evaluations.

## 8. Plan

1. Done: the run machinery (RunStore to RunWorker) and WorkflowRunner, with theorems.
2. Done: HistoryPurge, Writeback with its abstract specification, ModelGateway with three
   theorems, ToolGateway and AgentLoop, McpBridge, ExecutionPlans.
3. Done: theorems on the purge and the writeback with its refinement, the agent loop, the
   MCP bridge, the lineage of a run, execution plans and the exclusion of the section.
4. Done: theorems on the end of a run, its wake-ups and its one active segment.
5. Open: `RunLifecycle`, an abstract run (queued, running, waiting, finished) that RunWorker
   refines outside `disturbed`.
