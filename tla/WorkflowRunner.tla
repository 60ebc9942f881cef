--------------------------- MODULE WorkflowRunner ---------------------------
(***************************************************************************)
(* The steps of one run, as WorkflowRunner executes them: attempts (the    *)
(* AgentRun rows) that become checkpoints, the handoffs between them, ready *)
(* batches and their parallel execution, the commit of a step's output, the *)
(* pack evaluation, and what recovery keeps of all this after a crash.     *)
(*                                                                         *)
(* The run lock and the wake-ups are in RunWorker; here one runner at a    *)
(* time works on the run.  An interruption is a crash of the process or a  *)
(* StorageError that leaves _run: the durable records stay as they are and *)
(* the local state of the runner is lost.                                  *)
(***************************************************************************)
EXTENDS Integers, Sequences, FiniteSets

CONSTANTS
    Step,           \* names of the steps of the run's frozen plan
    DependsOn,      \* Step -> the steps it depends on
    Order,          \* the steps in the order of _ordered_steps
    Editions,       \* the Packs a recovery may find under the name of the run's Pack
    FinalStep,      \* the step whose artifact is the final one
    Approval,       \* steps that require a local approval
    Bare,           \* steps whose executor returns no artifact
    Failing,        \* steps whose preparation, execution or evaluation may fail
    PackBlocks,     \* attempts with whose artifacts a blocking pack check fails
    Parallel,       \* TRUE if the executor and the ownership claims allow it
    MaxParallel,    \* max_parallel_steps of the pack
    MaxFaults,      \* bound: interruptions
    MaxDamage       \* bound: artifact files damaged outside the program

ASSUME WorkflowRunnerAssumption ==
    /\ DependsOn \in [Step -> SUBSET Step]
    /\ Order \in Seq(Step)
    /\ \A k, m \in DOMAIN Order : Order[k] = Order[m] => k = m
    /\ \A s \in Step : \E k \in DOMAIN Order :
          Order[k] = s /\ \A d \in DependsOn[s] : \E m \in 1..(k - 1) : Order[m] = d
    /\ Editions # {}
    /\ \A e \in Editions :             \* validate_pack
          /\ e.order \in Seq(DOMAIN e.needs)
          /\ \A k \in DOMAIN e.order : \A d \in e.needs[e.order[k]] :
                \E m \in 1..(k - 1) : e.order[m] = d
    /\ FinalStep \in Step \ Bare      \* _validate_step_outputs
    /\ PackBlocks \subseteq Nat
    /\ Approval \subseteq Step /\ Bare \subseteq Step /\ Failing \subseteq Step
    /\ Parallel \in BOOLEAN
    /\ MaxParallel \in Nat \ {0}
    /\ MaxFaults \in Nat /\ MaxDamage \in Nat

VARIABLES
    \* durable
    run,        \* status of the Run row
    attempts,   \* the AgentRun rows in creation order, with what hangs on them
    packEvals,  \* attempts the pack evaluation results are bound to
    final,      \* attempt of the final artifact, 0 before completion
    faults,     \* interruptions so far
    damage,     \* damaged artifacts so far
    \* local to the runner
    pc,
    pack,       \* the Pack the checkpoints are examined with
    pos,        \* position in its order, or in batch
    done,       \* agent_runs_by_step: Step -> attempt, 0 if not completed
    last,       \* last_completed_agent_run
    todo,       \* steps still to be prepared, or to get a handoff
    batch,      \* prepared attempts in plan order
    branch,     \* state of each branch of the batch
    seen,       \* branches whose result was collected
    failed      \* attempt that fails the run, 0 if none

durableVars == <<run, attempts, packEvals, final, faults, damage>>
localVars   == <<pc, pack, pos, done, last, todo, batch, branch, seen, failed>>
vars        == <<durableVars, localVars>>

Finished    == {"completed", "failed"}
OpenAttempt == {"waiting", "running"}
OpenJob     == {"required", "approved"}
BranchState == {"new", "submitted", "running", "ok", "error", "cancelled"}
Pc == {"idle", "requeue", "invalidate", "loop", "prepare", "record", "execute", "commit",
       "handoffs", "checkpoint", "abort", "fail", "close", "complete"}

\* A Pack as the examination of checkpoints reads it: its steps in order, what
\* each depends on, the recorded handoffs <<d, s>> that do not fit it (another
\* agent receives them, or another type of artifact is asked of them) and the
\* steps whose gates the recorded evaluations do not pass.  An order without
\* steps stands for a Pack that is not registered any more.
Frozen == [order |-> Order, needs |-> DependsOn, alien |-> {}, gates |-> {}]

Attempt ==
    [step : Step,
     status : OpenAttempt \cup {"completed", "failed", "cancelled"},
     job : OpenJob \cup {"none", "completed", "failed", "cancelled"},
     from : [Step -> Nat],        \* dependency_lineage: the attempts it consumed
     evals : Nat,                 \* passing structural evaluations
     handoffs : [Step -> Nat],    \* outgoing handoffs by target step
     damaged : BOOLEAN]           \* an artifact file no longer matches its hash

TypeOK ==
    /\ run \in {"queued", "running", "waiting"} \cup Finished
    /\ attempts \in Seq(Attempt)
    /\ packEvals \in Seq(DOMAIN attempts)
    /\ final \in DOMAIN attempts \cup {0}
    /\ faults \in 0..MaxFaults
    /\ damage \in 0..MaxDamage
    /\ pc \in Pc
    /\ pack \in Editions \cup {Frozen}
    /\ pos \in Nat \ {0}
    /\ done \in [Step -> DOMAIN attempts \cup {0}]
    /\ last \in DOMAIN attempts \cup {0}
    /\ todo \subseteq Step
    /\ batch \in Seq(DOMAIN attempts)
    /\ branch \in [DOMAIN batch -> BranchState]
    /\ seen \subseteq DOMAIN batch
    /\ failed \in DOMAIN attempts \cup {0}

Init ==
    /\ run = "queued"
    /\ attempts = << >> /\ packEvals = << >> /\ final = 0
    /\ faults = 0 /\ damage = 0
    /\ pc = "idle" /\ pack = Frozen /\ pos = 1
    /\ done = [s \in Step |-> 0] /\ last = 0
    /\ todo = {} /\ batch = << >> /\ branch = << >> /\ seen = {}
    /\ failed = 0

----------------------------------------------------------------------------
(* The dependency graph and the attempts.                                  *)

Explicit == \E s \in Step : DependsOn[s] # {}

Dependents(s) == {t \in Step : s \in DependsOn[t]}

\* _next_steps: the dependents, or the successor in a pack without dependencies.
NextStepsIn(e, s) ==
    IF \E t \in DOMAIN e.needs : e.needs[t] # {}
    THEN {t \in DOMAIN e.needs : s \in e.needs[t]}
    ELSE {e.order[k] : k \in {m \in DOMAIN e.order : m > 1 /\ e.order[m - 1] = s}}

NextSteps(s) == NextStepsIn(Frozen, s)

\* The steps whose handoff s consumes.
Upstream(s) == {d \in Step : s \in NextSteps(d)}

Latest(I) == IF I = {} THEN 0 ELSE CHOOSE i \in I : \A k \in I : k <= i

\* The first step of S in plan order.
First(S) ==
    Order[CHOOSE k \in DOMAIN Order : Order[k] \in S /\ \A m \in 1..(k - 1) : Order[m] \notin S]

Attempts(s)  == {a \in DOMAIN attempts : attempts[a].step = s}
Completed(s) == {a \in Attempts(s) : attempts[a].status = "completed"}

Edges(s) == [t \in Step |-> IF t \in NextSteps(s) THEN 1 ELSE 0]

NewAttempt(s) ==
    [step |-> s,
     status |-> IF s \in Approval THEN "waiting" ELSE "running",
     job |-> "none",
     from |-> [d \in Step |-> 0],
     evals |-> 0,
     handoffs |-> [t \in Step |-> 0],
     damaged |-> FALSE]

\* Attempt x with its open agent run, session and job closed with status s.
CloseAs(x, s) ==
    [x EXCEPT !.status = IF x.status \in OpenAttempt THEN s ELSE x.status,
              !.job    = IF x.job \in OpenJob THEN s ELSE x.job]

\* _terminalize_open_runtime_state, row by row; a crash between two rows leaves
\* rows that the next one closes.
AllClosed == [a \in DOMAIN attempts |-> CloseAs(attempts[a], "cancelled")]

Lineage(a, d) ==
    LET b == Latest(Completed(d))
    IN  b # 0 /\ attempts[a].from[d] = b /\ attempts[b].handoffs[attempts[a].step] = 1

\* _validated_dependency_handoff: the recorded handoff from d to s fits Pack e.
Fits(e, d, s) == <<d, s>> \notin e.alien

\* The handoffs of attempt a are one for each edge of Pack e, and fit it.
HandoffsMatch(e, a) ==
    LET s    == attempts[a].step
        Out == NextStepsIn(e, s)
    IN  /\ attempts[a].handoffs = [t \in Step \cup Out |-> IF t \in Out THEN 1 ELSE 0]
        /\ \A t \in Out : Fits(e, s, t)

\* Mutant of ValidCheckpoint: the attempts it consumed are not compared with the
\* current ones.
ValidWithoutLineage(e, a) ==
    /\ ~attempts[a].damaged
    /\ attempts[a].evals = 1 /\ attempts[a].step \notin e.gates
    /\ HandoffsMatch(e, a)

\* Mutant of ValidCheckpoint: evaluations are counted by step, not by attempt.
ValidByStepEvals(e, a) ==
    /\ ~attempts[a].damaged
    /\ \A b \in Attempts(attempts[a].step) : attempts[b].evals = IF b = a THEN 1 ELSE 0
    /\ HandoffsMatch(e, a)
    /\ \A d \in e.needs[attempts[a].step] : Lineage(a, d)

\* The checks of _invalidate_incomplete_checkpoints on a completed attempt: its
\* artifacts, its evaluations, the handoffs it wrote and the lineage it recorded,
\* whose keys are the dependencies of the plan it was executed with.
ValidCheckpoint(e, a) ==
    LET s == attempts[a].step
    IN  /\ ~attempts[a].damaged
        /\ attempts[a].evals = 1 /\ s \notin e.gates
        /\ HandoffsMatch(e, a)
        /\ e.needs[s] = DependsOn[s]
        /\ \A d \in DependsOn[s] : Lineage(a, d) /\ Fits(e, d, s)

----------------------------------------------------------------------------
(* Entering and leaving the runner.                                        *)

\* The fresh local state of the runner at location l, with Pack e.
Enter(l, e) ==
    /\ pc' = l /\ pack' = e /\ pos' = 1
    /\ done' = [s \in Step |-> 0] /\ last' = 0
    /\ todo' = {} /\ batch' = << >> /\ branch' = << >> /\ seen' = {}
    /\ failed' = 0

Fresh(l) == Enter(l, Frozen)

\* _start_run, and _resolved_execution_plan_pack: the frozen plan is in force.
Begin ==
    /\ pc = "idle"
    /\ run = "queued"
    /\ run' = "running"
    /\ Fresh("invalidate")
    /\ UNCHANGED <<attempts, packEvals, final, faults, damage>>

\* requeue_interrupted_run finds a run that is still running.  The worker calls it
\* with the Pack that is registered now, not with the frozen plan of the run.
Requeue ==
    /\ pc = "idle"
    /\ run = "running"
    /\ \E e \in Editions : Enter("requeue", e)
    /\ UNCHANGED durableVars

\* Mutant of Reclose: the open attempts of the interrupted run stay open.
RecloseNothing ==
    /\ pc = "requeue"
    /\ pos > Len(pack.order)
    /\ run' = "queued"
    /\ Fresh("idle")
    /\ UNCHANGED <<attempts, packEvals, final, faults, damage>>

\* The end of requeue_interrupted_run, after its own invalidation.
Reclose ==
    /\ pc = "requeue"
    /\ pos > Len(pack.order)
    /\ attempts' = AllClosed
    /\ run' = "queued"
    /\ Fresh("idle")
    /\ UNCHANGED <<packEvals, final, faults, damage>>

\* A crash, or a StorageError that leaves the runner.
Interrupt ==
    /\ pc # "idle"
    /\ faults < MaxFaults
    /\ faults' = faults + 1
    /\ Fresh("idle")
    /\ UNCHANGED <<run, attempts, packEvals, final, damage>>

\* The operator approves the pending job of an attempt, which resumes the run: in
\* the request, by the worker, or at the next start (see RunSegment, RunWorker).
Approve(a) ==
    /\ pc = "idle"
    /\ run = "waiting"
    /\ attempts[a].job = "required"
    /\ attempts[a].status \in OpenAttempt
    /\ a = Latest(Attempts(attempts[a].step))
    /\ attempts' = [attempts EXCEPT ![a].job = "approved"]
    /\ run' = "queued"
    /\ UNCHANGED <<packEvals, final, faults, damage, localVars>>

\* An artifact file of a completed attempt is changed or lost on disk.
Damage(a) ==
    /\ attempts[a].status = "completed"
    /\ attempts[a].step \notin Bare
    /\ ~attempts[a].damaged
    /\ damage < MaxDamage
    /\ damage' = damage + 1
    /\ attempts' = [attempts EXCEPT ![a].damaged = TRUE]
    /\ UNCHANGED <<run, packEvals, final, faults, localVars>>

----------------------------------------------------------------------------
(* Checkpoints: _invalidate_incomplete_checkpoints, step by step in order,  *)
(* then _completed_step_state.                                             *)

Invalidate ==
    /\ pc \in {"invalidate", "requeue"}
    /\ pos <= Len(pack.order)
    /\ pos' = pos + 1
    /\ LET s == pack.order[pos]
           a == Latest(Completed(s))
       IN  attempts' = IF a = 0 \/ ValidCheckpoint(pack, a) THEN attempts
                       ELSE [b \in DOMAIN attempts |->
                                IF b \in Completed(s)
                                THEN [attempts[b] EXCEPT !.status = "cancelled"]
                                ELSE attempts[b]]
    /\ UNCHANGED <<run, packEvals, final, faults, damage, pc, done, last, todo, batch,
                   branch, seen, failed, pack>>

\* Mutant of LoadState: last_completed_agent_run keeps its initial None.
LoadForgetsLast ==
    /\ pc = "invalidate"
    /\ pos > Len(Order)
    /\ pc' = "loop"
    /\ done' = [s \in Step |-> Latest(Completed(s))]
    /\ UNCHANGED <<durableVars, pos, last, todo, batch, branch, seen, failed, pack>>

\* _completed_step_state and _last_ordered_agent_run.
LoadState ==
    /\ pc = "invalidate"
    /\ pos > Len(Order)
    /\ pc' = "loop"
    /\ done' = [s \in Step |-> Latest(Completed(s))]
    /\ LET k == Latest({m \in DOMAIN Order : Completed(Order[m]) # {}})
       IN  last' = IF k = 0 THEN 0 ELSE Latest(Completed(Order[k]))
    /\ UNCHANGED <<durableVars, pos, todo, batch, branch, seen, failed, pack>>

----------------------------------------------------------------------------
(* The loop of _run: pick the ready steps and prepare them.                *)

Incomplete(s) == done[s] = 0

Ready ==
    IF Explicit
    THEN {s \in Step : Incomplete(s) /\ \A d \in DependsOn[s] : ~Incomplete(d)}
    ELSE {First({s \in Step : Incomplete(s)})}

\* _can_prepare_batch_for_parallel.
ParallelCandidate(S) ==
    Explicit /\ Parallel /\ Cardinality(S) > 1 /\ S \cap Approval = {}

PickReady ==
    /\ pc = "loop"
    /\ \E s \in Step : Incomplete(s)
    /\ pc' = "prepare"
    /\ todo' = IF ParallelCandidate(Ready) \/ Ready \cap Approval # {}
               THEN Ready ELSE {First(Ready)}
    /\ batch' = << >> /\ branch' = << >> /\ seen' = {}
    /\ UNCHANGED <<durableVars, pos, done, last, failed, pack>>

\* Mutant of NeedsAttempt: a cancelled attempt is not replaced.
NeedsFirstAttempt(s) == Attempts(s) = {}

\* _agent_run_for_step, with a new attempt if the latest is cancelled or failed.
NeedsAttempt(s) ==
    \A a \in Attempts(s) :
        a = Latest(Attempts(s)) => attempts[a].status \in {"cancelled", "failed"}

\* _start_agent_run.  An attempt that needs an approval has no job yet.
StartAttempt ==
    /\ pc = "prepare"
    /\ todo # {}
    /\ NeedsAttempt(First(todo))
    /\ attempts' = Append(attempts, NewAttempt(First(todo)))
    /\ pc' = IF First(todo) \in Approval THEN "record" ELSE "prepare"
    /\ UNCHANGED <<run, packEvals, final, faults, damage, pos, done, last, todo, batch,
                   branch, seen, failed, pack>>

\* _record_runtime_state_if_needed of that attempt.
RecordRuntimeState ==
    /\ pc = "record"
    /\ attempts' = [attempts EXCEPT ![Len(attempts)].job = "required"]
    /\ pc' = "prepare"
    /\ UNCHANGED <<run, packEvals, final, faults, damage, pos, done, last, todo, batch,
                   branch, seen, failed, pack>>

\* _dependency_context_for_step: one handoff from each attempt that counts.
HandoffsPresent(s) ==
    \A d \in Upstream(s) : done[d] # 0 /\ attempts[done[d]].handoffs[s] = 1

\* The attempt at hand cannot be executed: a missing handoff, or it is closed.
CannotRun(a) ==
    ~HandoffsPresent(attempts[a].step) \/ attempts[a].status \notin OpenAttempt

\* The rest of _prepare_step_execution: an attempt whose approval is pending is
\* left; any other is activated and records the attempts it depends on.
PrepareStep ==
    /\ pc = "prepare"
    /\ todo # {}
    /\ ~NeedsAttempt(First(todo))
    /\ LET s == First(todo)
           a == Latest(Attempts(s))
       IN  IF attempts[a].job = "required"
           THEN UNCHANGED <<attempts, batch, branch>>
           ELSE /\ ~CannotRun(a)
                /\ attempts' = [attempts EXCEPT
                       ![a].status = "running",
                       ![a].from = [d \in Step |-> IF d \in DependsOn[s] THEN done[d] ELSE 0]]
                /\ batch' = Append(batch, a)
                /\ branch' = Append(branch, "new")
    /\ todo' = todo \ {First(todo)}
    /\ UNCHANGED <<run, packEvals, final, faults, damage, pc, pos, done, last, seen, failed, pack>>

\* An exception of attempt a leaves the loop; l is what handles it first.
Fail(a, l) ==
    /\ failed' = a
    /\ pc' = l
    /\ UNCHANGED <<pos, done, last, todo, batch, branch, seen, pack>>

Unreadable == \E a \in DOMAIN attempts :
                 attempts[a].status = "completed" /\ attempts[a].damaged

\* _StepPreparationError: a missing input, artifact or handoff, or a damaged
\* artifact of a completed attempt that _build_context reads.
PrepareFails ==
    /\ pc = "prepare"
    /\ todo # {}
    /\ ~NeedsAttempt(First(todo))
    /\ LET a == Latest(Attempts(First(todo)))
       IN  /\ \/ First(todo) \in Failing
              \/ attempts[a].job # "required" /\ (CannotRun(a) \/ Unreadable)
           /\ Fail(a, "fail")
    /\ UNCHANGED durableVars

\* Nothing to execute and an approval pending: _wait_run.
WaitRun ==
    /\ pc = "prepare"
    /\ todo = {} /\ batch = << >>
    /\ \E a \in DOMAIN attempts : attempts[a].job = "required"
    /\ run' = "waiting"
    /\ Fresh("idle")
    /\ UNCHANGED <<attempts, packEvals, final, faults, damage>>

----------------------------------------------------------------------------
(* _execute_prepared_steps.  A serial batch is a pool of one thread: the    *)
(* branches run one by one and stop after the first failure.               *)

Workers ==
    IF ParallelCandidate(Ready)
    THEN IF Len(batch) < MaxParallel THEN Len(batch) ELSE MaxParallel
    ELSE 1

SubmitBatch ==
    /\ pc = "prepare"
    /\ todo = {} /\ batch # << >>
    /\ pc' = "execute"
    /\ branch' = [i \in DOMAIN batch |-> IF i <= Workers THEN "submitted" ELSE "new"]
    /\ UNCHANGED <<durableVars, pos, done, last, todo, batch, seen, failed, pack>>

SetBranch(i, s) ==
    /\ branch' = [branch EXCEPT ![i] = s]
    /\ UNCHANGED <<durableVars, pc, pos, done, last, todo, batch, seen, failed, pack>>

\* A pool thread takes the branch, and later the executor returns or raises.
BranchStarts(i) == pc = "execute" /\ branch[i] = "submitted" /\ SetBranch(i, "running")

BranchEnds(i) ==
    /\ pc = "execute"
    /\ branch[i] = "running"
    /\ \/ SetBranch(i, "ok")
       \/ attempts[batch[i]].step \in Failing /\ SetBranch(i, "error")

Errors(I) == {i \in I : branch[i] = "error"}

Lowest(I) == CHOOSE i \in I : \A k \in I : i <= k

\* Mutant of CollectError: every branch that has not started is cancelled.
CollectErrorCancelsAll(i) ==
    /\ pc = "execute"
    /\ branch[i] = "error" /\ i \notin seen
    /\ seen' = seen \cup {i}
    /\ branch' = [j \in DOMAIN branch |->
                     IF j \notin seen /\ branch[j] = "submitted" THEN "cancelled" ELSE branch[j]]
    /\ UNCHANGED <<durableVars, pc, pos, done, last, todo, batch, failed, pack>>

\* The collector takes the result of a branch that ended: after a failure the
\* branches behind it that have not started are cancelled ...
CollectError(i) ==
    /\ pc = "execute"
    /\ branch[i] = "error" /\ i \notin seen
    /\ seen' = seen \cup {i}
    /\ branch' = [j \in DOMAIN branch |->
                     IF j > Lowest(Errors(seen')) /\ branch[j] = "submitted"
                     THEN "cancelled" ELSE branch[j]]
    /\ UNCHANGED <<durableVars, pc, pos, done, last, todo, batch, failed, pack>>

\* ... and after a success the next one is submitted unless one failed.
CollectOk(i) ==
    /\ pc = "execute"
    /\ branch[i] = "ok" /\ i \notin seen
    /\ seen' = seen \cup {i}
    /\ LET New == {j \in DOMAIN branch : branch[j] = "new"}
       IN  branch' = IF Errors(seen) = {} /\ New # {}
                     THEN [branch EXCEPT ![Lowest(New)] = "submitted"] ELSE branch
    /\ UNCHANGED <<durableVars, pc, pos, done, last, todo, batch, failed, pack>>

\* Every submitted branch is collected; the others never start.
BatchEnds ==
    /\ pc = "execute"
    /\ \A i \in DOMAIN branch : branch[i] \in {"new", "cancelled"} \/ i \in seen
    /\ branch' = [i \in DOMAIN branch |-> IF branch[i] = "new" THEN "cancelled" ELSE branch[i]]
    /\ pc' = "commit"
    /\ pos' = 1
    /\ UNCHANGED <<durableVars, done, last, todo, batch, seen, failed, pack>>

----------------------------------------------------------------------------
(* _commit_step_output of the results in plan order.                       *)

Current == batch[pos]

\* Artifacts and the structural evaluation; a step without artifacts gets WARN.
\* A step may fail before its evidence (outputs, return contract) or after it
\* (evaluations, acceptance criteria).
CommitEvidence ==
    /\ pc = "commit"
    /\ pos <= Len(batch)
    /\ branch[pos] = "ok"
    /\ LET s == attempts[Current].step
           Recorded == [attempts EXCEPT ![Current].evals = IF s \in Bare THEN @ ELSE @ + 1]
       IN  \/ /\ attempts' = Recorded
              /\ pc' = "handoffs"
              /\ todo' = NextSteps(s)
              /\ UNCHANGED <<pos, done, last, batch, branch, seen, failed, pack>>
           \/ /\ s \in Failing
              /\ attempts' \in {attempts, Recorded}
              /\ Fail(Current, "abort")
    /\ UNCHANGED <<run, packEvals, final, faults, damage>>

BatchFailed ==
    /\ pc = "commit"
    /\ pos <= Len(batch)
    /\ branch[pos] # "ok"
    /\ Fail(Current, "abort")
    /\ UNCHANGED durableVars

\* create_handoff for one outgoing edge.
WriteHandoff ==
    /\ pc = "handoffs"
    /\ todo # {}
    /\ attempts' = [attempts EXCEPT ![Current].handoffs[First(todo)] = @ + 1]
    /\ todo' = todo \ {First(todo)}
    /\ UNCHANGED <<run, packEvals, final, faults, damage, pc, pos, done, last, batch,
                   branch, seen, failed, pack>>

\* _complete_runtime_job comes before the checkpoint itself.
CompleteJob ==
    /\ pc = "handoffs"
    /\ todo = {}
    /\ attempts' = [attempts EXCEPT ![Current].job = IF @ = "approved" THEN "completed" ELSE @]
    /\ pc' = "checkpoint"
    /\ UNCHANGED <<run, packEvals, final, faults, damage, pos, done, last, todo, batch,
                   branch, seen, failed, pack>>

Checkpoint ==
    /\ pc = "checkpoint"
    /\ attempts' = [attempts EXCEPT ![Current].status = "completed"]
    /\ done' = [done EXCEPT ![attempts[Current].step] = Current]
    /\ last' = Current
    /\ pc' = "commit"
    /\ pos' = pos + 1
    /\ UNCHANGED <<run, packEvals, final, faults, damage, todo, batch, branch, seen, failed, pack>>

BatchCommitted ==
    /\ pc = "commit"
    /\ pos > Len(batch)
    /\ pc' = "loop"
    /\ pos' = 1
    /\ UNCHANGED <<durableVars, done, last, todo, batch, branch, seen, failed, pack>>

----------------------------------------------------------------------------
(* The end of the run.                                                     *)

\* _cancel_uncommitted_prepared_steps: the other open attempts of the batch.
AbortBatch ==
    /\ pc = "abort"
    /\ attempts' = [a \in DOMAIN attempts |->
                       IF a # failed /\ \E i \in DOMAIN batch : batch[i] = a
                       THEN CloseAs(attempts[a], "cancelled") ELSE attempts[a]]
    /\ pc' = "fail"
    /\ UNCHANGED <<run, packEvals, final, faults, damage, pos, done, last, todo, batch,
                   branch, seen, failed, pack>>

FailRun ==
    /\ pc = "fail"
    /\ attempts' = [attempts EXCEPT ![failed] = CloseAs(@, "failed")]
    /\ run' = "failed"
    /\ pc' = "close"
    /\ UNCHANGED <<packEvals, final, faults, damage, pos, done, last, todo, batch,
                   branch, seen, failed, pack>>

CloseRun ==
    /\ pc = "close"
    /\ attempts' = AllClosed
    /\ Fresh("idle")
    /\ UNCHANGED <<run, packEvals, final, faults, damage>>

Bound(a) == {i \in DOMAIN packEvals : packEvals[i] = a}

\* Mutant of EvaluatePack: the result of an earlier process is not reused.
EvaluateAgain ==
    /\ pc = "loop"
    /\ \A s \in Step : ~Incomplete(s)
    /\ packEvals' = Append(packEvals, last)
    /\ pc' = "complete"
    /\ UNCHANGED <<run, attempts, final, faults, damage, pos, done, last, todo, batch,
                   branch, seen, failed, pack>>

\* _evaluate_pack, one check: the result bound to the last completed attempt is
\* reused or recorded, in one transaction with its trace event.  The artifacts
\* decide whether it blocks, so that a repeated evaluation agrees with the first.
EvaluatePack ==
    /\ pc = "loop"
    /\ \A s \in Step : ~Incomplete(s)
    /\ packEvals' = IF Bound(last) = {} THEN Append(packEvals, last) ELSE packEvals
    /\ \/ /\ last \notin PackBlocks
          /\ pc' = "complete"
          /\ UNCHANGED <<pos, done, last, todo, batch, branch, seen, failed, pack>>
       \/ last \in PackBlocks /\ Fail(last, "fail")
    /\ UNCHANGED <<run, attempts, final, faults, damage>>

CompleteRun ==
    /\ pc = "complete"
    /\ attempts' = AllClosed
    /\ run' = "completed"
    /\ final' = done[FinalStep]
    /\ Fresh("idle")
    /\ UNCHANGED <<packEvals, faults, damage>>

----------------------------------------------------------------------------
(* The quality report (core/quality.py), read from the durable records.    *)

\* _latest_completed_attempts: the last row in creation order wins.
LatestCompleted(s) == Latest(Completed(s))

\* _has_unique_attempt_eval_pass: one result bound to the attempt, and it passed.
StepEvalPassed(a) == attempts[a].evals = 1
PackEvalPassed(a) == Cardinality(Bound(a)) = 1 /\ a \notin PackBlocks

\* What the plan's criteria ask of a step: the artifact and the acceptance
\* checks of its latest completed attempt.
StepQuality(s) ==
    /\ LatestCompleted(s) # 0
    /\ s \notin Bare
    /\ StepEvalPassed(LatestCompleted(s))

\* _invalid_artifact_ids
ArtifactsVerified ==
    \A s \in Step : LatestCompleted(s) # 0 => ~attempts[LatestCompleted(s)].damaged

\* evaluate_run_quality
QualityPassed ==
    /\ run = "completed"
    /\ \A s \in Step : StepQuality(s)
    /\ PackEvalPassed(LatestCompleted(Order[Len(Order)]))
    /\ ArtifactsVerified
    /\ final # 0 /\ final = LatestCompleted(FinalStep)

----------------------------------------------------------------------------
RunnerStep ==
    \/ Begin
    \/ Requeue
    \/ Reclose
    \/ Invalidate
    \/ LoadState
    \/ PickReady
    \/ StartAttempt
    \/ RecordRuntimeState
    \/ PrepareStep
    \/ PrepareFails
    \/ WaitRun
    \/ SubmitBatch
    \/ \E i \in DOMAIN branch :
          BranchStarts(i) \/ BranchEnds(i) \/ CollectError(i) \/ CollectOk(i)
    \/ BatchEnds
    \/ CommitEvidence
    \/ BatchFailed
    \/ WriteHandoff
    \/ CompleteJob
    \/ Checkpoint
    \/ BatchCommitted
    \/ AbortBatch
    \/ FailRun
    \/ CloseRun
    \/ EvaluatePack
    \/ CompleteRun

Next ==
    \/ RunnerStep
    \/ Interrupt
    \/ \E a \in DOMAIN attempts : Approve(a) \/ Damage(a)

Spec == Init /\ [][Next]_vars

\* The worker executes, requeues and resumes the run; the operator eventually
\* approves what is pending.
FairSpec ==
    /\ Spec
    /\ WF_vars(RunnerStep)
    /\ WF_vars(\E a \in DOMAIN attempts : Approve(a))

----------------------------------------------------------------------------
(* Properties.                                                             *)

\* A step becomes a completed checkpoint only with its evaluation and exactly
\* one handoff for every outgoing edge, however often the commit was interrupted
\* and the step repeated.
CheckpointComplete ==
    \A a \in DOMAIN attempts :
        attempts[a].status = "completed" =>
            /\ attempts[a].evals = IF attempts[a].step \in Bare THEN 0 ELSE 1
            /\ attempts[a].handoffs = Edges(attempts[a].step)

\* A completed run with declared dependencies is built from one consistent set
\* of attempts: every step consumed the very attempts that count in the end,
\* through crashes and repeated steps, and so did the final artifact.
ConsistentLineage ==
    run = "completed" =>
        /\ final \in Completed(FinalStep)
        /\ \A s \in Step : Cardinality(Completed(s)) = 1
        /\ Explicit => \A s \in Step : \A a \in Completed(s) : \A d \in DependsOn[s] :
              attempts[a].from[d] \in Completed(d)

\* A step that requires an approval is executed and committed only with one,
\* given for that very attempt.
ApprovedBeforeExecution ==
    \A a \in DOMAIN attempts :
        attempts[a].step \in Approval /\ attempts[a].status \in {"running", "completed"} =>
            attempts[a].job \in {"approved", "completed"}

\* In plan order the first result of a batch that is not a success is a real
\* failure, never a branch that was cancelled because of a later one: the run
\* reports the error that stopped it.
FirstFailureIsReal ==
    pc = "commit" =>
        \A i \in DOMAIN branch :
            branch[i] = "cancelled" => \E k \in 1..(i - 1) : branch[k] = "error"

\* The pack is evaluated again only when the attempt an earlier result is bound
\* to no longer counts.
PackEvalOnce ==
    \A i, k \in DOMAIN packEvals :
        i < k => attempts[packEvals[i]].status # "completed"

\* The quality report of a completed run passes exactly when the artifacts of its
\* checkpoints are intact (and no step went without one): whatever was repeated,
\* invalidated or evaluated twice on the way, the evidence the report looks for
\* is there once, bound to the attempts that count.
QualityFollows ==
    run = "completed" =>
        (QualityPassed <=> \A s \in Step : \A a \in Completed(s) :
                               s \notin Bare /\ ~attempts[a].damaged)

\* Pack e declares step s as the frozen plan does: the same dependencies and
\* dependents, agents and artifacts that fit the recorded handoffs, and gates
\* that the recorded evaluations pass.
Agrees(e, s) ==
    /\ e.needs[s] = DependsOn[s]
    /\ NextStepsIn(e, s) = NextSteps(s)
    /\ s \notin e.gates
    /\ \A t \in DependsOn[s] : Fits(e, t, s)
    /\ \A t \in NextSteps(s) : Fits(e, s, t)

\* A checkpoint is given up only if its artifacts were damaged or absent, or an
\* attempt it consumed was given up; or the run was interrupted, and the Pack
\* registered when it is requeued declares the step differently from the frozen
\* plan.  With a Pack that agrees, crashes alone cost no completed step.
CheckpointsKept ==
    [][\A a \in DOMAIN attempts :
          attempts[a].status = "completed" /\ attempts'[a].status # "completed" =>
              \/ attempts[a].damaged
              \/ attempts[a].step \in Bare
              \/ \E d \in DependsOn[attempts[a].step] :
                    attempts[attempts[a].from[d]].status # "completed"
              \/ pc = "requeue" /\ ~Agrees(pack, attempts[a].step)]_vars

\* Every run ends: it completes, through interruptions, approvals and repeated
\* steps, unless a step that may fail has failed, a check of the pack blocked it,
\* or an artifact was damaged.
RunEnds ==
    <>(\/ run = "completed"
       \/ /\ run = "failed"
          /\ \/ damage > 0
             \/ \E i \in DOMAIN packEvals : packEvals[i] \in PackBlocks
             \/ \E a \in DOMAIN attempts :
                    attempts[a].status = "failed" /\ attempts[a].step \in Failing)
=============================================================================
