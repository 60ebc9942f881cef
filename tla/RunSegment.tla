----------------------------- MODULE RunSegment -----------------------------
(***************************************************************************)
(* The bodies that run inside the coordinator's critical section: the      *)
(* RuntimeController actions (approve, reject, cancel), the worker's       *)
(* background approval, and WorkflowRunner._run as far as the run row and  *)
(* the approval jobs are concerned.                                        *)
(*                                                                         *)
(* A controller action reads its records in "load" and writes them in      *)
(* "apply": the writes are copies of what it read, so they overwrite       *)
(* whatever another thread wrote in between.  The runner likewise writes   *)
(* its own copy of the run row at every step it prepares.                  *)
(***************************************************************************)
EXTENDS RunCoordinator

CONSTANT Failing    \* runs whose workflow may fail on its own

ASSUME RunSegmentAssumption == Failing \subseteq Run

SetRun(r, s)    == run' = [run EXCEPT ![r] = s]
SetJob(r, j, s) == job' = [job EXCEPT ![r][j] = s]
CloseJobs(r)    == job' = [job EXCEPT ![r] = Closed(r)]

\* Where a RuntimeController action goes after reading its run and job:
\* "conflict" when one of its checks raises RuntimeControlConflict.
Decision(kind, r, j) ==
    CASE kind = "approve" ->
            IF run[r] # "waiting" THEN "conflict"
            ELSE IF job[r][j] = "approved" THEN "activate"
            ELSE IF job[r][j] = "required" THEN "apply" ELSE "conflict"
      [] kind = "reject" ->
            IF run[r] = "waiting" /\ job[r][j] = "required" THEN "apply" ELSE "conflict"
      [] kind = "cancel" ->
            IF run[r] \in TerminalRun \/ job[r][j] \in {"completed", "rejected"}
            THEN "conflict"
            ELSE IF job[r][j] = "cancelled" THEN "finish" ELSE "apply"
      [] OTHER ->       \* _prepare_background_approval
            IF job[r][j] = "completed" THEN "release"
            ELSE IF job[r][j] = "approved" THEN "enqueue"
            ELSE IF job[r][j] = "required" /\ run[r] = "waiting" THEN "apply"
            ELSE "conflict"

Load(p, ok) ==
    /\ pc[p] = "load"
    /\ Storage(ok)
    /\ LET d == Decision(op[p].kind, op[p].run, op[p].job)
       IN  CASE ~ok -> Raise(p, "storage", Handler(p))
             [] ok /\ d = "conflict" -> Raise(p, "conflict", Handler(p))
             [] OTHER -> Continue(p, d)
    /\ UNCHANGED <<run, job, items, lock>>

\* RuntimeController.approve writes the job; the run row is left waiting.
ApplyApproval(p, ok) ==
    /\ pc[p] = "apply"
    /\ op[p].kind \in {"approve", "bgapprove"}
    /\ Storage(ok)
    /\ IF ok
       THEN /\ SetJob(op[p].run, op[p].job, "approved")
            /\ Continue(p, IF op[p].kind = "approve" THEN "activate" ELSE "enqueue")
       ELSE /\ Raise(p, "storage", Handler(p))
            /\ UNCHANGED job
    /\ UNCHANGED <<run, items, lock>>

\* Mutant of TerminalAction: only the job acted on is closed.
TerminalActionKeepsOthers(p, ok) ==
    /\ pc[p] = "apply"
    /\ op[p].kind \in {"reject", "cancel"}
    /\ Storage(ok)
    /\ IF ok
       THEN /\ SetRun(op[p].run, "cancelled")
            /\ SetJob(op[p].run, op[p].job, "cancelled")
            /\ Continue(p, "finish")
       ELSE Raise(p, "storage", Handler(p)) /\ UNCHANGED <<run, job>>
    /\ UNCHANGED <<items, lock>>

\* _terminal_action: one transaction closes the job, the run and every other
\* open job.  The run it overwrites is the copy read in "load".
TerminalAction(p, ok) ==
    /\ pc[p] = "apply"
    /\ op[p].kind \in {"reject", "cancel"}
    /\ Storage(ok)
    /\ LET r == op[p].run
           s == IF op[p].kind = "reject" THEN "rejected" ELSE "cancelled"
       IN  IF ok
           THEN /\ SetRun(r, "cancelled")
                /\ job' = [job EXCEPT ![r] = [Closed(r) EXCEPT ![op[p].job] = s]]
                /\ Continue(p, "finish")
           ELSE /\ Raise(p, "storage", Handler(p))
                /\ UNCHANGED <<run, job>>
    /\ UNCHANGED <<items, lock>>

\* Mutant of EnqueueApproved: a new segment is always created.
EnqueueAlwaysNew(p, ok) ==
    /\ pc[p] = "enqueue"
    /\ Storage(ok)
    /\ ok /\ run[op[p].run] \in {"waiting", "queued"}
    /\ SetRun(op[p].run, "queued")
    /\ items' = Append(items, NewItem(op[p].run, TRUE))
    /\ op' = [op EXCEPT ![p].item = Len(items) + 1]
    /\ Goto(p, "release")
    /\ UNCHANGED <<exc, job, lock>>

\* The transaction of _prepare_background_approval: the waiting run is queued
\* and its active background segment reused, or a new one created.
EnqueueApproved(p, ok) ==
    /\ pc[p] = "enqueue"
    /\ Storage(ok)
    /\ LET r == op[p].run
           A == BackgroundItems(r, ActiveItem)
       IN  CASE ~ok -> Raise(p, "storage", "release") /\ UNCHANGED <<run, items>>
             [] ok /\ run[r] \notin {"waiting", "queued"} ->
                    Raise(p, "conflict", "release") /\ UNCHANGED <<run, items>>
             [] OTHER ->
                    /\ SetRun(r, "queued")
                    /\ items' = IF A = {} THEN Append(items, NewItem(r, TRUE)) ELSE items
                    /\ op' = [op EXCEPT ![p].item =
                                  IF A = {} THEN Len(items) + 1 ELSE Latest(A)]
                    /\ Goto(p, "release")
                    /\ UNCHANGED exc
    /\ UNCHANGED <<job, lock>>

----------------------------------------------------------------------------
\* Mutant of Activate: the status of the run is not checked.
ActivateAnyStatus(p, ok) ==
    /\ pc[p] = "activate"
    /\ Storage(ok)
    /\ IF ok THEN SetRun(op[p].run, "running") /\ Continue(p, "segment")
             ELSE Raise(p, "storage", "error_item") /\ UNCHANGED run
    /\ UNCHANGED <<job, items, lock>>

\* WorkflowRunner._start_run: a queued run, or on resume a waiting one.
Activate(p, ok) ==
    /\ pc[p] = "activate"
    /\ Storage(ok)
    /\ LET r == op[p].run
           startable == IF op[p].kind = "approve" THEN {"queued", "waiting"} ELSE {"queued"}
       IN  CASE ~ok -> Raise(p, "storage", "error_item") /\ UNCHANGED run
             [] ok /\ run[r] \notin startable ->
                    Raise(p, "error", "error_item") /\ UNCHANGED run
             [] OTHER -> SetRun(r, "running") /\ Continue(p, "segment")
    /\ UNCHANGED <<job, items, lock>>

\* The executor factory of the worker's runner fails before activation.
RunnerUnavailable(p) ==
    /\ pc[p] = "activate"
    /\ p = Worker
    /\ op[p].run \in Failing
    /\ Raise(p, "error", "error_item")
    /\ UNCHANGED storeVars

\* _prepare_step_execution of a step without a usable attempt: a new approval
\* job is recorded for it.
RequestApproval(p, j) ==
    /\ pc[p] = "segment"
    /\ job[op[p].run][j] \in {"none", "cancelled", "rejected"}
    /\ SetRun(op[p].run, "running")
    /\ SetJob(op[p].run, j, "required")
    /\ Continue(p, "segment")
    /\ UNCHANGED <<items, lock, faults>>

\* An approved step is executed and its output committed.
CommitApproved(p, j) ==
    /\ pc[p] = "segment"
    /\ job[op[p].run][j] = "approved"
    /\ SetRun(op[p].run, "running")
    /\ SetJob(op[p].run, j, "completed")
    /\ Continue(p, "segment")
    /\ UNCHANGED <<items, lock, faults>>

\* _wait_run: nothing is executable and an approval is pending.  The trace
\* record after the run row may fail.
WaitRun(p, ok) ==
    /\ pc[p] = "segment"
    /\ \E j \in Job : job[op[p].run][j] = "required"
    /\ \A j \in Job : job[op[p].run][j] # "approved"
    /\ Storage(ok)
    /\ SetRun(op[p].run, "waiting")
    /\ IF ok THEN Continue(p, "finish") ELSE Raise(p, "storage", "error_item")
    /\ UNCHANGED <<job, items, lock>>

\* Every step has a completed attempt.
CompleteRun(p) ==
    /\ pc[p] = "segment"
    /\ \A j \in Job : job[op[p].run][j] \in {"none", "completed"}
    /\ SetRun(op[p].run, "completed")
    /\ Continue(p, "finish")
    /\ UNCHANGED <<job, items, lock, faults>>

\* _fail_run writes the run row; the open runtime state is closed after it.
FailRun(p) ==
    /\ pc[p] = "segment"
    /\ op[p].run \in Failing
    /\ SetRun(op[p].run, "failed")
    /\ Continue(p, "close")
    /\ UNCHANGED <<job, items, lock, faults>>

CloseRuntimeState(p, ok) ==
    /\ pc[p] = "close"
    /\ Storage(ok)
    /\ IF ok
       THEN CloseJobs(op[p].run) /\ Raise(p, "error", "error_item")
       ELSE UNCHANGED job /\ Raise(p, "storage", "error_item")
    /\ UNCHANGED <<run, items, lock>>

\* A StorageError anywhere in the runner leaves the run row running.
SegmentInterrupted(p) ==
    /\ pc[p] = "segment"
    /\ Storage(FALSE)
    /\ Raise(p, "storage", "error_item")
    /\ UNCHANGED <<run, job, items, lock>>

BodyStep(p, ok) ==
    \/ Load(p, ok)
    \/ ApplyApproval(p, ok)
    \/ TerminalAction(p, ok)
    \/ EnqueueApproved(p, ok)
    \/ Activate(p, ok)
    \/ ok /\ RunnerUnavailable(p)
    \/ ok /\ \E j \in Job : RequestApproval(p, j) \/ CommitApproved(p, j)
    \/ WaitRun(p, ok)
    \/ ok /\ CompleteRun(p)
    \/ ok /\ FailRun(p)
    \/ CloseRuntimeState(p, ok)
    \/ ~ok /\ SegmentInterrupted(p)
=============================================================================
